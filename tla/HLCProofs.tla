----------------------------- MODULE HLCProofs -----------------------------
(***************************************************************************)
(* What the proofs about clocks and versions rest on: the order of         *)
(* versions is a strict total order, and both operations of a clock move   *)
(* it past what it has seen as long as the counter does not wrap.          *)
(***************************************************************************)
EXTENDS HLC, TLAPS

\* Timestamp.Compare is a comparison: three-valued, zero only on equal
\* readings, antisymmetric.
LEMMA CompareFacts ==
  ASSUME NEW t \in Timestamp, NEW o \in Timestamp
  PROVE  /\ Compare(t, o) \in {-1, 0, 1}
         /\ Compare(t, o) = 0 <=> t = o
         /\ Compare(t, o) = -Compare(o, t)
  BY HLCAssumption DEF Compare, Timestamp

\* Timestamp.Compare is transitive, the weak forms included.
LEMMA CompareTransitive ==
  ASSUME NEW t \in Timestamp, NEW o \in Timestamp, NEW u \in Timestamp,
         Compare(t, o) >= 0, Compare(o, u) >= 0
  PROVE  /\ Compare(t, u) >= 0
         /\ Compare(t, o) > 0 \/ Compare(o, u) > 0 => Compare(t, u) > 0
  BY HLCAssumption DEF Compare, Timestamp

\* Clock.Now returns a reading, and a strictly greater one unless the counter
\* is at its last value.
LEMMA NowFacts ==
  ASSUME NEW t \in Timestamp, NEW p \in Nat
  PROVE  /\ Now(t, p) \in Timestamp
         /\ t.ctr + 1 < CounterMod => Compare(Now(t, p), t) > 0
         /\ Now(t, p).wall = Greater(p, t.wall)
         /\ Now(t, p).ctr <= t.ctr + 1
  BY HLCAssumption DEF Now, Timestamp, Bump, Compare, Greater

\* Clock.Observe returns a reading strictly greater than both the clock's own
\* and the observed one, unless a counter that the merge goes on from is at its
\* last value.
LEMMA ObserveFacts ==
  ASSUME NEW t \in Timestamp, NEW p \in Nat, NEW r \in Timestamp
  PROVE  /\ Observe(t, p, r) \in Timestamp
         /\ /\ Observe(t, p, r).wall = t.wall => t.ctr + 1 < CounterMod
            /\ Observe(t, p, r).wall = r.wall => r.ctr + 1 < CounterMod
            => /\ Compare(Observe(t, p, r), t) > 0
               /\ Compare(Observe(t, p, r), r) > 0
         /\ Observe(t, p, r).wall = Greater(p, Greater(t.wall, r.wall))
         /\ Observe(t, p, r).ctr <= Greater(t.ctr, r.ctr) + 1
  BY HLCAssumption DEF Observe, Timestamp, Bump, Compare, Greater

\* Version.After with the origin as tiebreak is a strict total order, which is
\* what hlc.go asks of it ("a total order rather than a partial one").
THEOREM AfterIsTotalOrder ==
  ASSUME NEW N, N \subseteq Nat,
         NEW v \in [hlc : Timestamp, origin : N],
         NEW o \in [hlc : Timestamp, origin : N],
         NEW u \in [hlc : Timestamp, origin : N]
  PROVE  /\ Equal(v, o) <=> v = o
         /\ v = o \/ After(v, o) \/ After(o, v)
         /\ ~(After(v, o) /\ After(o, v))
         /\ After(v, o) /\ After(o, u) => After(v, u)
<1>1. v.hlc \in Timestamp /\ o.hlc \in Timestamp /\ u.hlc \in Timestamp
      /\ v.origin \in Nat /\ o.origin \in Nat /\ u.origin \in Nat
  OBVIOUS
<1>2. v = o <=> v.hlc = o.hlc /\ v.origin = o.origin
  OBVIOUS
<1>3. /\ Compare(v.hlc, o.hlc) \in {-1, 0, 1}
      /\ Compare(o.hlc, v.hlc) \in {-1, 0, 1}
      /\ Compare(o.hlc, u.hlc) \in {-1, 0, 1}
      /\ Compare(v.hlc, u.hlc) \in {-1, 0, 1}
      /\ Compare(v.hlc, o.hlc) = -Compare(o.hlc, v.hlc)
      /\ Compare(v.hlc, o.hlc) = 0 <=> v.hlc = o.hlc
  BY <1>1, CompareFacts
<1>4. Equal(v, o) <=> v = o
  BY <1>1, <1>2, <1>3 DEF Equal
<1>5. v = o \/ After(v, o) \/ After(o, v)
  BY <1>1, <1>2, <1>3 DEF After
<1>6. ~(After(v, o) /\ After(o, v))
  BY <1>1, <1>3 DEF After
<1>7. ASSUME After(v, o), After(o, u) PROVE After(v, u)
  <2>1. Compare(v.hlc, o.hlc) >= 0 /\ Compare(o.hlc, u.hlc) >= 0
    BY <1>1, <1>3, <1>7 DEF After
  <2>2. /\ Compare(v.hlc, u.hlc) >= 0
        /\ Compare(v.hlc, o.hlc) > 0 \/ Compare(o.hlc, u.hlc) > 0
             => Compare(v.hlc, u.hlc) > 0
    BY <1>1, <2>1, CompareTransitive
  <2>3. CASE Compare(v.hlc, u.hlc) > 0
    BY <2>3 DEF After
  <2>4. CASE Compare(v.hlc, u.hlc) = 0
    BY <1>1, <1>3, <1>7, <2>1, <2>2, <2>4 DEF After
  <2> QED
    BY <1>3, <2>2, <2>3, <2>4
<1> QED
  BY <1>4, <1>5, <1>6, <1>7
===========================================================================
