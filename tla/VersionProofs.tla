--------------------------- MODULE VersionProofs ---------------------------
(***************************************************************************)
(* Versions, bookmarks and edits in Replication: what a node holds is only *)
(* ever replaced by a later write, a version names one write, nothing of a *)
(* peer's feed is left behind a bookmark, and no edit is lost.             *)
(*                                                                         *)
(* The first three rest on the clocks, and so on two things the program    *)
(* does not see to: that no counter wraps, and that a process which starts *)
(* again finds its machine's clock past what it had stamped or stored. The *)
(* last rests on conflict names instead. These are hypotheses of the       *)
(* theorems, not assumptions on constants: behaviours without them exist   *)
(* (RestartBehind.cfg, ConflictNameReused.cfg and RetriedConflict.cfg).    *)
(***************************************************************************)
EXTENDS ReplicationProofs, FunctionTheorems, FiniteSetTheorems, SequenceTheorems

\* No uint32 counter is about to wrap; handling one entry ticks a clock twice.
CountersHaveRoom == \A n \in Node : last[n].ctr + 2 < CounterMod

\* A clock that has not ticked since its process started is about to be
\* carried past all the node has stored by the machine's clock.
FreshAheadOfStore ==
  \A n \in Node : last[n] = ZeroTime =>
    \A m \in rows[n] : m.ver.hlc.wall < physical(n)

\* Every entry a node holds, has received or has prepared.
Known ==
  UNION {rows[n] \cup UNION {pull[n][q].page \cup pull[n][q].batch : q \in Node}
           : n \in Node}

\* The same also for the node's own writes, wherever they are by now.
FreshAheadOfOwn ==
  \A n \in Node : last[n] = ZeroTime =>
    \A m \in Known : m.ver.origin = n => m.ver.hlc.wall < physical(n)

\* Two rows for the same write: they agree in all that is replicated.
Same(a, b) ==
  /\ a.path = b.path /\ a.kind = b.kind /\ a.hash = b.hash
  /\ a.prev = b.prev /\ a.attr = b.attr /\ a.ver = b.ver /\ a.deleted = b.deleted

---------------------------------------------------------------------------
(* Clocks and versions. *)

\* The parts of a version.
LEMMA VersionParts ==
  ASSUME NEW m \in Meta
  PROVE  /\ m.ver \in Version /\ m.ver.hlc \in Timestamp /\ m.ver.origin \in Node
         /\ m.ver.hlc.wall \in Nat /\ m.ver.hlc.ctr \in Nat /\ m.path \in Path
  BY DEF Meta, Version, Timestamp

\* Last-writer-wins is a strict total order on versions.
LEMMA VersionOrder ==
  ASSUME NEW v \in Version, NEW o \in Version, NEW u \in Version
  PROVE  /\ Equal(v, o) <=> v = o
         /\ v = o \/ After(v, o) \/ After(o, v)
         /\ ~(After(v, o) /\ After(o, v))
         /\ After(v, o) /\ After(o, u) => After(v, u)
  BY AfterIsTotalOrder, StoreAssumption DEF Version

\* A later reading makes a later version, whatever the origins.
LEMMA LaterIsAfter ==
  ASSUME NEW v \in Version, NEW o \in Version, Compare(v.hlc, o.hlc) > 0
  PROVE  After(v, o)
  BY DEF After

\* A clock that moved forward, strictly or not, is past what it was past.
LEMMA CompareChain ==
  ASSUME NEW t \in Timestamp, NEW o \in Timestamp, NEW u \in Timestamp,
         Compare(t, o) > 0, Compare(o, u) >= 0
  PROVE  Compare(t, u) > 0
<1>1. Compare(t, o) >= 0
  BY CompareFacts
<1> QED
  BY <1>1, CompareTransitive

\* A reading with a greater wall component is later.
LEMMA WallIsLater ==
  ASSUME NEW t \in Timestamp, NEW o \in Timestamp, o.wall < t.wall
  PROVE  Compare(t, o) > 0
  BY DEF Compare, Timestamp

\* The clock moves past everything it has counted from.
Moves(n, t) ==
  t \in Timestamp /\ Compare(t, last[n]) > 0 /\ t.wall >= physical(n)

\* The reading a local write gets.
LEMMA StampMoves ==
  ASSUME TypeOK, CountersHaveRoom, NEW n \in Node
  PROVE  Moves(n, Stamp(n).hlc) /\ Stamp(n) \in Version /\ Stamp(n).origin = n
<1>1. last[n] \in Timestamp /\ physical(n) \in Nat /\ last[n].ctr + 1 < CounterMod
  <2>1. last[n] \in Timestamp /\ physical(n) \in Nat
    BY Parts
  <2>2. last[n].ctr \in Nat /\ CounterMod \in Nat /\ last[n].ctr + 2 < CounterMod
    BY <2>1, HLCAssumption DEF CountersHaveRoom, Timestamp
  <2> QED
    BY <2>1, <2>2
<1> DEFINE t == Now(last[n], physical(n))
<1>2. /\ t \in Timestamp /\ Compare(t, last[n]) > 0
      /\ t.wall = Greater(physical(n), last[n].wall)
  BY <1>1, NowFacts
<1>3. t.wall >= physical(n)
  BY <1>1, <1>2 DEF Greater, Timestamp
<1>4. Stamp(n).hlc = t /\ Stamp(n).origin = n
  BY DEF Stamp
<1> HIDE DEF t
<1> QED
  BY <1>2, <1>3, <1>4, StampType DEF Moves

\* The clock after a peer's entry: past the entry too.
LEMMA ObserveMoves ==
  ASSUME TypeOK, CountersHaveRoom, NEW n \in Node, NEW m \in Meta,
         m.ver.hlc.ctr + 2 < CounterMod
  PROVE  /\ Moves(n, Observed(n, m)) /\ Compare(Observed(n, m), m.ver.hlc) > 0
         /\ Moves(n, ClockAfter(n, m)) /\ Compare(ClockAfter(n, m), m.ver.hlc) > 0
<1> DEFINE t == last[n]
           p == physical(n)
           r == m.ver.hlc
           o == Observed(n, m)
           c == Now(o, p)
<1>1. /\ t \in Timestamp /\ p \in Nat /\ r \in Timestamp
      /\ t.wall \in Nat /\ r.wall \in Nat /\ t.ctr \in Nat /\ r.ctr \in Nat
      /\ CounterMod \in Nat /\ t.ctr + 2 < CounterMod /\ r.ctr + 2 < CounterMod
  <2>1. t \in Timestamp /\ p \in Nat /\ r \in Timestamp
    BY Parts, VersionParts
  <2> QED
    BY <2>1, HLCAssumption DEF CountersHaveRoom, Timestamp
<1>2. o = Observe(t, p, r)
  BY DEF Observed
<1> HIDE DEF t, p, r, o
<1>3. t.ctr + 1 < CounterMod /\ r.ctr + 1 < CounterMod
  BY <1>1
<1>4. /\ o \in Timestamp /\ Compare(o, t) > 0 /\ Compare(o, r) > 0
      /\ o.wall = Greater(p, Greater(t.wall, r.wall))
      /\ o.ctr <= Greater(t.ctr, r.ctr) + 1
  BY <1>1, <1>2, <1>3, ObserveFacts
<1>5. o.wall >= p /\ o.ctr + 1 < CounterMod /\ o.wall \in Nat
  BY <1>1, <1>4 DEF Greater, Timestamp
<1>6. c \in Timestamp /\ Compare(c, o) > 0 /\ c.wall = Greater(p, o.wall)
  BY <1>1, <1>4, <1>5, NowFacts
<1>7. c.wall >= p
  BY <1>1, <1>5, <1>6 DEF Greater
<1> HIDE DEF c
<1>8. Compare(o, t) >= 0 /\ Compare(o, r) >= 0
  BY <1>1, <1>4, CompareFacts
<1>9. Compare(c, t) > 0 /\ Compare(c, r) > 0
  BY <1>1, <1>4, <1>6, <1>8, CompareChain
<1>10. Moves(n, o) /\ Moves(n, c)
  BY <1>4, <1>5, <1>6, <1>7, <1>9 DEF Moves, t, p
<1>11. ClockAfter(n, m) = c \/ ClockAfter(n, m) = o
  BY DEF ClockAfter, c, o, p
<1> QED
  BY <1>4, <1>9, <1>10, <1>11 DEF o, r
---------------------------------------------------------------------------
(* The invariant. *)

\* Service.write is held by one pull at a time.
OneHolder ==
  \A n, p, q \in Node :
    pull[n][p].pc = "apply" /\ pull[n][q].pc = "apply" => p = q

\* No version anywhere has a counter that a clock could not go on from.
Roomy == \A m \in Known : m.ver.hlc.ctr + 2 < CounterMod

\* A clock that has ticked is at or past every version its node stores or is
\* about to store.
ClockCovers ==
  \A n \in Node :
    /\ last[n] = ZeroTime \/ \A m \in rows[n] : Compare(last[n], m.ver.hlc) >= 0
    /\ \A q \in Node : \A b \in pull[n][q].batch : Compare(last[n], b.ver.hlc) >= 0

\* The decision of resolve still stands when the batch is committed.
BatchNewer ==
  \A n, q \in Node : \A b \in pull[n][q].batch, a \in rows[n] :
    a.path = b.path => After(b.ver, a.ver)

\* VersionNeverRegresses is about a commit that installs what was decided some
\* steps before, so the invariant is about batches and clocks.
VersionInv == SafetyInv /\ OneHolder /\ Roomy /\ ClockCovers /\ BatchNewer

\* A clock that has ticked is at or past its node's writes wherever they are.
OwnCovered ==
  \A m \in Known :
    \/ last[m.ver.origin] = ZeroTime
    \/ Compare(last[m.ver.origin], m.ver.hlc) >= 0

\* VersionsIdentifyWrites, for entries on their way as well.
Identified ==
  \A a, b \in Known : a.path = b.path /\ a.ver = b.ver => Same(a, b)

\* The inductive invariant behind VersionsIdentifyWrites.
IdentityInv == TypeOK /\ Roomy /\ OwnCovered /\ Identified

---------------------------------------------------------------------------
(* Where the entries of the next state come from. *)

\* Membership in Known, now and after a step.
LEMMA KnownMember ==
  ASSUME NEW m
  PROVE  /\ m \in Known <=>
              \/ \E n \in Node : m \in rows[n]
              \/ \E n, q \in Node : m \in pull[n][q].page \cup pull[n][q].batch
         /\ m \in Known' <=>
              \/ \E n \in Node : m \in rows'[n]
              \/ \E n, q \in Node : m \in pull'[n][q].page \cup pull'[n][q].batch
  BY DEF Known

\* Everything known is an entry.
LEMMA KnownType ==
  ASSUME TypeOK
  PROVE  Known \subseteq Meta
<1> SUFFICES ASSUME NEW m \in Known PROVE m \in Meta
  OBVIOUS
<1>1. \A n, q \in Node : rows[n] \in SUBSET Meta /\ pull[n][q] \in Pull
  BY Parts
<1>2. \A r \in Pull : r.page \in SUBSET Meta /\ r.batch \in SUBSET Meta
  BY DEF Pull
<1> QED
  BY <1>1, <1>2, KnownMember

\* e is an entry known before the step.
Descends(e) == \E k \in Known : Same(e, k)

\* f is a write made in this step, stamped by a clock that moved for it.
Stamped(n, f) == f.ver = [hlc |-> last'[n], origin |-> n] /\ Moves(n, last'[n])

\* At most one write is made in a step; all else was known.
AtMostOneWrite ==
  \/ \A e \in Known' : Descends(e)
  \/ \E n \in Node, f \in Meta :
       Stamped(n, f) /\ \A e \in Known' : Descends(e) \/ Same(e, f)

\* Clocks stand, move forward, or are new.
ClocksMove ==
  \A n \in Node : last'[n] = last[n] \/ Moves(n, last'[n]) \/ last'[n] = ZeroTime

\* What was there is known.
LEMMA Stays ==
  ASSUME NEW n \in Node
  PROVE  /\ \A e \in rows[n] : Descends(e)
         /\ \A q \in Node : \A e \in pull[n][q].page \cup pull[n][q].batch : Descends(e)
  BY KnownMember DEF Descends, Same

\* A step after which everything is an old entry, or the one new write.
LEMMA NewWrite ==
  ASSUME NEW n \in Node, NEW f \in Meta, Stamped(n, f),
         \A i \in Node : \A e \in rows'[i] : Descends(e) \/ Same(e, f),
         \A i, j \in Node : \A e \in pull'[i][j].page \cup pull'[i][j].batch :
           Descends(e) \/ Same(e, f)
  PROVE  AtMostOneWrite
  BY KnownMember DEF AtMostOneWrite

\* A step after which everything is an old entry.
LEMMA NoNewWrite ==
  ASSUME \A i \in Node : \A e \in rows'[i] : Descends(e),
         \A i, j \in Node : \A e \in pull'[i][j].page \cup pull'[i][j].batch : Descends(e)
  PROVE  AtMostOneWrite
  BY KnownMember DEF AtMostOneWrite

\* A step of one pull that stores nothing.
LEMMA SetPullWrites ==
  ASSUME TypeOK, NEW n \in Node, NEW q \in Node, NEW r \in Pull,
         SetPull(n, q, r), rows' = rows,
         \/ \A e \in r.page \cup r.batch : Descends(e)
         \/ \E f \in Meta : /\ Stamped(n, f)
                            /\ \A e \in r.page \cup r.batch : Descends(e) \/ Same(e, f)
  PROVE  AtMostOneWrite
<1>1. /\ pull'[n][q] = r
      /\ \A i, j \in Node : i # n \/ j # q => pull'[i][j] = pull[i][j]
  BY SetPullType
<1>2. \A i \in Node : \A e \in rows'[i] : Descends(e)
  BY Stays
<1>3. \A i, j \in Node : \A e \in pull'[i][j].page \cup pull'[i][j].batch :
        Descends(e) \/ e \in r.page \cup r.batch
  BY <1>1, Stays
<1>4. CASE \A e \in r.page \cup r.batch : Descends(e)
  BY <1>2, <1>3, <1>4, NoNewWrite
<1>5. ASSUME NEW f \in Meta, Stamped(n, f),
             \A e \in r.page \cup r.batch : Descends(e) \/ Same(e, f)
      PROVE  AtMostOneWrite
  BY <1>2, <1>3, <1>5, NewWrite
<1> QED
  BY <1>4, <1>5

\* Same is an equivalence.
LEMMA SameFacts ==
  ASSUME NEW a, NEW b, NEW c
  PROVE  /\ Same(a, a) /\ (Same(a, b) => Same(b, a))
         /\ Same(a, b) /\ Same(b, c) => Same(a, c)
         /\ Same(a, b) /\ Descends(b) => Descends(a)
  BY DEF Same, Descends

\* A feed position is not part of the write.
LEMMA RestampSame ==
  ASSUME NEW m \in Meta, NEW s
  PROVE  Same([m EXCEPT !.seq = s], m)
<1> DEFINE r == [m EXCEPT !.seq = s]
<1>1. /\ r.path = m.path /\ r.kind = m.kind /\ r.hash = m.hash
      /\ r.prev = m.prev /\ r.attr = m.attr /\ r.ver = m.ver /\ r.deleted = m.deleted
  BY DEF Meta
<1> QED
  BY <1>1 DEF Same

\* What AppendRow and Upsert put into a table.
LEMMA AppendRowSame ==
  ASSUME NEW batch \in SUBSET Meta, NEW count \in Nat, NEW m \in Meta
  PROVE  \A b \in AppendRow(batch, count, m) : b \in batch \/ Same(b, m)
<1>1. Same([m EXCEPT !.seq = count + 1], m)
  BY RestampSame
<1> QED
  BY <1>1, AppendRowFacts

\* Store.Apply stores the writes of the batch and keeps or drops the others.
LEMMA UpsertSame ==
  ASSUME NEW table \in SUBSET Meta, NEW batch \in SUBSET Meta, NEW base \in Nat
  PROVE  \A a \in Upsert(table, batch, base) :
           a \in table \/ \E b \in batch : Same(a, b)
<1> SUFFICES ASSUME NEW a \in Upsert(table, batch, base), a \notin table
             PROVE  \E b \in batch : Same(a, b)
  OBVIOUS
<1>1. PICK b \in batch : a = [b EXCEPT !.seq = base + b.seq]
  BY DEF Upsert
<1> QED
  BY <1>1, RestampSame

---------------------------------------------------------------------------
(* One step at a time: who writes what, and which clocks move. *)

\* A step of a user, or an operation, writes one row stamped by the node's clock.
LEMMA UserWrites ==
  ASSUME TypeOK, NEW n \in Node,
         UserWrite(n) \/ \E seen \in Sights : Operation(n, seen)
  PROVE  \E m \in Meta : \E seen : m.ver = Stamp(n) /\ LocalWrite(n, m, seen)
<1>1. \E seen : Operation(n, seen)
  BY UserOperates
<1> QED
  BY <1>1, OperationRow

\* The effect of a local write on the variables that versions live in.
LEMMA LocalWriteEffect ==
  ASSUME TypeOK, NEW n \in Node, NEW m \in Meta, NEW seen, LocalWrite(n, m, seen)
  PROVE  /\ LockFree(n) /\ pull' = pull /\ last'[n] = m.ver.hlc
         /\ \A i \in Node : i # n => last'[i] = last[i] /\ rows'[i] = rows[i]
         /\ \/ rows'[n] = rows[n]
            \/ rows'[n] = Upsert(rows[n], AppendRow({}, 0, m), head[n])
  BY DEF LocalWrite, CommitLocal, TypeOK

\* A local write adds at most its own row, and its clock has moved.
LEMMA LocalWriteNew ==
  ASSUME TypeOK, CountersHaveRoom, NEW n \in Node, NEW m \in Meta, NEW seen,
         m.ver = Stamp(n), LocalWrite(n, m, seen)
  PROVE  AtMostOneWrite /\ ClocksMove
<1>1. /\ pull' = pull /\ last'[n] = m.ver.hlc
      /\ \A i \in Node : i # n => last'[i] = last[i] /\ rows'[i] = rows[i]
      /\ \/ rows'[n] = rows[n]
         \/ rows'[n] = Upsert(rows[n], AppendRow({}, 0, m), head[n])
  BY LocalWriteEffect
<1>2. Moves(n, last'[n]) /\ Stamp(n) \in Version /\ Stamp(n).origin = n
  BY <1>1, StampMoves
<1>3. Stamped(n, m)
  BY <1>1, <1>2 DEF Stamped, Stamp
<1>4. ASSUME NEW e \in rows'[n] PROVE Descends(e) \/ Same(e, m)
  <2>1. rows[n] \in SUBSET Meta /\ head[n] \in Nat
    BY Parts
  <2>2. /\ AppendRow({}, 0, m) \in SUBSET Meta
        /\ \A b \in AppendRow({}, 0, m) : Same(b, m)
    BY AppendRowFacts, AppendRowSame
  <2>3. e \in rows[n] \/ \E b \in AppendRow({}, 0, m) : Same(e, b)
    BY <1>1, <2>1, <2>2, UpsertSame
  <2> QED
    BY <2>2, <2>3, Stays, SameFacts
<1>5. \A i \in Node : \A e \in rows'[i] : Descends(e) \/ Same(e, m)
  BY <1>1, <1>4, Stays
<1>6. \A i, j \in Node : \A e \in pull'[i][j].page \cup pull'[i][j].batch :
        Descends(e) \/ Same(e, m)
  BY <1>1, Stays
<1>7. AtMostOneWrite
  BY <1>3, <1>5, <1>6, NewWrite
<1> QED
  BY <1>1, <1>2, <1>7 DEF ClocksMove

\* Steps of a pull that move no clock get entries from the peer, or lose some.
LEMMA FetchEffect ==
  ASSUME TypeOK, NEW n \in Node, NEW q \in Node,
         \/ FetchDigest(n, q) \/ CompareDigest(n, q) \/ FetchPage(n, q)
         \/ LockWrite(n, q) \/ RecordBookmark(n, q) \/ AbortPull(n, q)
  PROVE  /\ last' = last
         /\ \E r \in Pull : /\ SetPull(n, q, r) /\ rows' = rows
                           /\ r.page \subseteq pull[n][q].page \cup rows[q]
                           /\ r.batch \subseteq pull[n][q].batch
<1> DEFINE r == pull'[n][q]
<1>1. TypeOK' /\ pull \in [Node -> [Node -> Pull]] /\ rows' = rows /\ last' = last
  BY FetchType, FinishType DEF TypeOK, FetchDigest, CompareDigest, FetchPage,
     LockWrite, RecordBookmark, AbortPull, store
<1>2. r \in Pull /\ \A x : SetPull(n, q, x) => r = x
  BY <1>1 DEF TypeOK, SetPull
<1>3. SetPull(n, q, r)
  BY <1>1 DEF FetchDigest, CompareDigest, FetchPage, LockWrite, RecordBookmark,
     AbortPull, SetPull
<1> HIDE DEF r
<1>4. pull[n][q] \in Pull
  BY <1>1
<1>5. r.page \subseteq pull[n][q].page \cup rows[q] /\ r.batch \subseteq pull[n][q].batch
  <2>1. Idle.page = {} /\ Idle.batch = {}
    BY DEF Idle
  <2>2. CASE FetchDigest(n, q)
    BY <1>2, <2>2 DEF FetchDigest, Idle
  <2>3. CASE CompareDigest(n, q)
    BY <1>2, <2>1, <2>3 DEF CompareDigest, Idle
  <2>4. CASE FetchPage(n, q)
    <3> DEFINE page == ManifestPage(rows[q], pull[n][q].cursor, PageSize)
    <3>1. page \subseteq rows[q]
      BY DEF ManifestPage
    <3>2. r = Idle \/ (r.page = page /\ r.batch = {})
      BY <1>2, <1>4, <2>4 DEF FetchPage, Pull
    <3> QED
      BY <2>1, <3>1, <3>2
  <2>5. CASE LockWrite(n, q)
    BY <1>2, <1>4, <2>5 DEF LockWrite, Pull
  <2>6. CASE RecordBookmark(n, q)
    BY <1>2, <2>1, <2>6 DEF RecordBookmark, Idle
  <2>7. CASE AbortPull(n, q)
    BY <1>2, <2>1, <2>7 DEF AbortPull
  <2> QED
    BY <2>2, <2>3, <2>4, <2>5, <2>6, <2>7
<1> QED
  BY <1>1, <1>2, <1>3, <1>5

\* None of them makes a write.
LEMMA FetchNew ==
  ASSUME TypeOK, NEW n \in Node, NEW q \in Node,
         \/ FetchDigest(n, q) \/ CompareDigest(n, q) \/ FetchPage(n, q)
         \/ LockWrite(n, q) \/ RecordBookmark(n, q) \/ AbortPull(n, q)
  PROVE  AtMostOneWrite /\ ClocksMove
<1>1. last' = last
  BY FetchEffect
<1>2. PICK r \in Pull : /\ SetPull(n, q, r) /\ rows' = rows
                       /\ r.page \subseteq pull[n][q].page \cup rows[q]
                       /\ r.batch \subseteq pull[n][q].batch
  BY FetchEffect
<1>3. \A e \in r.page \cup r.batch : Descends(e)
  BY <1>2, Stays
<1> QED
  BY <1>1, <1>2, <1>3, SetPullWrites DEF ClocksMove

\* The conflict copy of the row that entry m replaces.
CopyFor(n, m) == conflictCopy(n, Get(rows[n], m.path), ClockAfter(n, m))

\* A conflict copy is an entry, made of the row of the path in dispute and
\* stamped with the clock as it is after the entry.
LEMMA CopyFacts ==
  ASSUME TypeOK, NEW n \in Node, NEW m \in Meta, Decision(n, m) = "conflict"
  PROVE  /\ Get(rows[n], m.path) \in rows[n] /\ Get(rows[n], m.path).path = m.path
         /\ CopyFor(n, m) \in Meta
         /\ CopyFor(n, m).ver = [hlc |-> ClockAfter(n, m), origin |-> n]
         /\ CopyFor(n, m).kind = Get(rows[n], m.path).kind
         /\ CopyFor(n, m).hash = Get(rows[n], m.path).hash
         /\ CopyFor(n, m).deleted = Get(rows[n], m.path).deleted
<1> DEFINE local == Get(rows[n], m.path)
<1>1. local \in rows[n] /\ local.path = m.path
  BY ConflictHasLocal, GetFacts
<1>2. local \in Meta
  BY <1>1, Parts
<1> HIDE DEF local
<1>3. conflictCopy(n, local, ClockAfter(n, m)) \in Meta
  BY <1>2, ObservedType
<1>4. /\ conflictCopy(n, local, ClockAfter(n, m)).ver = [hlc |-> ClockAfter(n, m), origin |-> n]
      /\ conflictCopy(n, local, ClockAfter(n, m)).kind = local.kind
      /\ conflictCopy(n, local, ClockAfter(n, m)).hash = local.hash
      /\ conflictCopy(n, local, ClockAfter(n, m)).deleted = local.deleted
  BY <1>2 DEF conflictCopy, Meta
<1> QED
  BY <1>1, <1>3, <1>4 DEF CopyFor, local

\* b is in the batch because entry m was applied.
Prepared(n, m, b) ==
  /\ ~Refused(n, m) /\ Decision(n, m) # "skip" /\ last'[n] = ClockAfter(n, m)
  /\ Same(b, m) \/ (Decision(n, m) = "conflict" /\ Same(b, CopyFor(n, m)))

\* The batch with the conflict copy, if one is made.
LEMMA WithCopyBatch ==
  ASSUME TypeOK, NEW n \in Node, NEW m \in Meta, NEW r \in Pull
  PROVE  /\ WithCopy(n, r, m) \in Pull
         /\ WithCopy(n, r, m).pc = r.pc /\ WithCopy(n, r, m).page = r.page
         /\ \A b \in WithCopy(n, r, m).batch :
              b \in r.batch \/ (Decision(n, m) = "conflict" /\ Same(b, CopyFor(n, m)))
<1>1. CASE Decision(n, m) = "conflict"
  <2>1. CopyFor(n, m) \in Meta /\ WithCopy(n, r, m) = AddRow(r, CopyFor(n, m))
    BY <1>1, CopyFacts DEF WithCopy, CopyFor
  <2>2. r.batch \in SUBSET Meta /\ r.count \in Nat
    BY DEF Pull
  <2>3. WithCopy(n, r, m).batch = AppendRow(r.batch, r.count, CopyFor(n, m))
    BY <2>1, AddRowFacts
  <2>4. WithCopy(n, r, m).page = r.page
    BY <2>1 DEF AddRow, Pull
  <2> QED
    BY <1>1, <2>1, <2>2, <2>3, <2>4, AddRowFacts, AppendRowSame
<1>2. CASE Decision(n, m) # "conflict"
  BY <1>2 DEF WithCopy
<1> QED
  BY <1>1, <1>2

\* applyRemote's loop takes one entry off the page, and may move the clock and
\* add to the batch; the store stays as it is.
LEMMA ApplyEffect ==
  ASSUME TypeOK, NEW n \in Node, NEW q \in Node, ApplyEntry(n, q)
  PROVE  \E m \in pull[n][q].page, r \in Pull :
           /\ m \in Meta /\ pull[n][q].pc = "apply"
           /\ SetPull(n, q, r) /\ r.pc = "apply" /\ rows' = rows
           /\ r.page = pull[n][q].page \ {m}
           /\ last'[n] \in {last[n], Observed(n, m), ClockAfter(n, m)}
           /\ \A i \in Node : i # n => last'[i] = last[i]
           /\ \A b \in r.batch : b \in pull[n][q].batch \/ Prepared(n, m, b)
<1> DEFINE r0 == pull[n][q]
<1>1. r0 \in Pull /\ r0.page \in SUBSET Meta /\ last \in [Node -> Timestamp]
  BY Parts DEF Pull, TypeOK
<1>2. PICK m \in r0.page : \/ RejectEntry(n, q, m) \/ SkipEntry(n, q, m)
                           \/ TakeEntry(n, q, m) \/ DeferEntry(n, q, m)
  BY DEF ApplyEntry
<1>3. m \in Meta /\ r0.pc = "apply" /\ rows' = rows
  BY <1>1, <1>2 DEF RejectEntry, SkipEntry, TakeEntry, DeferEntry, Admitted,
                    NextEntry, store
<1> DEFINE w == WithCopy(n, r0, m)
<1>4. /\ w \in Pull /\ w.pc = "apply" /\ w.page = r0.page
      /\ \A b \in w.batch :
           b \in r0.batch \/ (Decision(n, m) = "conflict" /\ Same(b, CopyFor(n, m)))
  BY <1>1, <1>3, WithCopyBatch
<1>5. ASSUME NEW x \in Pull
      PROVE  Advance(x, m).page = x.page \ {m}
             /\ [Past(x, m) EXCEPT !.deferred = TRUE].page = x.page \ {m}
  BY <1>3 DEF Advance, Past, Pull
<1>6. CASE RejectEntry(n, q, m) \/ SkipEntry(n, q, m)
  <2> DEFINE r == Advance(r0, m)
  <2>1. r \in Pull /\ r.pc = "apply" /\ r.batch = r0.batch /\ r.page = r0.page \ {m}
    BY <1>1, <1>3, <1>5, AdvanceFacts
  <2>2. SetPull(n, q, r)
    BY <1>6 DEF RejectEntry, SkipEntry
  <2>3. /\ last'[n] \in {last[n], Observed(n, m)}
        /\ \A i \in Node : i # n => last'[i] = last[i]
    BY <1>1, <1>6 DEF RejectEntry, SkipEntry
  <2> HIDE DEF r
  <2> QED
    BY <1>3, <2>1, <2>2, <2>3
<1>7. CASE TakeEntry(n, q, m)
  <2> DEFINE r == Advance(AddRow(w, m), m)
  <2>1. /\ SetPull(n, q, r) /\ Decision(n, m) # "skip" /\ ~Refused(n, m)
        /\ last' = [last EXCEPT ![n] = ClockAfter(n, m)]
    BY <1>7 DEF TakeEntry, Admitted
  <2>2. /\ last'[n] = ClockAfter(n, m)
        /\ \A i \in Node : i # n => last'[i] = last[i]
    BY <1>1, <2>1
  <2> HIDE DEF w
  <2>3. w.batch \in SUBSET Meta /\ w.count \in Nat
    BY <1>4 DEF Pull
  <2>4. /\ AddRow(w, m) \in Pull /\ AddRow(w, m).pc = "apply"
        /\ AddRow(w, m).batch = AppendRow(w.batch, w.count, m)
    BY <1>3, <1>4, AddRowFacts
  <2>5. AddRow(w, m).page = w.page
    BY <1>4 DEF AddRow, Pull
  <2>6. /\ r \in Pull /\ r.pc = "apply" /\ r.page = r0.page \ {m}
        /\ r.batch = AppendRow(w.batch, w.count, m)
    BY <1>3, <1>4, <1>5, <2>4, <2>5, AdvanceFacts
  <2>7. \A b \in r.batch : b \in w.batch \/ Same(b, m)
    BY <1>3, <2>3, <2>6, AppendRowSame
  <2>8. \A b \in r.batch : b \in r0.batch \/ Prepared(n, m, b)
    BY <1>4, <2>1, <2>2, <2>7 DEF Prepared
  <2> HIDE DEF r
  <2> QED
    BY <1>3, <2>1, <2>2, <2>6, <2>8
<1>8. CASE DeferEntry(n, q, m)
  <2> DEFINE r == [Past(w, m) EXCEPT !.deferred = TRUE]
  <2>1. /\ SetPull(n, q, r) /\ Decision(n, m) # "skip" /\ ~Refused(n, m)
        /\ last' = [last EXCEPT ![n] = ClockAfter(n, m)]
    BY <1>8 DEF DeferEntry, Admitted
  <2>2. /\ last'[n] = ClockAfter(n, m)
        /\ \A i \in Node : i # n => last'[i] = last[i]
    BY <1>1, <2>1
  <2> HIDE DEF w
  <2>3. r \in Pull /\ r.pc = "apply" /\ r.page = r0.page \ {m} /\ r.batch = w.batch
    BY <1>3, <1>4, <1>5, AdvanceFacts
  <2>4. \A b \in r.batch : b \in r0.batch \/ Prepared(n, m, b)
    BY <1>4, <2>1, <2>2, <2>3 DEF Prepared
  <2> HIDE DEF r
  <2> QED
    BY <1>3, <2>1, <2>2, <2>3, <2>4
<1> QED
  BY <1>2, <1>6, <1>7, <1>8

\* The clock after an entry of a page.
LEMMA ApplyMoves ==
  ASSUME TypeOK, CountersHaveRoom, Roomy, NEW n \in Node, NEW q \in Node,
         NEW m \in pull[n][q].page
  PROVE  /\ Moves(n, Observed(n, m)) /\ Compare(Observed(n, m), m.ver.hlc) > 0
         /\ Moves(n, ClockAfter(n, m)) /\ Compare(ClockAfter(n, m), m.ver.hlc) > 0
<1>1. m \in Known /\ m \in Meta
  BY KnownMember, KnownType
<1> QED
  BY <1>1, ObserveMoves DEF Roomy

\* Applying an entry makes at most one write: the conflict copy.
LEMMA ApplyNew ==
  ASSUME TypeOK, CountersHaveRoom, Roomy, NEW n \in Node, NEW q \in Node,
         ApplyEntry(n, q)
  PROVE  AtMostOneWrite /\ ClocksMove
<1>1. PICK m \in pull[n][q].page, r \in Pull :
           /\ m \in Meta
           /\ SetPull(n, q, r) /\ rows' = rows
           /\ r.page = pull[n][q].page \ {m}
           /\ last'[n] \in {last[n], Observed(n, m), ClockAfter(n, m)}
           /\ \A i \in Node : i # n => last'[i] = last[i]
           /\ \A b \in r.batch : b \in pull[n][q].batch \/ Prepared(n, m, b)
  BY ApplyEffect
<1>2. Moves(n, Observed(n, m)) /\ Moves(n, ClockAfter(n, m))
  BY ApplyMoves
<1>3. ClocksMove
  BY <1>1, <1>2 DEF ClocksMove
<1>4. Descends(m)
  BY Stays
<1>5. \A e \in r.page : Descends(e)
  BY <1>1, Stays
<1>6. CASE Decision(n, m) = "conflict" /\ last'[n] = ClockAfter(n, m)
  <2>1. CopyFor(n, m) \in Meta /\ Stamped(n, CopyFor(n, m))
    BY <1>1, <1>2, <1>6, CopyFacts DEF Stamped
  <2>2. \A e \in r.batch : Descends(e) \/ Same(e, CopyFor(n, m))
    BY <1>1, <1>4, Stays, SameFacts DEF Prepared
  <2> QED
    BY <1>1, <1>3, <1>5, <2>1, <2>2, SetPullWrites
<1>7. CASE ~(Decision(n, m) = "conflict" /\ last'[n] = ClockAfter(n, m))
  <2>1. \A e \in r.batch : Descends(e)
    BY <1>1, <1>4, <1>7, Stays, SameFacts DEF Prepared
  <2> QED
    BY <1>1, <1>3, <1>5, <2>1, SetPullWrites
<1> QED
  BY <1>6, <1>7

\* Committing a page stores what was prepared and makes no write.
LEMMA CommitNew ==
  ASSUME TypeOK, NEW n \in Node, NEW q \in Node, CommitPage(n, q)
  PROVE  AtMostOneWrite /\ ClocksMove
<1> DEFINE r0 == pull[n][q]
           r == [r0 EXCEPT !.pc = "mark", !.batch = {}, !.count = 0]
<1>1. /\ r0 \in Pull /\ rows[n] \in SUBSET Meta /\ head[n] \in Nat
      /\ rows \in [Node -> SUBSET Meta]
  BY Parts DEF TypeOK
<1>2. r \in Pull /\ r.page = r0.page /\ r.batch = {} /\ r0.batch \in SUBSET Meta
  BY <1>1 DEF Pull
<1>3. SetPull(n, q, r) /\ last' = last
  BY DEF CommitPage
<1>4. /\ rows'[n] = Upsert(rows[n], r0.batch, head[n])
      /\ \A i \in Node : i # n => rows'[i] = rows[i]
  BY <1>1 DEF CommitPage
<1> HIDE DEF r
<1>5. /\ pull'[n][q] = r
      /\ \A i, j \in Node : i # n \/ j # q => pull'[i][j] = pull[i][j]
  BY <1>2, <1>3, SetPullType
<1>6. \A e \in rows'[n] : e \in rows[n] \/ \E b \in r0.batch : Same(e, b)
  BY <1>1, <1>2, <1>4, UpsertSame
<1>7. \A e \in rows'[n] : Descends(e)
  BY <1>6, Stays, SameFacts
<1>8. \A i \in Node : \A e \in rows'[i] : Descends(e)
  BY <1>4, <1>7, Stays
<1>9. \A i, j \in Node : \A e \in pull'[i][j].page \cup pull'[i][j].batch : Descends(e)
  BY <1>2, <1>5, Stays
<1> QED
  BY <1>3, <1>8, <1>9, NoNewWrite DEF ClocksMove

\* What happens to whole nodes makes no entries.
LEMMA NodeNew ==
  ASSUME TypeOK, NEW n \in Node, Collect(n) \/ Restart(n) \/ Wipe(n)
  PROVE  AtMostOneWrite /\ ClocksMove
<1>1. /\ rows \in [Node -> SUBSET Meta] /\ last \in [Node -> Timestamp]
      /\ pull \in [Node -> [Node -> Pull]]
  BY DEF TypeOK
<1>2. \A i \in Node : rows'[i] \subseteq rows[i]
  BY <1>1 DEF Collect, Restart, Wipe, store
<1>3. \A i, j \in Node : pull'[i][j] = pull[i][j] \/ pull'[i][j] = Idle
  BY <1>1 DEF Collect, Restart, Wipe
<1>4. \A i \in Node : last'[i] = last[i] \/ last'[i] = ZeroTime
  BY <1>1 DEF Collect, Restart, Wipe
<1>5. Idle.page = {} /\ Idle.batch = {}
  BY DEF Idle
<1>6. \A i \in Node : \A e \in rows'[i] : Descends(e)
  BY <1>2, Stays
<1>7. \A i, j \in Node : \A e \in pull'[i][j].page \cup pull'[i][j].batch : Descends(e)
  BY <1>3, <1>5, Stays
<1> QED
  BY <1>4, <1>6, <1>7, NoNewWrite DEF ClocksMove

\* Every step.
LEMMA StepNew ==
  ASSUME TypeOK, CountersHaveRoom, Roomy, Step
  PROVE  AtMostOneWrite /\ ClocksMove
<1>1. CASE UNCHANGED <<rows, last, pull>>
  <2>1. Known' = Known
    BY <1>1 DEF Known
  <2> QED
    BY <1>1, <2>1, SameFacts DEF AtMostOneWrite, ClocksMove, Descends
<1>2. ASSUME NEW n \in Writer, UserWrite(n) PROVE AtMostOneWrite /\ ClocksMove
  <2>1. n \in Node
    BY ReplicationAssumption
  <2> QED
    BY <1>2, <2>1, UserWrites, LocalWriteNew
<1>3. ASSUME NEW n \in Node, NEW q \in Peers(n),
             PullStep(n, q) \/ LockWrite(n, q) \/ AbortPull(n, q)
      PROVE  AtMostOneWrite /\ ClocksMove
  <2>1. q \in Node
    BY DEF Peers
  <2> QED
    BY <1>3, <2>1, FetchNew, ApplyNew, CommitNew DEF PullStep
<1>4. ASSUME NEW n \in Node, Collect(n) \/ Restart(n) \/ Wipe(n)
      PROVE  AtMostOneWrite /\ ClocksMove
  BY <1>4, NodeNew
<1>5. ASSUME NEW n \in Node, NEW seen \in Sights, Operation(n, seen)
      PROVE  AtMostOneWrite /\ ClocksMove
  BY <1>5, UserWrites, LocalWriteNew
<1> QED
  BY <1>1, <1>2, <1>3, <1>4, <1>5 DEF Next, Step, Tick, store, vars

---------------------------------------------------------------------------
(* A version names one write. *)

\* The room that counters have, every entry has.
LEMMA RoomyStep ==
  ASSUME TypeOK, Roomy, AtMostOneWrite, CountersHaveRoom'
  PROVE  Roomy'
<1> SUFFICES ASSUME NEW e \in Known' PROVE e.ver.hlc.ctr + 2 < CounterMod
  BY DEF Roomy
<1>1. CASE Descends(e)
  BY <1>1 DEF Descends, Same, Roomy
<1>2. ASSUME NEW n \in Node, NEW f \in Meta, Stamped(n, f), Same(e, f)
      PROVE  e.ver.hlc.ctr + 2 < CounterMod
  <2>1. e.ver.hlc = last'[n]
    BY <1>2 DEF Same, Stamped
  <2> QED
    BY <2>1 DEF CountersHaveRoom
<1> QED
  BY <1>1, <1>2 DEF AtMostOneWrite

\* A clock that moves is past everything its node wrote.
LEMMA MovePastOwn ==
  ASSUME TypeOK, OwnCovered, FreshAheadOfOwn, NEW k \in Known, NEW t,
         Moves(k.ver.origin, t)
  PROVE  Compare(t, k.ver.hlc) > 0
<1> DEFINE o == k.ver.origin
<1>1. k \in Meta
  BY KnownType
<1>2. o \in Node /\ k.ver.hlc \in Timestamp /\ k.ver.hlc.wall \in Nat
  BY <1>1, VersionParts
<1>3. last[o] \in Timestamp /\ physical(o) \in Nat
  BY <1>2, Parts
<1>4. t \in Timestamp /\ t.wall \in Nat /\ t.wall >= physical(o) /\ Compare(t, last[o]) > 0
  BY DEF Moves, Timestamp
<1>5. CASE last[o] = ZeroTime
  <2>1. k.ver.hlc.wall < physical(o)
    BY <1>2, <1>5 DEF FreshAheadOfOwn
  <2>2. k.ver.hlc.wall < t.wall
    BY <1>2, <1>3, <1>4, <2>1
  <2> QED
    BY <1>2, <1>4, <2>2, WallIsLater
<1>6. CASE Compare(last[o], k.ver.hlc) >= 0
  BY <1>2, <1>3, <1>4, <1>6, CompareChain
<1> QED
  BY <1>5, <1>6 DEF OwnCovered

\* A clock stays at or past its node's writes, or is new.
LEMMA OwnCoveredStep ==
  ASSUME TypeOK, OwnCovered, FreshAheadOfOwn, AtMostOneWrite, ClocksMove, TypeOK'
  PROVE  OwnCovered'
<1> SUFFICES ASSUME NEW e \in Known'
             PROVE  \/ last'[e.ver.origin] = ZeroTime
                    \/ Compare(last'[e.ver.origin], e.ver.hlc) >= 0
  BY DEF OwnCovered
<1>1. ASSUME NEW k \in Known, Same(e, k)
      PROVE  \/ last'[e.ver.origin] = ZeroTime
             \/ Compare(last'[e.ver.origin], e.ver.hlc) >= 0
  <2>1. e.ver = k.ver /\ k.ver.origin \in Node /\ k.ver.hlc \in Timestamp
    BY <1>1, KnownType, VersionParts DEF Same
  <2>2. CASE last'[k.ver.origin] = last[k.ver.origin]
    BY <2>1, <2>2 DEF OwnCovered
  <2>3. CASE Moves(k.ver.origin, last'[k.ver.origin])
    <3>1. Compare(last'[k.ver.origin], k.ver.hlc) > 0
      BY <2>3, MovePastOwn
    <3>2. last'[k.ver.origin] \in Timestamp
      BY <2>3 DEF Moves
    <3> QED
      BY <2>1, <3>1, <3>2, CompareFacts
  <2> QED
    BY <2>1, <2>2, <2>3 DEF ClocksMove
<1>2. ASSUME NEW n \in Node, NEW f \in Meta, Stamped(n, f), Same(e, f)
      PROVE  Compare(last'[e.ver.origin], e.ver.hlc) >= 0
  <2>1. e.ver.origin = n /\ e.ver.hlc = last'[n] /\ last'[n] \in Timestamp
    BY <1>2 DEF Same, Stamped, Moves
  <2> QED
    BY <2>1, CompareFacts
<1> QED
  BY <1>1, <1>2 DEF AtMostOneWrite, Descends

\* A write that a step makes has a version nothing known has.
LEMMA IdentifiedStep ==
  ASSUME IdentityInv, FreshAheadOfOwn, AtMostOneWrite
  PROVE  Identified'
<1> SUFFICES ASSUME NEW a \in Known', NEW b \in Known',
                    a.path = b.path, a.ver = b.ver
             PROVE  Same(a, b)
  BY DEF Identified
<1>1. CASE Descends(a) /\ Descends(b)
  <2>1. PICK k \in Known, l \in Known : Same(a, k) /\ Same(b, l)
    BY <1>1 DEF Descends
  <2>2. k.path = l.path /\ k.ver = l.ver
    BY <2>1 DEF Same
  <2>3. Same(k, l)
    BY <2>2 DEF IdentityInv, Identified
  <2> QED
    BY <2>1, <2>3 DEF Same
<1>2. ASSUME NEW n \in Node, NEW f \in Meta, Stamped(n, f),
             NEW c \in Known', NEW d \in Known', Descends(c), Same(d, f),
             c.ver = d.ver
      PROVE  FALSE
  <2>1. PICK k \in Known : Same(c, k)
    BY <1>2 DEF Descends
  <2>2. k.ver.origin = n /\ k.ver.hlc = last'[n] /\ Moves(n, last'[n])
    BY <1>2, <2>1 DEF Same, Stamped
  <2>3. Compare(last'[n], k.ver.hlc) > 0
    BY <2>2, MovePastOwn DEF IdentityInv
  <2>4. last'[n] \in Timestamp
    BY <2>2 DEF Moves
  <2> QED
    BY <2>2, <2>3, <2>4, CompareFacts
<1>3. ASSUME NEW n \in Node, NEW f \in Meta, Stamped(n, f),
             \A e \in Known' : Descends(e) \/ Same(e, f)
      PROVE  Same(a, b)
  <2>1. CASE Same(a, f) /\ Same(b, f)
    BY <2>1 DEF Same
  <2>2. CASE Descends(a) /\ Same(b, f)
    BY <1>2, <1>3, <2>2
  <2>3. CASE Same(a, f) /\ Descends(b)
    BY <1>2, <1>3, <2>3
  <2> QED
    BY <1>1, <1>3, <2>1, <2>2, <2>3
<1> QED
  BY <1>1, <1>3 DEF AtMostOneWrite

\* Nothing is known at first.
LEMMA IdentityInit == Init => IdentityInv
<1> SUFFICES ASSUME Init PROVE IdentityInv
  OBVIOUS
<1>1. Idle.page = {} /\ Idle.batch = {}
  BY DEF Idle
<1>2. Known = {}
  BY <1>1, KnownMember DEF Init
<1> QED
  BY <1>2, TypeInit DEF IdentityInv, Roomy, OwnCovered, Identified

\* Every step keeps versions the names of writes.
LEMMA IdentityStep ==
  ASSUME IdentityInv, CountersHaveRoom, CountersHaveRoom', FreshAheadOfOwn,
         Step
  PROVE  IdentityInv'
<1>1. TypeOK' /\ AtMostOneWrite /\ ClocksMove
  BY TypeStep, StepNew DEF IdentityInv
<1> QED
  BY <1>1, RoomyStep, OwnCoveredStep, IdentifiedStep DEF IdentityInv

\* Two rows agree in the replicated fields exactly when their digests do.
LEMMA DigestSame ==
  ASSUME NEW a, NEW b, Same(a, b)
  PROVE  Digest({a}) = Digest({b})
  BY DEF Digest, Same

\* The invariant is about more than the stores.
LEMMA IdentityGives == IdentityInv => VersionsIdentifyWrites
<1> SUFFICES ASSUME IdentityInv, NEW n \in Node, NEW q \in Node,
                    NEW a \in rows[n], NEW b \in rows[q],
                    a.path = b.path, Equal(a.ver, b.ver)
             PROVE  Digest({a}) = Digest({b})
  BY DEF VersionsIdentifyWrites
<1>1. a \in Known /\ b \in Known
  BY KnownMember
<1>2. a.ver \in Version /\ b.ver \in Version
  BY <1>1, KnownType, VersionParts DEF IdentityInv
<1>3. a.ver = b.ver
  BY <1>2, VersionOrder
<1> QED
  BY <1>1, <1>3, DigestSame DEF IdentityInv, Identified

\* A version of a path names one write in the whole cluster, so that resolve may
\* skip an equal version unseen: as long as no counter wraps and no process
\* starts with a clock behind its own earlier writes.
THEOREM ReplicationVersionsIdentifyWrites ==
  Spec /\ [](CountersHaveRoom /\ FreshAheadOfOwn) => []VersionsIdentifyWrites
<1>1. /\ IdentityInv /\ [Next]_vars
      /\ (CountersHaveRoom /\ FreshAheadOfOwn)
      /\ (CountersHaveRoom /\ FreshAheadOfOwn)'
      => IdentityInv'
  BY IdentityStep DEF Step
<1> QED
  BY <1>1, IdentityInit, IdentityGives, PTL DEF Spec

---------------------------------------------------------------------------
(* Last writer wins. *)

\* A clock that moves is past everything its node stores or is about to store.
LEMMA MovePastStore ==
  ASSUME TypeOK, ClockCovers, FreshAheadOfStore, NEW n \in Node, NEW t, Moves(n, t)
  PROVE  /\ \A m \in rows[n] : Compare(t, m.ver.hlc) > 0
         /\ \A q \in Node : \A b \in pull[n][q].batch : Compare(t, b.ver.hlc) > 0
<1>1. /\ last[n] \in Timestamp /\ physical(n) \in Nat
      /\ t \in Timestamp /\ t.wall \in Nat /\ t.wall >= physical(n)
      /\ Compare(t, last[n]) > 0
  BY Parts DEF Moves, Timestamp
<1>2. ASSUME NEW m \in Meta, Compare(last[n], m.ver.hlc) >= 0
      PROVE  Compare(t, m.ver.hlc) > 0
  BY <1>1, <1>2, VersionParts, CompareChain
<1>3. ASSUME NEW m \in rows[n] PROVE Compare(t, m.ver.hlc) > 0
  <2>1. m \in Meta
    BY Parts
  <2>2. m.ver.hlc \in Timestamp /\ m.ver.hlc.wall \in Nat
    BY <2>1, VersionParts
  <2>3. CASE last[n] = ZeroTime
    <3>1. m.ver.hlc.wall < t.wall
      BY <1>1, <2>2, <2>3 DEF FreshAheadOfStore
    <3> QED
      BY <1>1, <2>2, <3>1, WallIsLater
  <2>4. CASE Compare(last[n], m.ver.hlc) >= 0
    BY <1>2, <2>1, <2>4
  <2> QED
    BY <2>3, <2>4 DEF ClockCovers
<1>4. ASSUME NEW q \in Node, NEW b \in pull[n][q].batch
      PROVE  Compare(t, b.ver.hlc) > 0
  <2>1. b \in Meta
    BY Parts DEF Pull
  <2> QED
    BY <1>2, <2>1 DEF ClockCovers
<1> QED
  BY <1>3, <1>4

\* A write that is later than all of a store replaces only earlier writes.
LEMMA LaterThanStore ==
  ASSUME TypeOK, NEW n \in Node, NEW v \in Version,
         \A a \in rows[n] : Compare(v.hlc, a.ver.hlc) > 0
  PROVE  \A a \in rows[n] : After(v, a.ver)
<1> SUFFICES ASSUME NEW a \in rows[n] PROVE After(v, a.ver)
  OBVIOUS
<1>1. a.ver \in Version
  BY Parts, VersionParts
<1> QED
  BY <1>1, LaterIsAfter

\* A pull may go on with r: its batch is covered by the clock t and by resolve.
BatchStands(n, r, t) ==
  \A b \in r.batch : /\ Compare(t, b.ver.hlc) >= 0
                     /\ \A a \in rows[n] : a.path = b.path => After(b.ver, a.ver)

\* A step of one pull that stores nothing.
LEMMA SetPullVersions ==
  ASSUME VersionInv, FreshAheadOfStore, NEW n \in Node, NEW q \in Node, NEW r \in Pull,
         SetPull(n, q, r), rows' = rows,
         last'[n] = last[n] \/ Moves(n, last'[n]),
         \A i \in Node : i # n => last'[i] = last[i],
         r.pc = "apply" => pull[n][q].pc = "apply" \/ LockFree(n),
         BatchStands(n, r, last'[n])
  PROVE  OneHolder' /\ ClockCovers' /\ BatchNewer'
<1>1. /\ TypeOK /\ pull'[n][q] = r
      /\ \A i, j \in Node : i # n \/ j # q => pull'[i][j] = pull[i][j]
  BY SetPullType DEF VersionInv, SafetyInv
<1>2. OneHolder'
  BY <1>1 DEF VersionInv, OneHolder, LockFree
<1>3. BatchNewer'
  BY <1>1 DEF VersionInv, BatchNewer, BatchStands
<1>4. /\ last'[n] = ZeroTime \/ \A m \in rows'[n] : Compare(last'[n], m.ver.hlc) >= 0
      /\ \A j \in Node : \A b \in pull'[n][j].batch : Compare(last'[n], b.ver.hlc) >= 0
  <2>1. CASE last'[n] = last[n]
    BY <1>1, <2>1 DEF VersionInv, ClockCovers, BatchStands
  <2>2. CASE Moves(n, last'[n])
    <3>1. /\ \A m \in rows[n] : Compare(last'[n], m.ver.hlc) > 0
          /\ \A j \in Node : \A b \in pull[n][j].batch : Compare(last'[n], b.ver.hlc) > 0
      BY <1>1, <2>2, MovePastStore DEF VersionInv
    <3>2. \A o \in Timestamp : Compare(last'[n], o) > 0 => Compare(last'[n], o) >= 0
      BY <2>2, CompareFacts DEF Moves
    <3>3. rows[n] \subseteq Meta /\ \A j \in Node : pull[n][j].batch \subseteq Meta
      BY <1>1, Parts DEF Pull
    <3>4. \A m \in Meta : m.ver.hlc \in Timestamp
      BY VersionParts
    <3> QED
      BY <1>1, <3>1, <3>2, <3>3, <3>4 DEF BatchStands
  <2> QED
    BY <2>1, <2>2
<1>5. ASSUME NEW i \in Node, i # n
      PROVE  /\ last'[i] = ZeroTime \/ \A m \in rows'[i] : Compare(last'[i], m.ver.hlc) >= 0
             /\ \A j \in Node : \A b \in pull'[i][j].batch : Compare(last'[i], b.ver.hlc) >= 0
  BY <1>1, <1>5 DEF VersionInv, ClockCovers
<1> QED
  BY <1>2, <1>3, <1>4, <1>5 DEF ClockCovers

\* Outside applyRemote a pull has no batch, and it enters when nobody is inside.
LEMMA FetchBatch ==
  ASSUME SafetyInv, NEW n \in Node, NEW q \in Node,
         \/ FetchDigest(n, q) \/ CompareDigest(n, q) \/ FetchPage(n, q)
         \/ LockWrite(n, q) \/ RecordBookmark(n, q) \/ AbortPull(n, q)
  PROVE  \E r \in Pull : /\ SetPull(n, q, r) /\ rows' = rows /\ last' = last
                         /\ r.batch = {} /\ (r.pc = "apply" => LockFree(n))
<1> DEFINE r == pull'[n][q]
<1>1. /\ TypeOK /\ TypeOK' /\ pull \in [Node -> [Node -> Pull]]
      /\ rows' = rows /\ last' = last
  BY FetchType, FinishType DEF SafetyInv, TypeOK, FetchDigest,
     CompareDigest, FetchPage, LockWrite, RecordBookmark, AbortPull, store
<1>2. r \in Pull /\ \A x : SetPull(n, q, x) => r = x
  BY <1>1 DEF TypeOK, SetPull
<1>3. SetPull(n, q, r)
  BY <1>1 DEF FetchDigest, CompareDigest, FetchPage, LockWrite, RecordBookmark,
     AbortPull, SetPull
<1> HIDE DEF r
<1>4. pull[n][q] \in Pull
  BY <1>1
<1>5. r.batch = {} /\ (r.pc = "apply" => LockFree(n))
  <2>1. Idle.pc # "apply" /\ Idle.batch = {}
    BY DEF Idle
  <2>2. CASE FetchDigest(n, q)
    BY <1>2, <2>2 DEF FetchDigest, Idle
  <2>3. CASE CompareDigest(n, q)
    BY <1>2, <2>1, <2>3 DEF CompareDigest, Idle
  <2>4. CASE FetchPage(n, q)
    <3>1. r = Idle \/ (r.pc = "page" /\ r.batch = {})
      BY <1>2, <1>4, <2>4 DEF FetchPage, Pull
    <3> QED
      BY <2>1, <3>1
  <2>5. CASE LockWrite(n, q)
    <3>1. pull[n][q].batch = {} /\ LockFree(n)
      BY <2>5 DEF LockWrite, SafetyInv, PullsOK, BatchOK
    <3> QED
      BY <1>2, <1>4, <2>5, <3>1 DEF LockWrite, Pull
  <2>6. CASE RecordBookmark(n, q)
    <3> DEFINE walk(c, b) == [Idle EXCEPT !.pc = "walk", !.cursor = c, !.bookmark = b]
    <3>1. \A c, b : walk(c, b).pc # "apply" /\ walk(c, b).batch = {}
      BY DEF Idle
    <3>2. r = Idle \/ \E c, b : r = walk(c, b)
      BY <1>2, <2>6 DEF RecordBookmark
    <3> HIDE DEF walk
    <3> QED
      BY <2>1, <3>1, <3>2
  <2>7. CASE AbortPull(n, q)
    BY <1>2, <2>1, <2>7 DEF AbortPull
  <2> QED
    BY <2>2, <2>3, <2>4, <2>5, <2>6, <2>7
<1> QED
  BY <1>1, <1>2, <1>3, <1>5

\* The steps of a pull outside applyRemote.
LEMMA FetchVersions ==
  ASSUME VersionInv, FreshAheadOfStore, NEW n \in Node, NEW q \in Node,
         \/ FetchDigest(n, q) \/ CompareDigest(n, q) \/ FetchPage(n, q)
         \/ LockWrite(n, q) \/ RecordBookmark(n, q) \/ AbortPull(n, q)
  PROVE  OneHolder' /\ ClockCovers' /\ BatchNewer' /\ rows' = rows
<1>1. PICK r \in Pull : /\ SetPull(n, q, r) /\ rows' = rows /\ last' = last
                       /\ r.batch = {} /\ (r.pc = "apply" => LockFree(n))
  BY FetchBatch DEF VersionInv
<1>2. BatchStands(n, r, last'[n])
  BY <1>1 DEF BatchStands
<1> QED
  BY <1>1, <1>2, SetPullVersions

\* resolve lets a remote entry replace only an earlier row.
LEMMA DecisionNewer ==
  ASSUME SafetyInv, NEW n \in Node, NEW m \in Meta, Decision(n, m) # "skip",
         NEW a \in rows[n], a.path = m.path
  PROVE  After(m.ver, a.ver)
<1> DEFINE local == Get(rows[n], m.path)
<1>1. Have(rows[n], m.path) /\ FeedOK(rows[n], head[n])
  BY DEF Have, SafetyInv, FeedWellFormed
<1>2. local \in rows[n] /\ local.path = m.path
  BY <1>1, GetFacts
<1>3. local = a
  BY <1>1, <1>2 DEF FeedOK
<1>4. resolve(local, m) # "skip"
  BY <1>1 DEF Decision
<1> HIDE DEF local
<1>5. ~Equal(a.ver, m.ver) /\ ~After(a.ver, m.ver)
  BY <1>3, <1>4 DEF resolve
<1>6. a.ver \in Version /\ m.ver \in Version
  BY Parts, VersionParts DEF SafetyInv
<1> QED
  BY <1>5, <1>6, VersionOrder

\* A conflict copy is a write of the node's own, later than all the node holds.
LEMMA CopyIsLatest ==
  ASSUME VersionInv, CountersHaveRoom, FreshAheadOfStore,
         NEW n \in Node, NEW q \in Node, NEW m \in pull[n][q].page,
         Decision(n, m) = "conflict"
  PROVE  /\ CopyFor(n, m).ver = [hlc |-> ClockAfter(n, m), origin |-> n]
         /\ CopyFor(n, m).ver.origin = n
         /\ \A a \in rows[n] : After(CopyFor(n, m).ver, a.ver)
<1> DEFINE v == CopyFor(n, m).ver
           t == ClockAfter(n, m)
<1>1. TypeOK /\ Roomy /\ m \in Meta
  BY Parts DEF VersionInv, SafetyInv, Pull
<1>2. Moves(n, t)
  BY <1>1, ApplyMoves
<1>3. v = [hlc |-> t, origin |-> n] /\ t \in Timestamp
  BY <1>1, <1>2, CopyFacts DEF Moves
<1>4. v \in Version /\ v.hlc = t /\ v.origin = n
  BY <1>3 DEF Version
<1>5. \A a \in rows[n] : Compare(v.hlc, a.ver.hlc) > 0
  BY <1>1, <1>2, <1>4, MovePastStore DEF VersionInv
<1> QED
  BY <1>1, <1>3, <1>4, <1>5, LaterThanStore

\* applyRemote's loop: the batch it builds replaces only earlier writes.
LEMMA ApplyVersions ==
  ASSUME VersionInv, CountersHaveRoom, FreshAheadOfStore,
         NEW n \in Node, NEW q \in Node, ApplyEntry(n, q)
  PROVE  OneHolder' /\ ClockCovers' /\ BatchNewer' /\ rows' = rows
<1>1. TypeOK /\ SafetyInv /\ Roomy
  BY DEF VersionInv, SafetyInv
<1>2. PICK m \in pull[n][q].page, r \in Pull :
           /\ m \in Meta /\ pull[n][q].pc = "apply"
           /\ SetPull(n, q, r) /\ r.pc = "apply" /\ rows' = rows
           /\ r.page = pull[n][q].page \ {m}
           /\ last'[n] \in {last[n], Observed(n, m), ClockAfter(n, m)}
           /\ \A i \in Node : i # n => last'[i] = last[i]
           /\ \A b \in r.batch : b \in pull[n][q].batch \/ Prepared(n, m, b)
  BY <1>1, ApplyEffect
<1>3. /\ Moves(n, Observed(n, m))
      /\ Moves(n, ClockAfter(n, m)) /\ Compare(ClockAfter(n, m), m.ver.hlc) > 0
  BY <1>1, ApplyMoves
<1>4. last'[n] = last[n] \/ Moves(n, last'[n])
  BY <1>2, <1>3
<1>5. ASSUME NEW b \in r.batch
      PROVE  /\ Compare(last'[n], b.ver.hlc) >= 0
             /\ \A a \in rows[n] : a.path = b.path => After(b.ver, a.ver)
  <2>1. CASE b \in pull[n][q].batch
    <3>1. \A a \in rows[n] : a.path = b.path => After(b.ver, a.ver)
      BY <2>1 DEF VersionInv, BatchNewer
    <3>2. Compare(last[n], b.ver.hlc) >= 0
      BY <2>1 DEF VersionInv, ClockCovers
    <3>3. b \in Meta
      BY <1>1, <2>1, Parts DEF Pull
    <3>4. Moves(n, last'[n]) => Compare(last'[n], b.ver.hlc) > 0
      BY <1>1, <2>1, MovePastStore DEF VersionInv
    <3>5. Moves(n, last'[n]) => Compare(last'[n], b.ver.hlc) >= 0
      BY <3>3, <3>4, VersionParts, CompareFacts DEF Moves
    <3> QED
      BY <1>4, <3>1, <3>2, <3>5
  <2>2. CASE Prepared(n, m, b) /\ Same(b, m)
    <3>1. last'[n] = ClockAfter(n, m) /\ b.path = m.path /\ b.ver = m.ver
      BY <2>2 DEF Prepared, Same
    <3>2. \A a \in rows[n] : a.path = m.path => After(m.ver, a.ver)
      BY <1>1, <1>2, <2>2, DecisionNewer DEF Prepared
    <3>3. Compare(ClockAfter(n, m), m.ver.hlc) >= 0
      BY <1>2, <1>3, VersionParts, CompareFacts DEF Moves
    <3> QED
      BY <3>1, <3>2, <3>3
  <2>3. CASE Prepared(n, m, b) /\ Decision(n, m) = "conflict" /\ Same(b, CopyFor(n, m))
    <3>1. last'[n] = ClockAfter(n, m) /\ b.ver = CopyFor(n, m).ver
      BY <2>3 DEF Prepared, Same
    <3>2. /\ b.ver = [hlc |-> ClockAfter(n, m), origin |-> n]
          /\ \A a \in rows[n] : After(b.ver, a.ver)
      BY <2>3, <3>1, CopyIsLatest
    <3>3. Compare(last'[n], b.ver.hlc) >= 0
      BY <1>3, <3>1, <3>2, CompareFacts DEF Moves
    <3> QED
      BY <3>2, <3>3
  <2> QED
    BY <1>2, <2>1, <2>2, <2>3 DEF Prepared
<1> QED
  BY <1>2, <1>4, <1>5, SetPullVersions DEF BatchStands

\* A local write is later than all its node holds, and no batch is under way.
LEMMA LocalWriteVersions ==
  ASSUME VersionInv, CountersHaveRoom, FreshAheadOfStore,
         NEW n \in Node, NEW m \in Meta, NEW seen,
         m.ver = Stamp(n), LocalWrite(n, m, seen)
  PROVE  /\ OneHolder' /\ ClockCovers' /\ BatchNewer'
         /\ \A i \in Node : \A a \in rows[i], b \in rows'[i] :
              a.path = b.path => a = b \/ After(b.ver, a.ver)
         /\ \A a \in rows[n] : After(m.ver, a.ver)
<1>1. TypeOK /\ SafetyInv
  BY DEF VersionInv, SafetyInv
<1>2. /\ LockFree(n) /\ pull' = pull /\ last'[n] = m.ver.hlc
      /\ \A i \in Node : i # n => last'[i] = last[i] /\ rows'[i] = rows[i]
      /\ \/ rows'[n] = rows[n]
         \/ rows'[n] = Upsert(rows[n], AppendRow({}, 0, m), head[n])
  BY <1>1, LocalWriteEffect
<1>3. Moves(n, m.ver.hlc) /\ m.ver \in Version
  BY <1>1, StampMoves
<1>4. \A a \in rows[n] : Compare(m.ver.hlc, a.ver.hlc) > 0
  BY <1>1, <1>3, MovePastStore DEF VersionInv
<1>5. \A a \in rows[n] : After(m.ver, a.ver)
  BY <1>1, <1>3, <1>4, LaterThanStore
<1>6. \A j \in Node : pull[n][j].batch = {}
  BY <1>1, <1>2 DEF LockFree, SafetyInv, PullsOK, BatchOK
<1>7. \A b \in rows'[n] : b \in rows[n] \/ b.ver = m.ver
  <2>1. rows[n] \in SUBSET Meta /\ head[n] \in Nat
    BY <1>1, Parts
  <2>2. /\ AppendRow({}, 0, m) \in SUBSET Meta
        /\ \A b \in AppendRow({}, 0, m) : Same(b, m)
    BY AppendRowFacts, AppendRowSame
  <2>3. ASSUME NEW b \in rows'[n], b \notin rows[n] PROVE b.ver = m.ver
    <3>1. \E c \in AppendRow({}, 0, m) : Same(b, c)
      BY <1>2, <2>1, <2>2, <2>3, UpsertSame
    <3> QED
      BY <2>2, <3>1 DEF Same
  <2> QED
    BY <2>3
<1>8. ClockCovers'
  <2> SUFFICES ASSUME NEW i \in Node
               PROVE  /\ \/ last'[i] = ZeroTime
                         \/ \A b \in rows'[i] : Compare(last'[i], b.ver.hlc) >= 0
                      /\ \A j \in Node : \A b \in pull'[i][j].batch :
                           Compare(last'[i], b.ver.hlc) >= 0
    BY DEF ClockCovers
  <2>1. CASE i # n
    BY <1>2, <2>1 DEF VersionInv, ClockCovers
  <2>2. CASE i = n
    <3>1. \A a \in rows[n] : Compare(m.ver.hlc, a.ver.hlc) >= 0
      BY <1>1, <1>3, <1>4, Parts, VersionParts, CompareFacts DEF Moves
    <3>2. Compare(m.ver.hlc, m.ver.hlc) >= 0
      BY <1>3, CompareFacts DEF Moves
    <3> QED
      BY <1>2, <1>6, <1>7, <2>2, <3>1, <3>2
  <2> QED
    BY <2>1, <2>2
<1>9. OneHolder'
  BY <1>2 DEF VersionInv, OneHolder
<1>10. BatchNewer'
  BY <1>2, <1>6 DEF VersionInv, BatchNewer
<1>11. \A a, b \in rows[n] : a.path = b.path => a = b
  BY <1>1 DEF SafetyInv, FeedWellFormed, FeedOK
<1>12. \A i \in Node : \A a, b \in rows[i] : a.path = b.path => a = b
  BY <1>1 DEF SafetyInv, FeedWellFormed, FeedOK
<1> QED
  BY <1>2, <1>5, <1>7, <1>8, <1>9, <1>10, <1>12

\* A commit installs a batch whose rows are later than those they replace.
LEMMA CommitVersions ==
  ASSUME VersionInv, NEW n \in Node, NEW q \in Node, CommitPage(n, q)
  PROVE  /\ OneHolder' /\ ClockCovers' /\ BatchNewer'
         /\ \A i \in Node : \A a \in rows[i], b \in rows'[i] :
              a.path = b.path => a = b \/ After(b.ver, a.ver)
<1> DEFINE r0 == pull[n][q]
           r == [r0 EXCEPT !.pc = "mark", !.batch = {}, !.count = 0]
<1>1. /\ TypeOK /\ SafetyInv /\ r0 \in Pull /\ r0.pc = "apply"
      /\ rows[n] \in SUBSET Meta /\ head[n] \in Nat /\ rows \in [Node -> SUBSET Meta]
  BY Parts DEF VersionInv, SafetyInv, TypeOK, CommitPage
<1>2. r \in Pull /\ r.pc = "mark" /\ r.batch = {} /\ r0.batch \in SUBSET Meta
  BY <1>1 DEF Pull
<1>3. SetPull(n, q, r) /\ last' = last
  BY DEF CommitPage
<1>4. /\ rows'[n] = Upsert(rows[n], r0.batch, head[n])
      /\ \A i \in Node : i # n => rows'[i] = rows[i]
  BY <1>1 DEF CommitPage
<1> HIDE DEF r
<1>5. /\ pull'[n][q] = r
      /\ \A i, j \in Node : i # n \/ j # q => pull'[i][j] = pull[i][j]
  BY <1>1, <1>2, <1>3, SetPullType
<1>6. \A e \in rows'[n] :
        e \in rows[n] \/ \E b \in r0.batch : e.path = b.path /\ e.ver = b.ver
  BY <1>1, <1>2, <1>4, UpsertFacts
<1>7. \A j \in Node : j # q => pull[n][j].batch = {}
  BY <1>1 DEF VersionInv, OneHolder, SafetyInv, PullsOK, BatchOK
<1>8. OneHolder'
  BY <1>2, <1>5 DEF VersionInv, OneHolder
<1>9. BatchNewer'
  BY <1>2, <1>4, <1>5, <1>7 DEF VersionInv, BatchNewer
<1>10. ClockCovers'
  <2> SUFFICES ASSUME NEW i \in Node
               PROVE  /\ \/ last'[i] = ZeroTime
                         \/ \A b \in rows'[i] : Compare(last'[i], b.ver.hlc) >= 0
                      /\ \A j \in Node : \A b \in pull'[i][j].batch :
                           Compare(last'[i], b.ver.hlc) >= 0
    BY DEF ClockCovers
  <2>1. CASE i # n
    BY <1>3, <1>4, <1>5, <2>1 DEF VersionInv, ClockCovers
  <2>2. CASE i = n
    BY <1>2, <1>3, <1>5, <1>6, <1>7, <2>2 DEF VersionInv, ClockCovers
  <2> QED
    BY <2>1, <2>2
<1>11. \A i \in Node : \A a, b \in rows[i] : a.path = b.path => a = b
  BY <1>1 DEF SafetyInv, FeedWellFormed, FeedOK
<1>12. ASSUME NEW a \in rows[n], NEW b \in rows'[n], a.path = b.path
       PROVE  a = b \/ After(b.ver, a.ver)
  BY <1>6, <1>11, <1>12 DEF VersionInv, BatchNewer
<1> QED
  BY <1>4, <1>8, <1>9, <1>10, <1>11, <1>12

\* The janitor and the end of a process only remove.
LEMMA NodeVersions ==
  ASSUME VersionInv, NEW n \in Node, Collect(n) \/ Restart(n) \/ Wipe(n)
  PROVE  /\ OneHolder' /\ ClockCovers' /\ BatchNewer'
         /\ \A i \in Node : rows'[i] \subseteq rows[i]
<1>1. /\ rows \in [Node -> SUBSET Meta] /\ last \in [Node -> Timestamp]
      /\ pull \in [Node -> [Node -> Pull]]
  BY DEF VersionInv, SafetyInv, TypeOK
<1>2. \A i \in Node : rows'[i] \subseteq rows[i]
  BY <1>1 DEF Collect, Restart, Wipe, store
<1>3. \A i \in Node : \/ last'[i] = last[i] /\ pull'[i] = pull[i]
                      \/ /\ last'[i] = ZeroTime
                         /\ \A j \in Node : pull'[i][j] = Idle
  BY <1>1 DEF Collect, Restart, Wipe
<1>4. Idle.pc # "apply" /\ Idle.batch = {}
  BY DEF Idle
<1>5. OneHolder'
  BY <1>3, <1>4 DEF VersionInv, OneHolder
<1>6. ClockCovers'
  BY <1>2, <1>3, <1>4 DEF VersionInv, ClockCovers
<1>7. BatchNewer'
  BY <1>2, <1>3, <1>4 DEF VersionInv, BatchNewer
<1> QED
  BY <1>2, <1>5, <1>6, <1>7

\* Every step keeps the invariant and replaces only by later writes.
LEMMA VersionStep ==
  ASSUME VersionInv, CountersHaveRoom, CountersHaveRoom', FreshAheadOfStore,
         Step
  PROVE  /\ VersionInv'
         /\ \A n \in Node : \A a \in rows[n], b \in rows'[n] :
              a.path = b.path => a = b \/ After(b.ver, a.ver)
<1> DEFINE Newer == \A n \in Node : \A a \in rows[n], b \in rows'[n] :
                      a.path = b.path => a = b \/ After(b.ver, a.ver)
<1>1. TypeOK /\ SafetyInv /\ SafetyInv'
  BY SafetyStep DEF VersionInv, SafetyInv
<1>2. Roomy'
  BY <1>1, StepNew, RoomyStep DEF VersionInv
<1>3. (\A n \in Node : rows'[n] \subseteq rows[n]) => Newer
  BY <1>1 DEF SafetyInv, FeedWellFormed, FeedOK
<1>4. SUFFICES OneHolder' /\ ClockCovers' /\ BatchNewer' /\ Newer
  BY <1>1, <1>2 DEF VersionInv
<1>5. CASE UNCHANGED <<rows, last, pull>>
  BY <1>3, <1>5 DEF VersionInv, OneHolder, ClockCovers, BatchNewer
<1>6. ASSUME NEW n \in Writer, UserWrite(n)
      PROVE  OneHolder' /\ ClockCovers' /\ BatchNewer' /\ Newer
  <2>1. n \in Node
    BY ReplicationAssumption
  <2> QED
    BY <1>1, <1>6, <2>1, UserWrites, LocalWriteVersions
<1>7. ASSUME NEW n \in Node, NEW q \in Peers(n),
             PullStep(n, q) \/ LockWrite(n, q) \/ AbortPull(n, q)
      PROVE  OneHolder' /\ ClockCovers' /\ BatchNewer' /\ Newer
  <2>1. q \in Node
    BY DEF Peers
  <2> HIDE DEF Newer
  <2>2. CASE CommitPage(n, q)
    BY <2>1, <2>2, CommitVersions DEF Newer
  <2>3. CASE ~CommitPage(n, q)
    <3>1. OneHolder' /\ ClockCovers' /\ BatchNewer' /\ rows' = rows
      BY <1>7, <2>1, <2>3, FetchVersions, ApplyVersions DEF PullStep
    <3> QED
      BY <1>3, <3>1
  <2> QED
    BY <2>2, <2>3
<1>8. ASSUME NEW n \in Node, Collect(n) \/ Restart(n) \/ Wipe(n)
      PROVE  OneHolder' /\ ClockCovers' /\ BatchNewer' /\ Newer
  BY <1>3, <1>8, NodeVersions
<1>9. ASSUME NEW n \in Node, NEW seen \in Sights, Operation(n, seen)
      PROVE  OneHolder' /\ ClockCovers' /\ BatchNewer' /\ Newer
  BY <1>1, <1>9, UserWrites, LocalWriteVersions
<1> QED
  BY <1>5, <1>6, <1>7, <1>8, <1>9 DEF Next, Step, Tick, store, vars

\* Empty stores satisfy the invariant.
LEMMA VersionInit == Init => VersionInv
<1> SUFFICES ASSUME Init PROVE VersionInv
  OBVIOUS
<1>1. Idle.page = {} /\ Idle.batch = {} /\ Idle.pc # "apply"
  BY DEF Idle
<1>2. SafetyInv /\ Roomy
  BY SafetyInit, IdentityInit DEF IdentityInv
<1>3. OneHolder /\ ClockCovers /\ BatchNewer
  BY <1>1 DEF Init, OneHolder, ClockCovers, BatchNewer
<1> QED
  BY <1>2, <1>3 DEF VersionInv

\* No node ever replaces what it holds for a path by an earlier write, however
\* the decision of resolve, the commit of its batch and the node's own writes
\* interleave: as long as no counter wraps and no process starts with a clock
\* behind its store.
THEOREM ReplicationVersionNeverRegresses ==
  Spec /\ [](CountersHaveRoom /\ FreshAheadOfStore) => VersionNeverRegresses
<1> DEFINE Env == CountersHaveRoom /\ FreshAheadOfStore
           Newer == \A n \in Node : \A a \in rows[n], b \in rows'[n] :
                      a.path = b.path => a = b \/ After(b.ver, a.ver)
<1>1. VersionInv /\ [Next]_vars /\ Env /\ Env' => VersionInv' /\ [Newer]_vars
  BY VersionStep DEF Step
<1>2. VersionNeverRegresses <=> [][Newer]_vars
  BY DEF VersionNeverRegresses
<1> HIDE DEF Newer
<1> QED
  BY <1>1, <1>2, VersionInit, PTL DEF Spec

---------------------------------------------------------------------------
(* Bookmarks. *)

\* A path that a peer lists is not forgotten: the janitor of a node drops a
\* tombstone only when the peers have dropped the path as well.
Remembers ==
  \A n \in Node : \A q \in Peers(n) : \A a \in rows[n], m \in rows[q] :
    a.path = m.path => Have(rows'[n], a.path)

\* No database with entries is replaced by an empty one.
HeadsGrow == \A n \in Node : head'[n] >= head[n]

\* What a node refuses of a peer's feed it goes on refusing: for its size, or
\* because no clock catches up with a timestamp that was ahead.
RefusalsLast ==
  \A n \in Node : \A q \in Peers(n) : \A m \in rows[q] :
    Refused(n, m) => Refused(n, m)'

\* Entries are deferred only on the last page of a feed.
DeferredLast ==
  \A n \in Node : \A q \in Peers(n) : pull[n][q].deferred => ~pull[n][q].more

\* The batch of pull r holds what m says, or later.
InBatch(r, m) == \E b \in r.batch : b.path = m.path /\ ~After(m.ver, b.ver)

\* Everything of q's feed up to k is accounted for.
Behind(n, q, k) == \A m \in rows[q] : m.seq <= k => Accounted(n, m)

\* Everything of q's feed up to k is accounted for, or will be by the commit of r.
Covered(n, q, r, k) ==
  \A m \in rows[q] : m.seq <= k => Accounted(n, m) \/ InBatch(r, m)

\* A pull has read no further than the feed of q goes.
WithinFeed(q, r) ==
  /\ r.dhead <= head[q] /\ r.cursor <= head[q] /\ r.bookmark <= head[q]
  /\ FeedOK(r.page, head[q])

\* A digest that has arrived lists what the feed still has of its time.
DigestCurrent(q, r) ==
  r.pc = "digest" =>
    \A m \in rows[q] : m.seq <= r.dhead => Digest({m}) \subseteq r.tree

\* The rest of a page is a section of the feed that begins after the cursor: what
\* the feed still has of that section is on the page.
PageCurrent(q, r) ==
  /\ \A o \in r.page : r.cursor < o.seq
  /\ \A m \in rows[q], o \in r.page :
       /\ m.seq <= o.seq => m.seq <= r.cursor \/ m \in r.page
       /\ m.seq <= r.cursor => m.path # o.path

\* What a pull counts as done is done.
WalkSound(n, q, r) ==
  /\ Behind(n, q, r.bookmark)
  /\ r.deferred \/ Covered(n, q, r, r.cursor)
  /\ r.safe <= r.cursor /\ Covered(n, q, r, r.safe)
  /\ r.pc = "walk" => ~r.deferred

\* A pull of q's feed, at whichever of its steps it is.
PullSound(n, q, r) ==
  WithinFeed(q, r) /\ DigestCurrent(q, r) /\ PageCurrent(q, r) /\ WalkSound(n, q, r)

\* A position k that n has recorded of q's feed.
MarkSound(n, q, k) == k <= head[q] /\ Behind(n, q, k)

\* BookmarkSound is about what syncPeer has done when it records a bookmark, so
\* the invariant follows it through the digest, the pages and the batch.
BookmarkInv ==
  \A n \in Node : \A q \in Peers(n) :
    MarkSound(n, q, mark[n][q]) /\ PullSound(n, q, pull[n][q])

\* What any step leaves of a feed and of what a node has of it: positions up to the
\* counter are given out, and what is accounted for stays so.
FeedsGrow ==
  /\ \A q \in Node : head'[q] >= head[q]
  /\ \A q \in Node : \A m \in rows'[q] : m \in rows[q] \/ m.seq > head[q]
  /\ \A n \in Node : \A q \in Peers(n) : \A m \in rows[q] :
       Accounted(n, m) => Accounted(n, m)'

\* A new row has a position above the counter.
LEMMA RowsAppended ==
  ASSUME SafetyInv, Step, NEW q \in Node, NEW m \in rows'[q]
  PROVE  m \in rows[q] \/ m.seq > head[q]
<1>1. TypeOK /\ rows[q] \in SUBSET Meta /\ head[q] \in Nat
  BY Parts DEF SafetyInv
<1>2. CASE rows'[q] \subseteq rows[q]
  BY <1>2
<1>3. ASSUME NEW batch \in SUBSET Meta, rows'[q] = Upsert(rows[q], batch, head[q]),
             \A b \in batch : b.seq \in Nat /\ b.seq >= 1
      PROVE  m \in rows[q] \/ m.seq > head[q]
  <2>1. m \in rows[q] \/ \E b \in batch : m = [b EXCEPT !.seq = head[q] + b.seq]
    BY <1>3 DEF Upsert
  <2>2. ASSUME NEW b \in batch, m = [b EXCEPT !.seq = head[q] + b.seq]
        PROVE  m.seq = head[q] + b.seq
    BY <2>2 DEF Meta
  <2> QED
    BY <1>1, <1>3, <2>1, <2>2
<1>4. ASSUME NEW n \in Node, UserWrite(n) \/ \E seen \in Sights : Operation(n, seen)
      PROVE  m \in rows[q] \/ m.seq > head[q]
  <2>1. PICK w \in Meta : \E seen : w.ver = Stamp(n) /\ LocalWrite(n, w, seen)
    BY <1>1, <1>4, UserWrites
  <2>2. /\ \A i \in Node : i # n => rows'[i] = rows[i]
        /\ \/ rows'[n] = rows[n]
           \/ rows'[n] = Upsert(rows[n], AppendRow({}, 0, w), head[n])
    BY <1>1, <2>1, LocalWriteEffect
  <2>3. /\ AppendRow({}, 0, w) \in SUBSET Meta
        /\ \A b \in AppendRow({}, 0, w) : b.seq \in Nat /\ b.seq >= 1
    <3> DEFINE row == [w EXCEPT !.seq = 0 + 1]
    <3>1. AppendRow({}, 0, w) = {row}
      BY DEF AppendRow
    <3>2. row \in Meta /\ row.seq = 0 + 1
      BY RestampType
    <3> HIDE DEF row
    <3> QED
      BY <3>1, <3>2
  <2> QED
    BY <1>2, <1>3, <2>2, <2>3
<1>5. ASSUME NEW n \in Node, NEW p \in Node, CommitPage(n, p)
      PROVE  m \in rows[q] \/ m.seq > head[q]
  <2>1. pull[n][p] \in Pull /\ BatchOK(pull[n][p], blobs[n])
    BY <1>1, Parts DEF SafetyInv, PullsOK
  <2>2. /\ pull[n][p].batch \in SUBSET Meta
        /\ \A b \in pull[n][p].batch : b.seq \in Nat /\ b.seq >= 1
    BY <2>1 DEF Pull, BatchOK, FeedOK
  <2>3. rows'[q] = rows[q] \/ (n = q /\ rows'[q] = Upsert(rows[q], pull[n][p].batch, head[q]))
    BY <1>1, <1>5 DEF CommitPage, TypeOK
  <2> QED
    BY <1>2, <1>3, <2>2, <2>3
<1>6. ASSUME NEW n \in Node, NEW p \in Peers(n), ~CommitPage(n, p),
             PullStep(n, p) \/ LockWrite(n, p) \/ AbortPull(n, p)
      PROVE  rows' = rows
  <2>1. p \in Node
    BY DEF Peers
  <2> QED
    BY <1>1, <1>6, <2>1, FetchEffect, ApplyEffect DEF PullStep
<1>7. ASSUME NEW n \in Node, Collect(n) \/ Restart(n) \/ Wipe(n)
      PROVE  rows'[q] \subseteq rows[q]
  <2>1. rows \in [Node -> SUBSET Meta]
    BY <1>1 DEF TypeOK
  <2> QED
    BY <1>7, <2>1 DEF Collect, Restart, Wipe, store
<1>8. Writer \subseteq Node
  BY ReplicationAssumption
<1> QED
  BY <1>2, <1>4, <1>5, <1>6, <1>7, <1>8 DEF Step, Next, Tick, store, vars, Peers

\* What a node has of a feed it keeps: replaced only by later writes, not
\* forgotten, and refused for good.
LEMMA AccountedStays ==
  ASSUME TypeOK, TypeOK', NEW n \in Node, NEW q \in Peers(n), NEW m \in rows[q],
         \A a \in rows[n], b \in rows'[n] : a.path = b.path => a = b \/ After(b.ver, a.ver),
         Remembers, RefusalsLast, Accounted(n, m)
  PROVE  Accounted(n, m)'
<1>1. q \in Node /\ m \in Meta /\ rows[n] \subseteq Meta /\ rows'[n] \subseteq Meta
  BY Parts DEF Peers, TypeOK
<1>2. CASE Refused(n, m)
  BY <1>2 DEF RefusalsLast, Accounted
<1>3. ASSUME NEW a \in rows[n], a.path = m.path, ~After(m.ver, a.ver)
      PROVE  Accounted(n, m)'
  <2>1. PICK b \in rows'[n] : b.path = a.path
    BY <1>3 DEF Remembers, Have
  <2>2. a.ver \in Version /\ b.ver \in Version /\ m.ver \in Version
    BY <1>1, VersionParts
  <2>3. ~After(m.ver, b.ver)
    BY <1>3, <2>1, <2>2, VersionOrder
  <2> QED
    BY <1>3, <2>1, <2>3 DEF Accounted
<1> QED
  BY <1>2, <1>3 DEF Accounted

\* All of it for a step of the cluster.
LEMMA FeedsStep ==
  ASSUME VersionInv, CountersHaveRoom, CountersHaveRoom', FreshAheadOfStore,
         Step, Remembers, HeadsGrow, RefusalsLast
  PROVE  FeedsGrow /\ VersionInv'
<1>1. /\ VersionInv'
      /\ \A n \in Node : \A a \in rows[n], b \in rows'[n] :
              a.path = b.path => a = b \/ After(b.ver, a.ver)
  BY VersionStep
<1>2. SafetyInv /\ TypeOK /\ TypeOK'
  BY <1>1 DEF VersionInv, SafetyInv
<1> QED
  BY <1>1, <1>2, RowsAppended, AccountedStays DEF FeedsGrow, HeadsGrow
\* A pull that goes on with r, sound as things are, and a bookmark k.
LEMMA BookStep ==
  ASSUME FeedsGrow, TypeOK, TypeOK', NEW n \in Node, NEW q \in Peers(n), NEW r \in Pull, NEW k \in Nat,
         MarkSound(n, q, k), PullSound(n, q, r), pull'[n][q] = r, mark'[n][q] = k
  PROVE  (MarkSound(n, q, mark[n][q]) /\ PullSound(n, q, pull[n][q]))'
<1>1. /\ q \in Node /\ head[q] \in Nat /\ head'[q] \in Nat /\ head'[q] >= head[q]
      /\ rows[q] \subseteq Meta
  BY Parts DEF Peers, FeedsGrow, TypeOK
<1>2. /\ r.page \subseteq Meta /\ r.dhead \in Nat /\ r.cursor \in Nat /\ r.bookmark \in Nat
      /\ r.safe \in Nat
  BY DEF Pull
<1>3. ASSUME NEW j \in Nat, j <= head[q], NEW m \in rows'[q], m.seq <= j
      PROVE  m \in rows[q] /\ (Accounted(n, m) => Accounted(n, m)')
  <2>1. m.seq \in Nat
    BY <1>1, <1>3 DEF TypeOK, Meta
  <2>2. m \in rows[q]
    BY <1>1, <1>3, <2>1 DEF FeedsGrow
  <2> QED
    BY <2>2 DEF FeedsGrow
<1>4. ASSUME NEW j \in Nat, j <= head[q], Behind(n, q, j)
      PROVE  \A m \in rows'[q] : m.seq <= j => Accounted(n, m)'
  BY <1>3, <1>4 DEF Behind
<1>5. ASSUME NEW j \in Nat, j <= head[q], Covered(n, q, r, j)
      PROVE  \A m \in rows'[q] : m.seq <= j => Accounted(n, m)' \/ InBatch(r, m)
  BY <1>3, <1>5 DEF Covered
<1>6. MarkSound(n, q, mark[n][q])'
  <2>1. k <= head[q] /\ Behind(n, q, k)
    BY DEF MarkSound
  <2>2. k <= head'[q] /\ \A m \in rows'[q] : m.seq <= k => Accounted(n, m)'
    BY <1>1, <1>4, <2>1
  <2> QED
    BY <2>2 DEF MarkSound, Behind
<1>7. WithinFeed(q, pull[n][q])'
  <2>1. /\ r.dhead <= head[q] /\ r.cursor <= head[q] /\ r.bookmark <= head[q]
        /\ FeedOK(r.page, head[q])
    BY DEF PullSound, WithinFeed
  <2>2. FeedOK(r.page, head'[q])
    BY <1>1, <2>1 DEF FeedOK
  <2>3. r.dhead <= head'[q] /\ r.cursor <= head'[q] /\ r.bookmark <= head'[q]
    BY <1>1, <1>2, <2>1
  <2> QED
    BY <2>2, <2>3 DEF WithinFeed
<1>8. DigestCurrent(q, pull[n][q])'
  BY <1>1, <1>2, <1>3 DEF PullSound, DigestCurrent, WithinFeed
<1>9. PageCurrent(q, pull[n][q])'
  <2>1. r.cursor <= head[q] /\ \A o \in r.page : o.seq \in Nat /\ o.seq <= head[q]
    BY <1>1 DEF PullSound, WithinFeed, FeedOK
  <2>2. \A m \in rows'[q], o \in r.page :
          m.seq <= o.seq \/ m.seq <= r.cursor => m \in rows[q]
    BY <1>2, <1>3, <2>1
  <2> QED
    BY <2>2 DEF PullSound, PageCurrent
<1>10. WalkSound(n, q, pull[n][q])'
  <2>1. r.bookmark <= head[q] /\ r.cursor <= head[q] /\ r.safe <= head[q]
    BY <1>1, <1>2 DEF PullSound, WithinFeed, WalkSound
  <2>2. \A m \in rows'[q] : m.seq <= r.bookmark => Accounted(n, m)'
    BY <1>2, <1>4, <2>1 DEF PullSound, WalkSound
  <2>3. \/ r.deferred
        \/ \A m \in rows'[q] : m.seq <= r.cursor => Accounted(n, m)' \/ InBatch(r, m)
    BY <1>2, <1>5, <2>1 DEF PullSound, WalkSound
  <2>4. \A m \in rows'[q] : m.seq <= r.safe => Accounted(n, m)' \/ InBatch(r, m)
    BY <1>2, <1>5, <2>1 DEF PullSound, WalkSound
  <2>5. r.safe <= r.cursor /\ (r.pc = "walk" => ~r.deferred)
    BY DEF PullSound, WalkSound
  <2> QED
    BY <2>2, <2>3, <2>4, <2>5 DEF WalkSound, Behind, Covered, InBatch
<1> QED
  BY <1>6, <1>7, <1>8, <1>9, <1>10 DEF PullSound

\* Before an entry of a page is applied a pull is sound if its cursor is.
LEMMA WalkingSound ==
  ASSUME SafetyInv, NEW n \in Node, NEW q \in Node, NEW r \in Pull,
         r.page = {}, r.safe = 0, ~r.deferred, r.dhead <= head[q],
         MarkSound(n, q, r.cursor), MarkSound(n, q, r.bookmark), DigestCurrent(q, r)
  PROVE  PullSound(n, q, r)
<1>1. \A m \in rows[q] : m.seq \in Nat /\ m.seq >= 1
  BY DEF SafetyInv, FeedWellFormed, FeedOK
<1>2. WithinFeed(q, r)
  BY DEF WithinFeed, MarkSound, FeedOK
<1>3. PageCurrent(q, r)
  BY DEF PageCurrent
<1>4. Covered(n, q, r, r.cursor) /\ Behind(n, q, r.bookmark)
  BY DEF MarkSound, Behind, Covered
<1>5. Covered(n, q, r, 0)
  BY <1>1 DEF Covered
<1>6. 0 <= r.cursor
  BY DEF Pull
<1> QED
  BY <1>2, <1>3, <1>4, <1>5, <1>6 DEF PullSound, WalkSound

\* Nothing is behind the beginning of a feed.
LEMMA BeginningSound ==
  ASSUME SafetyInv, NEW n \in Node, NEW q \in Node
  PROVE  MarkSound(n, q, 0) /\ PullSound(n, q, Idle)
<1>1. head[q] \in Nat /\ \A m \in rows[q] : m.seq \in Nat /\ m.seq >= 1
  BY Parts DEF SafetyInv, FeedWellFormed, FeedOK
<1>2. MarkSound(n, q, 0)
  BY <1>1 DEF MarkSound, Behind
<1>3. /\ Idle.page = {} /\ Idle.safe = 0 /\ ~Idle.deferred /\ Idle.dhead = 0
      /\ Idle.cursor = 0 /\ Idle.bookmark = 0 /\ Idle.pc # "digest"
  BY DEF Idle
<1>4. DigestCurrent(q, Idle)
  BY <1>3 DEF DigestCurrent
<1> QED
  BY <1>1, <1>2, <1>3, <1>4, IdleType, WalkingSound
\* The end of a pull leaves the bookmark as it is.
LEMMA IdleStep ==
  ASSUME SafetyInv, SafetyInv', FeedsGrow, BookmarkInv, NEW n \in Node, NEW q \in Peers(n),
         pull'[n][q] = Idle, mark'[n][q] \in {0, mark[n][q]}
  PROVE  (MarkSound(n, q, mark[n][q]) /\ PullSound(n, q, pull[n][q]))'
<1> DEFINE k == mark'[n][q]
<1>1. q \in Node /\ TypeOK /\ TypeOK' /\ mark[n][q] \in Nat
  BY Parts DEF Peers, SafetyInv
<1>2. MarkSound(n, q, mark[n][q])
  BY DEF BookmarkInv
<1>3. k \in Nat /\ MarkSound(n, q, k)
  BY <1>1, <1>2, BeginningSound
<1>4. PullSound(n, q, Idle)
  BY <1>1, BeginningSound
<1> HIDE DEF k
<1>5. mark'[n][q] = k
  BY DEF k
<1> QED
  BY <1>1, <1>3, <1>4, <1>5, IdleType, BookStep

\* The digest as the peer computes it.
LEMMA FetchDigestSound ==
  ASSUME SafetyInv, NEW n \in Node, NEW q \in Node, FetchDigest(n, q)
  PROVE  \E r \in Pull : SetPull(n, q, r) /\ PullSound(n, q, r)
<1>1. PICK h \in {0} \cup {m.seq : m \in rows[q]} :
        /\ IsDigestHead(h, rows[q])
        /\ SetPull(n, q, [Idle EXCEPT !.pc = "digest", !.tree = Digest(rows[q]), !.dhead = h])
  BY DEF FetchDigest
<1> DEFINE r == [Idle EXCEPT !.pc = "digest", !.tree = Digest(rows[q]), !.dhead = h]
<1>2. /\ TypeOK /\ rows[q] \in SUBSET Meta /\ head[q] \in Nat
      /\ \A m \in rows[q] : m.seq \in 1 .. head[q]
  BY Parts DEF SafetyInv, FeedWellFormed, FeedOK
<1>3. h \in Nat /\ h <= head[q]
  BY <1>2
<1>4. Digest(rows[q]) \in SUBSET TreeEntry
  BY <1>2, DigestType
<1>5. /\ r.page = {} /\ r.safe = 0 /\ r.deferred = FALSE /\ r.dhead = h
      /\ r.cursor = 0 /\ r.bookmark = 0 /\ r.tree = Digest(rows[q])
  BY DEF Idle
<1>6. r \in Pull
  BY <1>3, <1>4 DEF Idle, Pull
<1> HIDE DEF r
<1>7. DigestCurrent(q, r)
  BY <1>5 DEF DigestCurrent, Digest
<1>8. MarkSound(n, q, 0)
  BY BeginningSound
<1>9. PullSound(n, q, r)
  BY <1>3, <1>5, <1>6, <1>7, <1>8, WalkingSound
<1> QED
  BY <1>1, <1>6, <1>9 DEF r

\* Equal trees: the node has what the digest lists, up to the head it names.
\* Other trees: the walk starts where the bookmark stands, or from the beginning.
LEMMA CompareDigestSound ==
  ASSUME SafetyInv, BookmarkInv, NEW n \in Node, NEW q \in Peers(n), CompareDigest(n, q)
  PROVE  \E r \in Pull : SetPull(n, q, r) /\ PullSound(n, q, r)
<1> DEFINE r0 == pull[n][q]
           equal == Digest(rows[n]) = r0.tree
           start == IF equal THEN r0.dhead ELSE Since(mark[n][q], r0.dhead)
           r == [Idle EXCEPT !.pc = IF equal THEN "mark" ELSE "walk",
                             !.cursor = start, !.bookmark = start]
<1>1. /\ q \in Node /\ TypeOK /\ r0 \in Pull /\ mark[n][q] \in Nat
      /\ r0.dhead \in Nat /\ r0.dhead <= head[q] /\ rows[q] \subseteq Meta /\ rows[n] \subseteq Meta
      /\ MarkSound(n, q, mark[n][q]) /\ PullSound(n, q, r0) /\ r0.pc = "digest"
  <2>1. q \in Node /\ TypeOK
    BY DEF Peers, SafetyInv
  <2>2. MarkSound(n, q, mark[n][q]) /\ PullSound(n, q, r0) /\ r0.pc = "digest"
    BY DEF BookmarkInv, CompareDigest
  <2>3. r0 \in Pull /\ mark[n][q] \in Nat /\ rows[q] \subseteq Meta /\ rows[n] \subseteq Meta
    BY <2>1, Parts
  <2> QED
    BY <2>1, <2>2, <2>3 DEF Pull, TypeOK, PullSound, WithinFeed
<1>2. MarkSound(n, q, 0) /\ head[q] \in Nat
  BY <1>1, BeginningSound, Parts
<1>3. start \in Nat /\ MarkSound(n, q, start)
  <2>1. CASE equal
    <3>1. ASSUME NEW m \in rows[q], m.seq <= r0.dhead PROVE Accounted(n, m)
      <4>1. Digest({m}) \subseteq Digest(rows[n])
        BY <1>1, <2>1, <3>1 DEF PullSound, DigestCurrent
      <4> DEFINE e(x) == [path |-> x.path, kind |-> x.kind, hash |-> x.hash,
                          attr |-> x.attr, ver |-> x.ver, deleted |-> x.deleted]
      <4>2. e(m) \in {e(x) : x \in rows[n]}
        BY <4>1 DEF Digest
      <4>3. PICK a \in rows[n] : e(m) = e(a)
        BY <4>2
      <4>4. a.path = m.path /\ a.ver = m.ver
        BY <4>3
      <4>5. m.ver \in Version
        BY <1>1, VersionParts
      <4> QED
        BY <4>4, <4>5, VersionOrder DEF Accounted
    <3>2. MarkSound(n, q, r0.dhead)
      BY <1>1, <3>1 DEF MarkSound, Behind
    <3> QED
      BY <1>1, <2>1, <3>2
  <2>2. CASE ~equal
    BY <1>1, <1>2, <2>2 DEF Since
  <2> QED
    BY <2>1, <2>2
<1>4. SetPull(n, q, r)
  BY DEF CompareDigest
<1> HIDE DEF equal, start
<1>5. /\ r \in Pull /\ r.page = {} /\ r.safe = 0 /\ r.deferred = FALSE /\ r.dhead = 0
      /\ r.cursor = start /\ r.bookmark = start /\ r.pc # "digest"
  BY <1>3 DEF Idle, Pull
<1> HIDE DEF r
<1>6. PullSound(n, q, r)
  BY <1>1, <1>2, <1>3, <1>5, WalkingSound DEF DigestCurrent
<1> QED
  BY <1>4, <1>5, <1>6

\* The rows of a feed are finitely many.
LEMMA FeedFinite ==
  ASSUME NEW table, NEW h \in Nat, FeedOK(table, h)
  PROVE  IsFiniteSet(table)
<1> DEFINE f == [m \in table |-> m.seq]
<1>1. f \in [table -> 1 .. h] /\ \A a, b \in table : f[a] = f[b] => a = b
  BY DEF FeedOK
<1>2. f \in Injection(table, 1 .. h)
  BY <1>1, Fun_IsInj
<1>3. IsFiniteSet(1 .. h)
  BY FS_Interval
<1> QED
  BY <1>2, <1>3, FS_Injection

\* A page is a section of the feed: no row between the cursor and a row of the
\* page is left out.
LEMMA PageIsSection ==
  ASSUME NEW table \in SUBSET Meta, NEW h \in Nat, FeedOK(table, h), NEW since \in Nat,
         NEW o \in ManifestPage(table, since, PageSize),
         NEW m \in table, since < m.seq, m.seq <= o.seq
  PROVE  m \in ManifestPage(table, since, PageSize)
<1> DEFINE Before(x) == {y \in table : y.seq > since /\ y.seq < x.seq}
<1>1. m.seq \in Nat /\ o.seq \in Nat /\ \A y \in table : y.seq \in Nat
  BY DEF Meta, ManifestPage
<1>2. Before(o) \subseteq table /\ Before(m) \subseteq Before(o)
  BY <1>1
<1>3. Cardinality(Before(o)) < PageSize
  BY DEF ManifestPage
<1>4. IsFiniteSet(Before(o)) /\ IsFiniteSet(Before(m))
      /\ Cardinality(Before(m)) <= Cardinality(Before(o))
  BY <1>2, FeedFinite, FS_Subset
<1>5. Cardinality(Before(o)) \in Nat /\ Cardinality(Before(m)) \in Nat /\ PageSize \in Nat
  BY <1>4, FS_CardinalityType, ReplicationAssumption
<1>6. Cardinality(Before(m)) < PageSize
  BY <1>3, <1>4, <1>5
<1> QED
  BY <1>1, <1>6 DEF ManifestPage
\* A page has arrived.
LEMMA FetchPageSound ==
  ASSUME SafetyInv, BookmarkInv, NEW n \in Node, NEW q \in Peers(n), FetchPage(n, q)
  PROVE  \E r \in Pull : SetPull(n, q, r) /\ PullSound(n, q, r)
<1> DEFINE r0 == pull[n][q]
           page == ManifestPage(rows[q], r0.cursor, PageSize)
           more == HasMore(rows[q], r0.cursor, PageSize)
           r == [r0 EXCEPT !.pc = "page", !.page = page, !.more = more, !.batch = {},
                           !.count = 0, !.safe = 0, !.deferred = FALSE]
<1>1. /\ q \in Node /\ TypeOK /\ r0 \in Pull /\ r0.pc = "walk" /\ PullSound(n, q, r0)
      /\ rows[q] \in SUBSET Meta /\ head[q] \in Nat /\ FeedOK(rows[q], head[q])
  <2>1. q \in Node /\ TypeOK
    BY DEF Peers, SafetyInv
  <2> QED
    BY <2>1, Parts DEF SafetyInv, FeedWellFormed, BookmarkInv, FetchPage
<1>2. CASE SetPull(n, q, Idle)
  BY <1>1, <1>2, BeginningSound, IdleType
<1>3. CASE SetPull(n, q, r)
  <2>1. page \subseteq rows[q] /\ \A o \in page : o.seq > r0.cursor
    BY DEF ManifestPage
  <2>2. page \in SUBSET Meta /\ more \in BOOLEAN
    BY <1>1, <2>1 DEF HasMore
  <2>3. \A o \in page : \A m \in rows[q] : r0.cursor < m.seq /\ m.seq <= o.seq => m \in page
    BY <1>1, PageIsSection DEF Pull
  <2> HIDE DEF page, more
  <2>4. /\ r \in Pull /\ r.pc = "page" /\ r.page = page /\ r.batch = {} /\ r.safe = 0
        /\ r.deferred = FALSE /\ r.dhead = r0.dhead /\ r.cursor = r0.cursor
        /\ r.bookmark = r0.bookmark
    BY <1>1, <2>2 DEF Pull
  <2> HIDE DEF r
  <2>5. /\ r0.cursor \in Nat
        /\ \A m \in rows[q] : m.seq \in Nat /\ m.seq >= 1 /\ m.seq <= head[q]
    BY <1>1 DEF Pull, FeedOK
  <2>6. r0.batch = {}
    BY <1>1 DEF SafetyInv, PullsOK, BatchOK
  <2>7. WithinFeed(q, r)
    BY <1>1, <2>1, <2>4 DEF PullSound, WithinFeed, FeedOK
  <2>8. PageCurrent(q, r)
    <3>1. \A o \in page : r0.cursor < o.seq
      BY <2>1, <2>5
    <3>2. ASSUME NEW m \in rows[q], NEW o \in page
          PROVE  /\ m.seq <= o.seq => m.seq <= r0.cursor \/ m \in page
                 /\ m.seq <= r0.cursor => m.path # o.path
      <4>1. m.seq \in Nat /\ o.seq \in Nat /\ o \in rows[q] /\ r0.cursor < o.seq
        BY <2>1, <2>5, <3>1
      <4> QED
        BY <1>1, <2>3, <2>5, <4>1 DEF FeedOK
    <3> QED
      BY <2>4, <3>1, <3>2 DEF PageCurrent
  <2>9. WalkSound(n, q, r)
    <3>1. /\ Behind(n, q, r0.bookmark) /\ Covered(n, q, r0, r0.cursor)
      BY <1>1 DEF PullSound, WalkSound
    <3>2. Covered(n, q, r, r0.cursor)
      BY <2>4, <2>6, <3>1 DEF Covered, InBatch
    <3>3. Covered(n, q, r, 0) /\ 0 <= r0.cursor
      BY <2>5 DEF Covered
    <3> QED
      BY <2>4, <3>1, <3>2, <3>3 DEF WalkSound
  <2>10. DigestCurrent(q, r)
    BY <2>4 DEF DigestCurrent
  <2> QED
    BY <1>3, <2>4, <2>7, <2>8, <2>9, <2>10 DEF PullSound
<1> QED
  BY <1>2, <1>3 DEF FetchPage

\* applyRemote has its lock.
LEMMA LockWriteSound ==
  ASSUME SafetyInv, BookmarkInv, NEW n \in Node, NEW q \in Peers(n), LockWrite(n, q)
  PROVE  \E r \in Pull : SetPull(n, q, r) /\ PullSound(n, q, r)
<1> DEFINE r0 == pull[n][q]
           r == [r0 EXCEPT !.pc = "apply"]
<1>1. q \in Node /\ TypeOK /\ r0 \in Pull /\ SetPull(n, q, r) /\ PullSound(n, q, r0)
  <2>1. q \in Node /\ TypeOK
    BY DEF Peers, SafetyInv
  <2> QED
    BY <2>1, Parts DEF BookmarkInv, LockWrite
<1>2. /\ r \in Pull /\ r.pc = "apply" /\ r.page = r0.page /\ r.batch = r0.batch
      /\ r.safe = r0.safe /\ r.deferred = r0.deferred /\ r.dhead = r0.dhead
      /\ r.cursor = r0.cursor /\ r.bookmark = r0.bookmark
  BY <1>1 DEF Pull
<1> HIDE DEF r
<1>3. WithinFeed(q, r) /\ DigestCurrent(q, r) /\ PageCurrent(q, r)
  BY <1>1, <1>2 DEF PullSound, WithinFeed, DigestCurrent, PageCurrent
<1>4. WalkSound(n, q, r)
  BY <1>1, <1>2 DEF PullSound, WalkSound, Covered, InBatch
<1> QED
  BY <1>1, <1>2, <1>3, <1>4 DEF PullSound

\* The bookmark that syncPeer records after a page, and where it goes on.
LEMMA RecordBookmarkSound ==
  ASSUME SafetyInv, BookmarkInv, DeferredLast, NEW n \in Node, NEW q \in Peers(n),
         RecordBookmark(n, q)
  PROVE  \E r \in Pull, k \in Nat :
           /\ SetPull(n, q, r) /\ PullSound(n, q, r)
           /\ mark' = [mark EXCEPT ![n][q] = k] /\ MarkSound(n, q, k)
<1> DEFINE r0 == pull[n][q]
           k == Greater(r0.bookmark, r0.safe)
           r == [Idle EXCEPT !.pc = "walk", !.cursor = r0.cursor, !.bookmark = k]
<1>1. /\ q \in Node /\ TypeOK /\ r0 \in Pull /\ r0.pc = "mark" /\ PullSound(n, q, r0)
      /\ head[q] \in Nat /\ mark' = [mark EXCEPT ![n][q] = k]
  <2>1. q \in Node /\ TypeOK
    BY DEF Peers, SafetyInv
  <2> QED
    BY <2>1, Parts DEF BookmarkInv, RecordBookmark, SetPeerSeq
<1>2. r0.batch = {}
  BY <1>1 DEF SafetyInv, PullsOK, BatchOK
<1>3. /\ r0.cursor \in Nat /\ r0.bookmark \in Nat /\ r0.safe \in Nat
      /\ r0.cursor <= head[q] /\ r0.bookmark <= head[q] /\ r0.safe <= r0.cursor
      /\ Behind(n, q, r0.bookmark) /\ Covered(n, q, r0, r0.safe)
      /\ r0.deferred \/ Covered(n, q, r0, r0.cursor)
  BY <1>1 DEF Pull, PullSound, WithinFeed, WalkSound
<1>4. \A j : Covered(n, q, r0, j) => Behind(n, q, j)
  BY <1>2 DEF Covered, Behind, InBatch
<1>5. k \in Nat /\ MarkSound(n, q, k)
  <2>1. MarkSound(n, q, r0.bookmark) /\ MarkSound(n, q, r0.safe)
    BY <1>1, <1>3, <1>4 DEF MarkSound
  <2> QED
    BY <1>3, <2>1 DEF Greater
<1> HIDE DEF k
<1>6. CASE ~r0.more
  <2>1. SetPull(n, q, Idle)
    BY <1>6 DEF RecordBookmark
  <2> QED
    BY <1>1, <1>5, <2>1, BeginningSound, IdleType
<1>7. CASE r0.more
  <2>1. SetPull(n, q, r)
    BY <1>7 DEF RecordBookmark, k
  <2>2. MarkSound(n, q, r0.cursor)
    BY <1>1, <1>3, <1>4, <1>7 DEF DeferredLast, MarkSound
  <2>3. /\ r \in Pull /\ r.page = {} /\ r.safe = 0 /\ r.deferred = FALSE /\ r.dhead = 0
        /\ r.cursor = r0.cursor /\ r.bookmark = k /\ r.pc # "digest"
    BY <1>3, <1>5 DEF Idle, Pull
  <2> HIDE DEF r
  <2>4. PullSound(n, q, r)
    BY <1>1, <1>5, <2>2, <2>3, WalkingSound DEF DigestCurrent
  <2> QED
    BY <1>1, <1>5, <2>1, <2>3, <2>4
<1> QED
  BY <1>6, <1>7
\* r is pull r0 after entry m of its page: deferred, or done with m unless an
\* earlier entry was deferred.
Passed(n, r0, m, r) ==
  /\ r.pc = "apply" /\ r.page = r0.page \ {m} /\ r.cursor = m.seq
  /\ r.bookmark = r0.bookmark /\ r.dhead = r0.dhead
  /\ \/ r.deferred /\ r.safe = r0.safe
     \/ /\ ~r0.deferred /\ ~r.deferred /\ r.safe = Greater(r0.safe, m.seq)
        /\ Accounted(n, m) \/ InBatch(r, m)

\* A pull that has passed the next entry is sound if its batch has lost nothing
\* that earlier entries put there.
LEMMA PassedSound ==
  ASSUME SafetyInv, NEW n \in Node, NEW q \in Node, NEW r0 \in Pull, NEW r \in Pull,
         PullSound(n, q, r0), NEW m \in r0.page, \A o \in r0.page : m.seq <= o.seq,
         Passed(n, r0, m, r),
         \A x \in rows[q] : x.seq <= r0.cursor /\ InBatch(r0, x) => InBatch(r, x)
  PROVE  PullSound(n, q, r)
<1>1. /\ head[q] \in Nat /\ r0.cursor \in Nat /\ r0.safe \in Nat /\ r0.page \subseteq Meta
      /\ \A x \in rows[q] : x.seq \in Nat
  BY Parts DEF SafetyInv, FeedWellFormed, FeedOK, Pull
<1>2. /\ WithinFeed(q, r0) /\ PageCurrent(q, r0) /\ WalkSound(n, q, r0)
  BY DEF PullSound
<1>3. /\ m.seq \in Nat /\ m.seq <= head[q] /\ r0.cursor < m.seq
      /\ \A o \in r0.page : o.seq \in Nat
      /\ \A o, x \in r0.page : o.path = x.path \/ o.seq = x.seq => o = x
  BY <1>1, <1>2 DEF WithinFeed, FeedOK, PageCurrent
<1>4. WithinFeed(q, r)
  BY <1>1, <1>2, <1>3 DEF WithinFeed, FeedOK, Passed
<1>5. DigestCurrent(q, r)
  BY DEF DigestCurrent, Passed
<1>6. \A x \in rows[q] : x.seq <= m.seq => x.seq <= r0.cursor \/ x = m
  BY <1>1, <1>2, <1>3 DEF PageCurrent
<1>7. PageCurrent(q, r)
  <2>1. \A o \in r0.page \ {m} : m.seq < o.seq
    BY <1>3
  <2>2. ASSUME NEW x \in rows[q], NEW o \in r0.page \ {m}
        PROVE  /\ x.seq <= o.seq => x.seq <= m.seq \/ x \in r0.page \ {m}
               /\ x.seq <= m.seq => x.path # o.path
    BY <1>1, <1>2, <1>3, <1>6 DEF PageCurrent
  <2> QED
    BY <2>1, <2>2 DEF PageCurrent, Passed
<1>8. \A j \in Nat : j <= r0.cursor /\ Covered(n, q, r0, j) => Covered(n, q, r, j)
  BY <1>1 DEF Covered
<1>9. WalkSound(n, q, r)
  <2>1. Behind(n, q, r0.bookmark) /\ r0.safe <= r0.cursor /\ Covered(n, q, r0, r0.safe)
    BY <1>2 DEF WalkSound
  <2>2. CASE r.deferred /\ r.safe = r0.safe
    BY <1>1, <1>3, <1>8, <2>1, <2>2 DEF WalkSound, Passed
  <2>3. CASE /\ ~r0.deferred /\ ~r.deferred /\ r.safe = Greater(r0.safe, m.seq)
             /\ Accounted(n, m) \/ InBatch(r, m)
    <3>1. r.safe = m.seq
      BY <1>1, <1>3, <2>1, <2>3 DEF Greater
    <3>2. Covered(n, q, r, r0.cursor)
      BY <1>1, <1>2, <1>8, <2>3 DEF WalkSound
    <3>3. Covered(n, q, r, m.seq)
      BY <1>6, <2>3, <3>2 DEF Covered
    <3> QED
      BY <1>3, <2>1, <2>3, <3>1, <3>3 DEF WalkSound, Passed
  <2> QED
    BY <2>2, <2>3 DEF Passed
<1> QED
  BY <1>4, <1>5, <1>7, <1>9 DEF PullSound

\* A row of a batch, and what AppendRow makes of the others.
LEMMA AppendRowKeeps ==
  ASSUME NEW batch \in SUBSET Meta, NEW count \in Nat, NEW m \in Meta
  PROVE  /\ \E b \in AppendRow(batch, count, m) :
              b.path = m.path /\ b.ver = m.ver /\ b.hash = m.hash
         /\ \A b \in batch : b.path # m.path => b \in AppendRow(batch, count, m)
<1> DEFINE row == [m EXCEPT !.seq = count + 1]
<1>1. row.path = m.path /\ row.ver = m.ver /\ row.hash = m.hash
  BY RestampType
<1>2. row \in AppendRow(batch, count, m)
  BY DEF AppendRow
<1>3. \A b \in batch : b.path # m.path => b \in AppendRow(batch, count, m)
  BY DEF AppendRow
<1> QED
  BY <1>1, <1>2, <1>3

\* A conflict copy takes the place only of earlier writes.
LEMMA CopyKeeps ==
  ASSUME VersionInv, CountersHaveRoom, FreshAheadOfStore, NEW n \in Node, NEW q \in Node,
         NEW m \in pull[n][q].page, NEW x \in Meta, InBatch(pull[n][q], x)
  PROVE  InBatch(WithCopy(n, pull[n][q], m), x)
<1> DEFINE r0 == pull[n][q]
           w == WithCopy(n, r0, m)
           c == CopyFor(n, m)
<1>1. CASE Decision(n, m) # "conflict"
  BY <1>1 DEF WithCopy
<1>2. CASE Decision(n, m) = "conflict"
  <2>1. /\ TypeOK /\ Roomy /\ r0 \in Pull /\ m \in Meta /\ r0.batch \in SUBSET Meta
        /\ r0.count \in Nat
    BY Parts DEF VersionInv, SafetyInv, Pull
  <2>2. c \in Meta /\ c.ver = [hlc |-> ClockAfter(n, m), origin |-> n] /\ c.ver.hlc = ClockAfter(n, m)
    BY <1>2, <2>1, CopyFacts
  <2>3. w.batch = AppendRow(r0.batch, r0.count, c)
    BY <1>2, <2>1, <2>2, AddRowFacts DEF WithCopy, CopyFor
  <2>4. PICK b \in r0.batch : b.path = x.path /\ ~After(x.ver, b.ver)
    BY DEF InBatch
  <2>5. Compare(c.ver.hlc, b.ver.hlc) > 0
    <3>1. Moves(n, ClockAfter(n, m))
      BY <2>1, ApplyMoves
    <3> QED
      BY <2>1, <2>2, <3>1, MovePastStore DEF VersionInv
  <2> HIDE DEF c, w
  <2>6. c.ver \in Version /\ b.ver \in Version /\ x.ver \in Version
    BY <2>1, <2>2, VersionParts
  <2>7. After(c.ver, b.ver)
    BY <2>5, <2>6, LaterIsAfter
  <2>8. ~After(x.ver, c.ver)
    BY <2>4, <2>6, <2>7, VersionOrder
  <2>9. /\ \E d \in w.batch : d.path = c.path /\ d.ver = c.ver
        /\ b.path # c.path => b \in w.batch
    BY <2>1, <2>2, <2>3, AppendRowKeeps
  <2>10. InBatch(w, x)
    BY <2>4, <2>8, <2>9 DEF InBatch
  <2> QED
    BY <2>10 DEF w
<1> QED
  BY <1>1, <1>2

\* One round of applyRemote's loop.
LEMMA ApplyEntrySound ==
  ASSUME VersionInv, CountersHaveRoom, FreshAheadOfStore, BookmarkInv,
         NEW n \in Node, NEW q \in Peers(n), ApplyEntry(n, q)
  PROVE  \E r \in Pull : SetPull(n, q, r) /\ PullSound(n, q, r)
<1> DEFINE r0 == pull[n][q]
<1>1. /\ q \in Node /\ SafetyInv /\ TypeOK /\ r0 \in Pull /\ PullSound(n, q, r0)
      /\ rows[q] \subseteq Meta /\ rows[n] \subseteq Meta /\ r0.page \subseteq Meta
  <2>1. q \in Node /\ TypeOK /\ SafetyInv
    BY DEF Peers, SafetyInv, VersionInv
  <2> QED
    BY <2>1, Parts DEF BookmarkInv, Pull
<1>2. PICK m \in r0.page : \/ RejectEntry(n, q, m) \/ SkipEntry(n, q, m)
                           \/ TakeEntry(n, q, m) \/ DeferEntry(n, q, m)
  BY DEF ApplyEntry
<1>3. m \in Meta /\ r0.pc = "apply" /\ \A o \in r0.page : m.seq <= o.seq
  BY <1>1, <1>2 DEF RejectEntry, SkipEntry, TakeEntry, DeferEntry, Admitted, NextEntry
<1>4. ASSUME NEW x \in Pull, x.pc = "apply", x.page = r0.page, x.deferred = r0.deferred,
             x.safe = r0.safe, x.bookmark = r0.bookmark, x.dhead = r0.dhead
      PROVE  /\ Advance(x, m) \in Pull /\ Advance(x, m).batch = x.batch
             /\ Accounted(n, m) \/ InBatch(x, m) => Passed(n, r0, m, Advance(x, m))
             /\ [Past(x, m) EXCEPT !.deferred = TRUE] \in Pull
             /\ [Past(x, m) EXCEPT !.deferred = TRUE].batch = x.batch
             /\ Passed(n, r0, m, [Past(x, m) EXCEPT !.deferred = TRUE])
  <2> DEFINE y == Advance(x, m)
             z == [Past(x, m) EXCEPT !.deferred = TRUE]
  <2>1. y \in Pull /\ y.batch = x.batch /\ z \in Pull /\ z.batch = x.batch
    BY <1>3, AdvanceFacts
  <2>2. /\ y.pc = x.pc /\ y.page = x.page \ {m} /\ y.cursor = m.seq
        /\ y.bookmark = x.bookmark /\ y.dhead = x.dhead /\ y.deferred = x.deferred
        /\ y.safe = IF x.deferred THEN x.safe ELSE Greater(x.safe, m.seq)
    BY <1>3 DEF Advance, Past, Pull
  <2>3. /\ z.pc = x.pc /\ z.page = x.page \ {m} /\ z.cursor = m.seq
        /\ z.bookmark = x.bookmark /\ z.dhead = x.dhead /\ z.deferred = TRUE
        /\ z.safe = x.safe
    BY <1>3 DEF Past, Pull
  <2> HIDE DEF y, z
  <2>4. InBatch(x, m) => InBatch(y, m)
    BY <2>1 DEF InBatch
  <2>5. Accounted(n, m) \/ InBatch(x, m) => Passed(n, r0, m, y)
    BY <1>4, <2>2, <2>4 DEF Passed
  <2>6. Passed(n, r0, m, z)
    BY <1>4, <2>3 DEF Passed
  <2> QED
    BY <2>1, <2>5, <2>6 DEF y, z
<1> DEFINE w == WithCopy(n, r0, m)
<1>5. CASE RejectEntry(n, q, m) \/ SkipEntry(n, q, m)
  <2>1. SetPull(n, q, Advance(r0, m))
    BY <1>5 DEF RejectEntry, SkipEntry
  <2>2. Accounted(n, m)
    <3>1. CASE Refused(n, m)
      BY <3>1 DEF Accounted
    <3>2. CASE Decision(n, m) = "skip"
      <4> DEFINE a == Get(rows[n], m.path)
      <4>1. Have(rows[n], m.path) /\ resolve(a, m) = "skip"
        BY <3>2, ConflictHasLocal DEF Decision
      <4>2. a \in rows[n] /\ a.path = m.path
        BY <4>1, GetFacts
      <4> HIDE DEF a
      <4>3. Equal(a.ver, m.ver) \/ After(a.ver, m.ver)
        BY <4>1 DEF resolve
      <4>4. a.ver \in Version /\ m.ver \in Version
        BY <1>1, <1>3, <4>2, VersionParts
      <4> QED
        BY <4>2, <4>3, <4>4, VersionOrder DEF Accounted
    <3> QED
      BY <1>5, <3>1, <3>2 DEF RejectEntry, SkipEntry
  <2> DEFINE r == Advance(r0, m)
  <2>3. r \in Pull /\ r.batch = r0.batch /\ Passed(n, r0, m, r)
    BY <1>1, <1>3, <1>4, <2>2
  <2> HIDE DEF r
  <2>4. PullSound(n, q, r)
    BY <1>1, <1>3, <2>3, PassedSound DEF InBatch
  <2> QED
    BY <2>1, <2>3, <2>4 DEF r
<1>6. /\ w \in Pull /\ w.pc = "apply" /\ w.page = r0.page
      /\ w.deferred = r0.deferred /\ w.safe = r0.safe /\ w.bookmark = r0.bookmark
      /\ w.dhead = r0.dhead /\ w.batch \in SUBSET Meta /\ w.count \in Nat
  <2>1. w \in Pull /\ w.pc = "apply" /\ w.page = r0.page
    BY <1>1, <1>3, WithCopyBatch
  <2>2. /\ w.deferred = r0.deferred /\ w.safe = r0.safe /\ w.bookmark = r0.bookmark
        /\ w.dhead = r0.dhead
    BY <1>1 DEF WithCopy, AddRow, Pull
  <2> QED
    BY <2>1, <2>2 DEF Pull
<1>7. \A x \in rows[q] : InBatch(r0, x) => InBatch(w, x)
  BY <1>1, CopyKeeps
<1>8. CASE TakeEntry(n, q, m)
  <2> DEFINE t == AddRow(w, m)
             r == Advance(t, m)
  <2>1. SetPull(n, q, r)
    BY <1>8 DEF TakeEntry
  <2> HIDE DEF w
  <2>2. t \in Pull /\ t.pc = "apply" /\ t.batch = AppendRow(w.batch, w.count, m)
    BY <1>3, <1>6, AddRowFacts
  <2>3. /\ t.page = r0.page /\ t.deferred = r0.deferred /\ t.safe = r0.safe
        /\ t.bookmark = r0.bookmark /\ t.dhead = r0.dhead
    BY <1>6 DEF AddRow, Pull
  <2> HIDE DEF t
  <2>4. /\ \E b \in t.batch : b.path = m.path /\ b.ver = m.ver
        /\ \A b \in w.batch : b.path # m.path => b \in t.batch
    BY <1>3, <1>6, <2>2, AppendRowKeeps
  <2>5. InBatch(t, m)
    BY <1>3, <2>4, VersionParts, VersionOrder DEF InBatch
  <2>6. r \in Pull /\ r.batch = t.batch /\ Passed(n, r0, m, r)
    BY <1>4, <2>2, <2>3, <2>5
  <2> HIDE DEF r
  <2>7. ASSUME NEW x \in rows[q], x.seq <= r0.cursor, InBatch(r0, x)
        PROVE  InBatch(r, x)
    <3>1. x.path # m.path
      BY <1>1, <2>7 DEF PullSound, PageCurrent
    <3>2. InBatch(w, x)
      BY <1>7, <2>7
    <3> QED
      BY <2>4, <2>6, <3>1, <3>2 DEF InBatch
  <2>8. PullSound(n, q, r)
    BY <1>1, <1>3, <2>6, <2>7, PassedSound
  <2> QED
    BY <2>1, <2>6, <2>8
<1>9. CASE DeferEntry(n, q, m)
  <2> DEFINE r == [Past(w, m) EXCEPT !.deferred = TRUE]
  <2>1. SetPull(n, q, r)
    BY <1>9 DEF DeferEntry
  <2> HIDE DEF w
  <2>2. r \in Pull /\ r.batch = w.batch /\ Passed(n, r0, m, r)
    BY <1>4, <1>6
  <2> HIDE DEF r
  <2>3. PullSound(n, q, r)
    BY <1>1, <1>3, <1>7, <2>2, PassedSound DEF InBatch
  <2> QED
    BY <2>1, <2>2, <2>3
<1> QED
  BY <1>2, <1>5, <1>8, <1>9
\* The commit of a page: what the batch had the store has now.
LEMMA CommitSound ==
  ASSUME SafetyInv, TypeOK', FeedsGrow, BookmarkInv,
         NEW n \in Node, NEW q \in Peers(n), CommitPage(n, q)
  PROVE  (MarkSound(n, q, mark[n][q]) /\ PullSound(n, q, pull[n][q]))'
<1> DEFINE r0 == pull[n][q]
           r == [r0 EXCEPT !.pc = "mark", !.batch = {}, !.count = 0]
<1>1. /\ q \in Node /\ q # n /\ TypeOK /\ r0 \in Pull /\ PullSound(n, q, r0)
      /\ MarkSound(n, q, mark[n][q]) /\ rows \in [Node -> SUBSET Meta]
      /\ head \in [Node -> Nat] /\ r0.batch \in SUBSET Meta /\ r0.page = {}
  <2>1. q \in Node /\ q # n /\ TypeOK
    BY ReplicationAssumption DEF Peers, SafetyInv
  <2> QED
    BY <2>1, Parts DEF BookmarkInv, CommitPage, TypeOK, Pull
<1>2. r \in Pull /\ SetPull(n, q, r) /\ mark' = mark
  BY <1>1 DEF CommitPage, Pull
<1>3. /\ r.pc = "mark" /\ r.page = {} /\ r.cursor = r0.cursor /\ r.bookmark = r0.bookmark
      /\ r.dhead = r0.dhead /\ r.safe = r0.safe /\ r.deferred = r0.deferred
  BY <1>1 DEF Pull
<1> HIDE DEF r
<1>4. pull'[n][q] = r
  BY <1>1, <1>2, SetPullType
<1>5. /\ rows'[n] = Upsert(rows[n], r0.batch, head[n])
      /\ rows'[q] = rows[q] /\ head'[q] = head[q]
  BY <1>1 DEF CommitPage
<1>6. \A m \in rows[q] : Accounted(n, m) => Accounted(n, m)'
  BY DEF FeedsGrow
<1>7. ASSUME NEW m \in rows[q], InBatch(r0, m) PROVE Accounted(n, m)'
  <2>1. PICK b \in r0.batch : b.path = m.path /\ ~After(m.ver, b.ver)
    BY <1>7 DEF InBatch
  <2> DEFINE a == [b EXCEPT !.seq = head[n] + b.seq]
  <2>2. a.path = b.path /\ a.ver = b.ver
    BY <1>1, RestampType DEF Meta
  <2>3. a \in rows'[n]
    BY <1>5 DEF Upsert
  <2> HIDE DEF a
  <2> QED
    BY <2>1, <2>2, <2>3 DEF Accounted
<1>8. \A j : Behind(n, q, j) \/ Covered(n, q, r0, j) =>
        \A m \in rows'[q] : m.seq <= j => Accounted(n, m)'
  BY <1>5, <1>6, <1>7 DEF Behind, Covered
<1>9. MarkSound(n, q, mark[n][q])'
  BY <1>1, <1>2, <1>5, <1>8 DEF MarkSound, Behind
<1>10. WithinFeed(q, pull[n][q])' /\ DigestCurrent(q, pull[n][q])' /\ PageCurrent(q, pull[n][q])'
  BY <1>1, <1>3, <1>4, <1>5
     DEF PullSound, WithinFeed, FeedOK, DigestCurrent, PageCurrent
<1>11. WalkSound(n, q, pull[n][q])'
  <2>1. /\ Behind(n, q, r0.bookmark)
        /\ r0.deferred \/ Covered(n, q, r0, r0.cursor)
        /\ r0.safe <= r0.cursor /\ Covered(n, q, r0, r0.safe)
    BY <1>1 DEF PullSound, WalkSound
  <2>2. /\ \A m \in rows'[q] : m.seq <= r0.bookmark => Accounted(n, m)'
        /\ r0.deferred \/ \A m \in rows'[q] : m.seq <= r0.cursor => Accounted(n, m)'
        /\ \A m \in rows'[q] : m.seq <= r0.safe => Accounted(n, m)'
    BY <1>8, <2>1
  <2> QED
    BY <1>3, <1>4, <2>1, <2>2 DEF WalkSound, Behind, Covered
<1> QED
  BY <1>9, <1>10, <1>11 DEF PullSound

\* A step that leaves a pull and its bookmark alone.
LEMMA OthersSound ==
  ASSUME TypeOK, TypeOK', FeedsGrow, BookmarkInv, NEW n \in Node, NEW q \in Peers(n),
         pull'[n][q] = pull[n][q], mark'[n][q] = mark[n][q]
  PROVE  (MarkSound(n, q, mark[n][q]) /\ PullSound(n, q, pull[n][q]))'
<1> DEFINE r == pull[n][q]
           k == mark[n][q]
<1>1. r \in Pull /\ k \in Nat
  BY Parts DEF Peers
<1>2. MarkSound(n, q, k) /\ PullSound(n, q, r)
  BY DEF BookmarkInv
<1>3. pull'[n][q] = r /\ mark'[n][q] = k
  OBVIOUS
<1> HIDE DEF r, k
<1> QED
  BY <1>1, <1>2, <1>3, BookStep

\* Every step keeps the invariant.
LEMMA BookmarkStep ==
  ASSUME VersionInv, BookmarkInv, CountersHaveRoom, CountersHaveRoom', FreshAheadOfStore,
         DeferredLast, Step, Remembers, HeadsGrow, RefusalsLast
  PROVE  VersionInv' /\ BookmarkInv'
<1>1. /\ FeedsGrow /\ VersionInv' /\ SafetyInv /\ SafetyInv' /\ TypeOK /\ TypeOK'
      /\ mark \in [Node -> [Node -> Nat]] /\ pull \in [Node -> [Node -> Pull]]
  BY FeedsStep DEF VersionInv, SafetyInv, TypeOK
<1>2. SUFFICES ASSUME NEW i \in Node, NEW j \in Peers(i)
               PROVE  (MarkSound(i, j, mark[i][j]) /\ PullSound(i, j, pull[i][j]))'
  BY <1>1 DEF BookmarkInv
<1> DEFINE Goal == (MarkSound(i, j, mark[i][j]) /\ PullSound(i, j, pull[i][j]))'
<1>3. j \in Node
  BY DEF Peers
<1>4. CASE pull'[i][j] = pull[i][j] /\ mark'[i][j] = mark[i][j]
  BY <1>1, <1>4, OthersSound
<1>5. CASE pull'[i][j] = Idle /\ mark'[i][j] \in {0, mark[i][j]}
  BY <1>1, <1>5, IdleStep
<1>6. ASSUME NEW r \in Pull, SetPull(i, j, r), PullSound(i, j, r), NEW k \in Nat,
             mark' = [mark EXCEPT ![i][j] = k], MarkSound(i, j, k)
      PROVE  Goal
  <2>1. pull'[i][j] = r /\ mark'[i][j] = k
    BY <1>1, <1>3, <1>6, SetPullType
  <2> QED
    BY <1>1, <1>6, <2>1, BookStep
<1>7. ASSUME NEW r \in Pull, SetPull(i, j, r), PullSound(i, j, r), mark' = mark
      PROVE  Goal
  <2>1. mark' = [mark EXCEPT ![i][j] = mark[i][j]] /\ mark[i][j] \in Nat
    BY <1>1, <1>3, <1>7
  <2>2. MarkSound(i, j, mark[i][j])
    BY DEF BookmarkInv
  <2> QED
    BY <1>6, <1>7, <2>1, <2>2
<1> HIDE DEF Goal
<1>8. ASSUME NEW n \in Node, UserWrite(n) \/ \E seen \in Sights : Operation(n, seen)
      PROVE  Goal
  <2>1. pull' = pull /\ mark' = mark
    BY <1>1, <1>8, UserWrites DEF LocalWrite
  <2> QED
    BY <1>4, <2>1 DEF Goal
<1>9. ASSUME NEW n \in Node, Collect(n) \/ Restart(n) \/ Wipe(n) PROVE Goal
  <2>1. \/ pull'[i][j] = pull[i][j] /\ mark'[i][j] = mark[i][j]
        \/ pull'[i][j] = Idle /\ mark'[i][j] \in {0, mark[i][j]}
    BY <1>1, <1>3, <1>9 DEF Collect, Restart, Wipe, store
  <2> QED
    BY <1>4, <1>5, <2>1 DEF Goal
<1>10. ASSUME NEW n \in Node, NEW q \in Peers(n), n # i \/ q # j,
              PullStep(n, q) \/ LockWrite(n, q) \/ AbortPull(n, q)
       PROVE  Goal
  <2>1. q \in Node
    BY DEF Peers
  <2>2. mark' = mark \/ \E k : SetPeerSeq(n, q, k)
    BY <1>10 DEF PullStep, FetchDigest, CompareDigest, FetchPage, ApplyEntry,
       RejectEntry, SkipEntry, TakeEntry, DeferEntry, CommitPage, RecordBookmark, LockWrite,
       AbortPull, store
  <2>3. mark'[i][j] = mark[i][j]
    BY <1>1, <1>3, <1>10, <2>1, <2>2 DEF SetPeerSeq
  <2>4. \E r : SetPull(n, q, r)
    BY <1>10 DEF PullStep, FetchDigest, CompareDigest, FetchPage, ApplyEntry,
       RejectEntry, SkipEntry, TakeEntry, DeferEntry, CommitPage, RecordBookmark, LockWrite,
       AbortPull
  <2>5. pull'[i][j] = pull[i][j]
    BY <1>1, <1>3, <1>10, <2>1, <2>4 DEF SetPull
  <2> QED
    BY <1>4, <2>3, <2>5 DEF Goal
<1>11. CASE PullStep(i, j) \/ LockWrite(i, j) \/ AbortPull(i, j)
  <2>1. CASE \/ FetchDigest(i, j) \/ CompareDigest(i, j) \/ FetchPage(i, j)
             \/ LockWrite(i, j) \/ ApplyEntry(i, j)
    <3>1. mark' = mark
      BY <2>1 DEF FetchDigest, CompareDigest, FetchPage, LockWrite, ApplyEntry, RejectEntry,
         SkipEntry, TakeEntry, DeferEntry, store
    <3>2. \E r \in Pull : SetPull(i, j, r) /\ PullSound(i, j, r)
      BY <1>1, <1>3, <2>1, FetchDigestSound, CompareDigestSound, FetchPageSound,
         LockWriteSound, ApplyEntrySound
    <3> QED
      BY <1>7, <3>1, <3>2 DEF Goal
  <2>2. CASE RecordBookmark(i, j)
    BY <1>1, <1>6, <2>2, RecordBookmarkSound DEF Goal
  <2>3. CASE CommitPage(i, j)
    BY <1>1, <2>3, CommitSound DEF Goal
  <2>4. CASE AbortPull(i, j)
    <3>1. pull'[i][j] = Idle /\ mark' = mark
      BY <1>1, <1>3, <2>4 DEF AbortPull, SetPull, store
    <3> QED
      BY <1>5, <3>1 DEF Goal
  <2> QED
    BY <1>11, <2>1, <2>2, <2>3, <2>4 DEF PullStep
<1>12. CASE pull' = pull /\ mark' = mark
  BY <1>4, <1>12 DEF Goal
<1>13. Writer \subseteq Node
  BY ReplicationAssumption
<1> QED
  BY <1>8, <1>9, <1>10, <1>11, <1>12, <1>13 DEF Goal, Step, Next, Tick, store, vars

\* A step that changes nothing forgets and refuses nothing.
LEMMA StutterKeeps ==
  ASSUME UNCHANGED vars, TypeOK
  PROVE  Remembers /\ HeadsGrow /\ RefusalsLast
<1>1. rows' = rows /\ head' = head /\ now' = now
  BY DEF vars
<1>2. Remembers
  BY <1>1 DEF Remembers, Have
<1>3. HeadsGrow
  BY <1>1 DEF HeadsGrow, TypeOK
<1>4. RefusalsLast
  BY <1>1 DEF RefusalsLast, Refused, physical
<1> QED
  BY <1>2, <1>3, <1>4

\* Empty feeds satisfy the invariant.
LEMMA BookmarkInit == Init => BookmarkInv
<1> SUFFICES ASSUME Init PROVE BookmarkInv
  OBVIOUS
<1>1. SafetyInv
  BY SafetyInit
<1>2. \A n, q \in Node : mark[n][q] = 0 /\ pull[n][q] = Idle
  BY DEF Init
<1> QED
  BY <1>1, <1>2, BeginningSound DEF BookmarkInv, Peers

\* Nothing of a peer's feed is passed over: whatever writes, pages, failures,
\* restarts and collections interleave with a pull, every entry at or below the
\* bookmark is held, or replaced by a later write, or refused. This needs what the
\* program leaves to its operators: no peer is rebuilt, no tombstone is dropped that
\* a peer still lists, no clock is so far ahead that an entry is refused for a time
\* only, and no page but the last has an entry whose content cannot be fetched.
THEOREM ReplicationBookmarkSound ==
  Spec /\ [][Remembers /\ HeadsGrow /\ RefusalsLast]_vars
       /\ [](CountersHaveRoom /\ FreshAheadOfStore /\ DeferredLast)
    => []BookmarkSound
<1> DEFINE Kept == Remembers /\ HeadsGrow /\ RefusalsLast
           Env == CountersHaveRoom /\ FreshAheadOfStore /\ DeferredLast
           Inv == VersionInv /\ BookmarkInv
<1>1. Inv => BookmarkSound
  BY DEF BookmarkInv, BookmarkSound, MarkSound, Behind
<1>2. Inv /\ [Next]_vars /\ [Kept]_vars /\ Env /\ Env' => Inv'
  <2>1. CASE Kept
    BY <2>1, BookmarkStep DEF Step
  <2>2. CASE UNCHANGED vars
    BY <2>2, StutterKeeps, BookmarkStep DEF VersionInv, SafetyInv, Step
  <2> QED
    BY <2>1, <2>2
<1>3. Init => Inv
  BY VersionInit, BookmarkInit
<1> HIDE DEF Inv, Kept, Env
<1>4. Kept <=> Remembers /\ HeadsGrow /\ RefusalsLast
  BY DEF Kept
<1> QED
  BY <1>1, <1>2, <1>3, PTL DEF Spec, Kept, Env

---------------------------------------------------------------------------
(* Agreement. *)

\* Every node reads the feed of every other, has read it to the end, and refuses
\* nothing of it.
CaughtUp ==
  \A n, q \in Node : n # q =>
    q \in Peers(n) /\ \A m \in rows[q] : m.seq <= mark[n][q] /\ ~Refused(n, m)

\* A node that has caught up holds what its peer holds.
LEMMA CaughtUpHolds ==
  ASSUME SafetyInv, BookmarkSound, VersionsIdentifyWrites, CaughtUp,
         NEW n \in Node, NEW q \in Node, n # q, NEW m \in rows[q]
  PROVE  \E a \in rows[n] : Digest({a}) = Digest({m})
<1>1. TypeOK /\ FeedWellFormed
  BY DEF SafetyInv
<1>2. \A i, j \in Node : \A e \in rows[j] :
        i # j => \E a \in rows[i] : a.path = e.path /\ ~After(e.ver, a.ver)
  BY DEF CaughtUp, BookmarkSound, Accounted
<1>3. PICK a \in rows[n] : a.path = m.path /\ ~After(m.ver, a.ver)
  BY <1>2
<1>4. PICK b \in rows[q] : b.path = a.path /\ ~After(a.ver, b.ver)
  BY <1>2
<1>5. b = m
  BY <1>1, <1>3, <1>4 DEF FeedWellFormed, FeedOK
<1>6. a.ver \in Version /\ m.ver \in Version
  BY <1>1, Parts, VersionParts
<1>7. Equal(a.ver, m.ver)
  BY <1>3, <1>4, <1>5, <1>6, VersionOrder
<1> QED
  BY <1>3, <1>7 DEF VersionsIdentifyWrites

\* A digest of a table is made of the digests of its rows.
LEMMA DigestRows ==
  ASSUME NEW table, NEW other,
         \A m \in table : \E a \in other : Digest({a}) = Digest({m})
  PROVE  Digest(table) \subseteq Digest(other)
<1> DEFINE E(m) == [path |-> m.path, kind |-> m.kind, hash |-> m.hash, attr |-> m.attr,
                    ver |-> m.ver, deleted |-> m.deleted]
<1>1. \A t : Digest(t) = {E(m) : m \in t}
  BY DEF Digest
<1> HIDE DEF E
<1>2. \A m : Digest({m}) = {E(m)}
  BY <1>1
<1>3. ASSUME NEW m \in table PROVE E(m) \in Digest(other)
  <2>1. PICK a \in other : Digest({a}) = Digest({m})
    OBVIOUS
  <2>2. E(a) = E(m)
    BY <1>2, <2>1
  <2> QED
    BY <1>1, <2>2
<1> QED
  BY <1>1, <1>3

\* "The order is total and the cluster always converges", the half of it that is not
\* about time: nodes that have read each other's feeds to the end hold the same tree,
\* whatever they have been through, under the conditions of the theorems on
\* bookmarks and versions.
THEOREM ReplicationCaughtUpAgrees ==
  Spec /\ [][Remembers /\ HeadsGrow /\ RefusalsLast]_vars
       /\ [](CountersHaveRoom /\ FreshAheadOfStore /\ DeferredLast)
       /\ [](CountersHaveRoom /\ FreshAheadOfOwn)
    => [](CaughtUp => Agreed)
<1>1. SafetyInv /\ BookmarkSound /\ VersionsIdentifyWrites => (CaughtUp => Agreed)
  <2> SUFFICES ASSUME SafetyInv, BookmarkSound, VersionsIdentifyWrites, CaughtUp,
                      NEW n \in Node, NEW q \in Node
               PROVE  Digest(rows[n]) = Digest(rows[q])
    BY DEF Agreed
  <2>1. CASE n # q
    <3>1. Digest(rows[n]) \subseteq Digest(rows[q]) /\ Digest(rows[q]) \subseteq Digest(rows[n])
      BY <2>1, CaughtUpHolds, DigestRows
    <3> QED
      BY <3>1
  <2> QED
    BY <2>1
<1>2. SafetyInv /\ [Next]_vars => SafetyInv'
  BY SafetyStep DEF Step
<1>3. Spec => []SafetyInv
  BY <1>2, SafetyInit, PTL DEF Spec
<1> QED
  BY <1>1, <1>3, ReplicationBookmarkSound, ReplicationVersionsIdentifyWrites, PTL

---------------------------------------------------------------------------
(* No edit is lost. *)

\* A conflict name tells writes apart: W[p] is the content that p is the conflict
\* name of. It holds when a node writes no two contents to a path within one
\* reading of its wall clock, for the name leaves the counter out.
NamesTell(W) ==
  \A m \in Known : m.hash # NoHash => W[ConflictName(m.path, m.ver)] = m.hash

\* No conflict copy is about to be made over an earlier copy of the same row that
\* a user has edited since.
CopiesUnedited ==
  \A n, q \in Node : \A m \in pull[n][q].page :
    Decision(n, m) = "conflict" =>
      \A k \in rows[n] : k.path = CopyFor(n, m).path =>
        k.hash \in over \cup {NoHash, CopyFor(n, m).hash}

\* What an entry says of the contents before it: a tombstone holds none, what it
\* replaced was seen by a user, and a conflict name has the content it was made for
\* until a user, seeing that, replaces it.
Traced(W, replaced, m) ==
  /\ m.deleted => m.hash = NoHash
  /\ m.prev \in replaced \cup {NoHash, m.hash}
  /\ IsConflictName(m.path) => m.hash = W[m.path] \/ W[m.path] \in replaced

\* Every entry a node holds, has received or has prepared.
EntriesTraced(W) == \A m \in Known : Traced(W, over, m)

\* Whatever the batch will replace, the batch holds: at its own path or in the
\* conflict copy.
BatchKeeps(n, r) ==
  \A a \in rows[n], b \in r.batch : a.hash # NoHash /\ b.path = a.path =>
    \/ a.hash \in over
    \/ \E k \in r.batch : /\ k.hash = a.hash
                          /\ k.path \in {a.path, ConflictName(a.path, a.ver)}

\* Every pull's batch.
BatchesKeep == \A n, q \in Node : BatchKeeps(n, pull[n][q])

\* NoEditLost is about a commit too: between the decision and the commit the copy
\* of what is about to be replaced is in the batch alone.
EditInv(W) ==
  SafetyInv /\ OneHolder /\ EntriesTraced(W) /\ BatchesKeep /\ NoEditLost

\* A conflict name is a path of its own, and tells the path it was derived from.
LEMMA ConflictNameFacts ==
  ASSUME NEW p \in Path, NEW o \in Path, NEW v \in Version, NEW u \in Version
  PROVE  /\ IsConflictName(ConflictName(p, v)) /\ ConflictName(p, v) # p
         /\ ConflictName(p, v) = ConflictName(o, u) => p = o
<1> DEFINE S == [node : Node, wall : Nat]
           s(x) == [node |-> x.origin, wall |-> x.hlc.wall]
<1>1. s(v) \in S /\ s(u) \in S /\ p.suffix \in Seq(S) /\ o.suffix \in Seq(S)
  BY DEF Version, Timestamp, Path
<1>2. /\ ConflictName(p, v).suffix = Append(p.suffix, s(v))
      /\ ConflictName(o, u).suffix = Append(o.suffix, s(u))
      /\ ConflictName(p, v).name = p.name /\ ConflictName(o, u).name = o.name
  BY DEF ConflictName, Path
<1>3. ASSUME p.name = o.name, p.suffix = o.suffix PROVE p = o
  <2>1. \A x \in Path : x = [name |-> x.name, suffix |-> x.suffix]
    BY DEF Path
  <2> QED
    BY <1>3, <2>1
<1> HIDE DEF S, s
<1>4. /\ Append(p.suffix, s(v)) # << >>
      /\ Len(Append(p.suffix, s(v))) = Len(p.suffix) + 1 /\ Len(p.suffix) \in Nat
  BY <1>1, AppendProperties, LenProperties
<1>5. Append(p.suffix, s(v)) = Append(o.suffix, s(u)) => p.suffix = o.suffix
  <2>1. ASSUME NEW x \in Seq(S), NEW y \in Seq(S), NEW e \in S, NEW f \in S,
               Append(x, e) = Append(y, f)
        PROVE  x = y
    BY <2>1, AppendInjective
  <2> QED
    BY <1>1, <2>1, Zenon
<1>6. Append(p.suffix, s(v)) # p.suffix
  BY <1>4
<1> QED
  BY <1>2, <1>3, <1>4, <1>5, <1>6 DEF IsConflictName

\* A row is the only one of its path.
LEMMA OnlyRow ==
  ASSUME SafetyInv, NEW n \in Node, NEW a \in rows[n]
  PROVE  Get(rows[n], a.path) = a /\ HashAt(rows[n], a.path) = a.hash
<1>1. Have(rows[n], a.path)
  BY DEF Have
<1>2. Get(rows[n], a.path) \in rows[n] /\ Get(rows[n], a.path).path = a.path
  BY <1>1, GetFacts
<1>3. Get(rows[n], a.path) = a
  BY <1>2 DEF SafetyInv, FeedWellFormed, FeedOK
<1> QED
  BY <1>1, <1>3 DEF HashAt

\* Store.Apply drops only what the batch replaces.
LEMMA UpsertKeeps ==
  ASSUME NEW table \in SUBSET Meta, NEW batch \in SUBSET Meta, NEW base \in Nat
  PROVE  /\ \A a \in table : \/ a \in Upsert(table, batch, base)
                             \/ \E b \in batch : b.path = a.path
         /\ \A b \in batch : \E a \in Upsert(table, batch, base) : a.hash = b.hash
<1>1. \A a \in table : \/ a \in Upsert(table, batch, base)
                       \/ \E b \in batch : b.path = a.path
  BY DEF Upsert, Have
<1>2. ASSUME NEW b \in batch
      PROVE  \E a \in Upsert(table, batch, base) : a.hash = b.hash
  <2> DEFINE a == [b EXCEPT !.seq = base + @]
  <2>1. a \in Upsert(table, batch, base)
    BY DEF Upsert
  <2>2. a.hash = b.hash
    BY DEF Meta
  <2> QED
    BY <2>1, <2>2
<1> QED
  BY <1>1, <1>2

\* What an entry says stays true of it under any feed position, and when users
\* replace more.
LEMMA TracedStays ==
  ASSUME NEW W, NEW O, NEW P, O \subseteq P, NEW e, NEW k, Same(e, k), Traced(W, O, k)
  PROVE  Traced(W, P, e)
  BY DEF Traced, Same

\* Entries of a step are old ones, or traced themselves.
LEMMA TracedStep ==
  ASSUME NEW W, EntriesTraced(W), over \subseteq over',
         \A i \in Node : \A e \in rows'[i] : Descends(e) \/ Traced(W, over', e),
         \A i, j \in Node : \A e \in pull'[i][j].page \cup pull'[i][j].batch :
           Descends(e) \/ Traced(W, over', e)
  PROVE  EntriesTraced(W)'
<1> SUFFICES ASSUME NEW e \in Known' PROVE Traced(W, over', e)
  BY DEF EntriesTraced
<1>1. Descends(e) \/ Traced(W, over', e)
  BY KnownMember
<1>2. ASSUME NEW k \in Known, Same(e, k) PROVE Traced(W, over', e)
  BY <1>2, TracedStays DEF EntriesTraced
<1> QED
  BY <1>1, <1>2 DEF Descends

\* A content is lost only with the last row that holds it.
LEMMA NothingLost ==
  ASSUME NEW W, NoEditLost, EntriesTraced(W)', over \subseteq over',
         TypeOK',
         \A i \in Node : \A a \in rows[i] :
           a.hash \in over' \cup {NoHash} \/ \E b \in rows'[i] : b.hash = a.hash,
         \A c \in written' : c \in written \/ \E i \in Node : \E b \in rows'[i] : b.hash = c
  PROVE  NoEditLost'
<1> SUFFICES ASSUME NEW c \in written', c \notin over'
             PROVE  \E i \in Node : \E b \in Live(rows'[i]) : b.hash = c
  BY DEF NoEditLost
<1>1. c # NoHash
  BY StoreAssumption DEF TypeOK
<1>2. \E i \in Node : \E b \in rows'[i] : b.hash = c
  <2>1. CASE c \in written
    <3>1. PICK i \in Node : \E m \in Live(rows[i]) : m.hash = c
      BY <2>1 DEF NoEditLost
    <3>2. PICK m \in rows[i] : m.hash = c
      BY <3>1 DEF Live
    <3> QED
      BY <1>1, <3>2
  <2> QED
    BY <2>1
<1>3. PICK i \in Node : \E b \in rows'[i] : b.hash = c
  BY <1>2
<1>4. PICK b \in rows'[i] : b.hash = c
  BY <1>3
<1>5. b \in Known'
  BY KnownMember
<1>6. ~b.deleted
  BY <1>1, <1>4, <1>5 DEF EntriesTraced, Traced
<1> QED
  BY <1>4, <1>6 DEF Live

\* Where nobody holds Service.write no pull has a batch.
LEMMA LockFreeNoBatch ==
  ASSUME SafetyInv, NEW n \in Node, LockFree(n)
  PROVE  \A q \in Node : pull[n][q].batch = {}
  BY DEF SafetyInv, PullsOK, BatchOK, LockFree

\* A user writes one row over what the user sees at its path, and gets to a conflict
\* name only where there is one.
LEMMA UserRow ==
  ASSUME SafetyInv, NEW n \in Node, UserWrite(n)
  PROVE  \E m \in Meta, seen \in Sights :
           /\ LocalWrite(n, m, seen)
           /\ m.deleted => m.hash = NoHash
           /\ HashAt(rows[n], m.path) \in seen \cup {NoHash, m.hash}
           /\ m.prev \in {NoHash, HashAt(rows[n], m.path)}
           /\ IsConflictName(m.path) => Have(rows[n], m.path)
<1> DEFINE Row(m, seen) ==
             /\ LocalWrite(n, m, seen)
             /\ m.deleted => m.hash = NoHash
             /\ HashAt(rows[n], m.path) \in seen \cup {NoHash, m.hash}
             /\ m.prev \in {NoHash, HashAt(rows[n], m.path)}
             /\ IsConflictName(m.path) => Have(rows[n], m.path)
           Goal == \E m \in Meta, seen \in Sights : Row(m, seen)
<1>1. /\ rows[n] \in SUBSET Meta /\ UserPaths(n) \subseteq Path /\ Stamp(n) \in Version
      /\ physical(n) \in Nat
  BY Parts, UserPathsType, StampType DEF SafetyInv
<1>2. ASSUME NEW p \in UserPaths(n), IsConflictName(p) PROVE Have(rows[n], p)
  <2>1. \A a \in Name : ~IsConflictName(UserPath(a))
    BY DEF IsConflictName, UserPath
  <2> QED
    BY <1>2, <2>1 DEF UserPaths, Live, Have
<1>3. ASSUME NEW p \in UserPaths(n), NEW a \in Attr, NEW c \in Content,
             PutFile(n, p, c, a, {HashAt(rows[n], p)})
      PROVE  Goal
  <2> DEFINE m == [path |-> p, kind |-> "file", hash |-> c,
                   prev |-> HashAt(rows[n], p), attr |-> a, ver |-> Stamp(n),
                   deleted |-> FALSE, deletedAt |-> 0, seq |-> 0]
             seen == {HashAt(rows[n], p)}
  <2>1. /\ m \in Meta /\ m.path = p /\ m.hash = c /\ ~m.deleted
        /\ m.prev = HashAt(rows[n], p) /\ seen \in Sights
    BY <1>1, HashAtType DEF Meta, Sights
  <2>2. LocalWrite(n, m, seen)
    BY <1>3 DEF PutFile
  <2> HIDE DEF m
  <2>3. Row(m, seen)
    BY <1>2, <2>1, <2>2
  <2> QED
    BY <2>1, <2>3
<1>4. ASSUME NEW p \in UserPaths(n), NEW a \in Attr,
             PutDir(n, p, a, {HashAt(rows[n], p)})
      PROVE  Goal
  <2> DEFINE m == [path |-> p, kind |-> "dir", hash |-> NoHash,
                   prev |-> NoHash, attr |-> a, ver |-> Stamp(n),
                   deleted |-> FALSE, deletedAt |-> 0, seq |-> 0]
             seen == {HashAt(rows[n], p)}
  <2>1. /\ m \in Meta /\ m.path = p /\ m.hash = NoHash /\ m.prev = NoHash
        /\ seen \in Sights
    BY <1>1, HashAtType DEF Meta, Sights
  <2>2. LocalWrite(n, m, seen)
    BY <1>4 DEF PutDir
  <2> HIDE DEF m
  <2>3. Row(m, seen)
    BY <1>2, <2>1, <2>2
  <2> QED
    BY <2>1, <2>3
<1>5. ASSUME NEW cur \in rows[n], NEW a \in Attr, SetAttr(n, cur, a) PROVE Goal
  <2> DEFINE m == [cur EXCEPT !.attr = a, !.prev = cur.hash,
                              !.ver = Stamp(n), !.seq = 0]
  <2>1. /\ m \in Meta /\ m.path = cur.path /\ m.hash = cur.hash
        /\ m.prev = cur.hash /\ m.deleted = cur.deleted /\ {} \in Sights
    BY <1>1 DEF Meta, Sights
  <2>2. LocalWrite(n, m, {}) /\ ~cur.deleted
    BY <1>5 DEF SetAttr, Live
  <2> HIDE DEF m
  <2>3. HashAt(rows[n], m.path) = cur.hash /\ Have(rows[n], m.path)
    BY <2>1, OnlyRow DEF Have
  <2>4. Row(m, {})
    BY <2>1, <2>2, <2>3
  <2> QED
    BY <2>1, <2>4
<1>6. ASSUME NEW cur \in rows[n], Delete(n, cur, {cur.hash}) PROVE Goal
  <2> DEFINE m == [path |-> cur.path, kind |-> cur.kind, hash |-> NoHash,
                   prev |-> cur.hash, attr |-> cur.attr, ver |-> Stamp(n),
                   deleted |-> TRUE, deletedAt |-> physical(n), seq |-> 0]
             seen == {cur.hash}
  <2>1. /\ m \in Meta /\ m.path = cur.path /\ m.hash = NoHash
        /\ m.prev = cur.hash /\ seen \in Sights
    BY <1>1 DEF Meta, Sights
  <2>2. LocalWrite(n, m, seen)
    BY <1>6 DEF Delete
  <2> HIDE DEF m
  <2>3. HashAt(rows[n], m.path) = cur.hash /\ Have(rows[n], m.path)
    BY <2>1, OnlyRow DEF Have
  <2>4. Row(m, seen)
    BY <2>1, <2>2, <2>3
  <2> QED
    BY <2>1, <2>4
<1> HIDE DEF Goal
<1>7. Goal
  BY <1>3, <1>4, <1>5, <1>6 DEF UserWrite
<1> QED
  BY <1>7 DEF Goal

\* A user's write loses nothing the user has not seen.
LEMMA UserEdits ==
  ASSUME NEW W \in [Path -> Content], EditInv(W), SafetyInv', NEW n \in Node, UserWrite(n)
  PROVE  EditInv(W)'
<1>1. PICK m \in Meta, seen \in Sights :
           /\ LocalWrite(n, m, seen)
           /\ m.deleted => m.hash = NoHash
           /\ HashAt(rows[n], m.path) \in seen \cup {NoHash, m.hash}
           /\ m.prev \in {NoHash, HashAt(rows[n], m.path)}
           /\ IsConflictName(m.path) => Have(rows[n], m.path)
  BY UserRow DEF EditInv
<1>2. /\ SafetyInv /\ TypeOK /\ TypeOK' /\ rows[n] \in SUBSET Meta /\ head[n] \in Nat
      /\ rows \in [Node -> SUBSET Meta] /\ EntriesTraced(W)
  BY Parts DEF EditInv, SafetyInv, TypeOK
<1>3. LockFree(n) /\ pull' = pull /\ CommitLocal(n, m, seen)
  BY <1>1 DEF LocalWrite
<1>4. OneHolder'
  BY <1>3 DEF EditInv, OneHolder
<1>5. CASE UNCHANGED <<rows, written, over>>
  <2>1. EntriesTraced(W)'
    BY <1>2, <1>3, <1>5 DEF EntriesTraced, Known
  <2>2. BatchesKeep'
    BY <1>3, <1>5 DEF EditInv, BatchesKeep, BatchKeeps
  <2>3. NoEditLost'
    BY <1>5 DEF EditInv, NoEditLost
  <2> QED
    BY <1>4, <2>1, <2>2, <2>3 DEF EditInv
<1>6. CASE /\ rows' = [rows EXCEPT ![n] = Upsert(@, AppendRow({}, 0, m), head[n])]
           /\ written' = written \cup ({m.hash} \ {NoHash})
           /\ over' = over \cup (seen \ {NoHash, m.hash})
  <2> DEFINE B == AppendRow({}, 0, m)
  <2>1. B \in SUBSET Meta /\ \A b \in B : b.path = m.path /\ Same(b, m)
    <3>1. B \in SUBSET Meta /\ \A b \in B : Same(b, m)
      BY AppendRowFacts, AppendRowSame
    <3> QED
      BY <3>1 DEF Same
  <2>2. \E b \in B : b.hash = m.hash
    BY AppendRowKeeps
  <2>3. /\ rows'[n] = Upsert(rows[n], B, head[n])
        /\ \A i \in Node : i # n => rows'[i] = rows[i]
    BY <1>2, <1>6
  <2> HIDE DEF B
  <2>4. over \subseteq over'
    BY <1>6
  <2>5. Traced(W, over', m)
    <3>1. m.prev \in over' \cup {NoHash, m.hash}
      BY <1>1, <1>6
    <3>2. ASSUME IsConflictName(m.path) PROVE m.hash = W[m.path] \/ W[m.path] \in over'
      <4> DEFINE k == Get(rows[n], m.path)
      <4>1. k \in rows[n] /\ k.path = m.path /\ HashAt(rows[n], m.path) = k.hash
        BY <1>1, <3>2, GetFacts DEF HashAt
      <4>2. k \in Known
        BY <4>1, KnownMember
      <4> HIDE DEF k
      <4>3. k.hash = W[m.path] \/ W[m.path] \in over
        BY <1>2, <3>2, <4>1, <4>2 DEF EntriesTraced, Traced
      <4>4. W[m.path] # NoHash
        BY StoreAssumption DEF Meta
      <4> QED
        BY <1>1, <1>6, <4>1, <4>3, <4>4
    <3> QED
      BY <1>1, <3>1, <3>2 DEF Traced
  <2>6. \A e \in rows'[n] : e \in rows[n] \/ \E b \in B : Same(e, b)
    BY <1>2, <2>1, <2>3, UpsertSame
  <2>7. \A e \in rows'[n] : e \in rows[n] \/ Same(e, m)
    BY <2>1, <2>6, SameFacts
  <2>8. \A e \in rows'[n] : Descends(e) \/ Traced(W, over', e)
    BY <2>5, <2>7, Stays, TracedStays
  <2>9. EntriesTraced(W)'
    <3>1. \A i \in Node : \A e \in rows'[i] : Descends(e) \/ Traced(W, over', e)
      BY <2>3, <2>8, Stays
    <3>2. \A i, j \in Node : \A e \in pull'[i][j].page \cup pull'[i][j].batch :
            Descends(e) \/ Traced(W, over', e)
      BY <1>3, Stays
    <3> QED
      BY <1>2, <2>4, <3>1, <3>2, TracedStep
  <2>10. BatchesKeep'
    <3> SUFFICES ASSUME NEW i \in Node, NEW j \in Node PROVE BatchKeeps(i, pull[i][j])'
      BY DEF BatchesKeep
    <3>1. CASE i = n
      <4>1. pull[n][j].batch = {}
        BY <1>2, <1>3, LockFreeNoBatch
      <4> QED
        BY <1>3, <3>1, <4>1 DEF BatchKeeps
    <3>2. CASE i # n
      <4>1. rows'[i] = rows[i] /\ pull'[i][j] = pull[i][j] /\ BatchKeeps(i, pull[i][j])
        BY <1>3, <2>3, <3>2 DEF EditInv, BatchesKeep
      <4> QED
        BY <2>4, <4>1 DEF BatchKeeps
    <3> QED
      BY <3>1, <3>2
  <2>11. \E b \in rows'[n] : b.hash = m.hash
    BY <1>2, <2>1, <2>2, <2>3, UpsertKeeps
  <2>12. ASSUME NEW a \in rows[n]
         PROVE  a.hash \in over' \cup {NoHash} \/ \E b \in rows'[n] : b.hash = a.hash
    <3>1. CASE a \in rows'[n]
      BY <3>1
    <3>2. CASE a.path = m.path
      <4>1. a.hash \in seen \cup {NoHash, m.hash}
        BY <1>1, <1>2, <3>2, OnlyRow
      <4> QED
        BY <1>6, <2>11, <4>1
    <3> QED
      BY <1>2, <2>1, <2>3, <3>1, <3>2, UpsertKeeps
  <2>13. NoEditLost'
    <3>1. \A i \in Node : \A a \in rows[i] :
            a.hash \in over' \cup {NoHash} \/ \E b \in rows'[i] : b.hash = a.hash
      BY <2>3, <2>12
    <3>2. \A c \in written' : c \in written \/ \E i \in Node : \E b \in rows'[i] : b.hash = c
      BY <1>6, <2>11
    <3> QED
      BY <1>2, <2>4, <2>9, <3>1, <3>2, NothingLost DEF EditInv
  <2> QED
    BY <1>4, <2>9, <2>10, <2>13 DEF EditInv
<1> QED
  BY <1>3, <1>5, <1>6 DEF CommitLocal

\* A step of one pull that stores nothing.
LEMMA PullEdits ==
  ASSUME NEW W \in [Path -> Content], EditInv(W), SafetyInv',
         NEW n \in Node, NEW q \in Node, NEW r \in Pull, SetPull(n, q, r),
         UNCHANGED <<rows, written, over>>,
         r.pc = "apply" => pull[n][q].pc = "apply" \/ LockFree(n),
         \A e \in r.page \cup r.batch : Descends(e) \/ Traced(W, over, e),
         BatchKeeps(n, r)
  PROVE  EditInv(W)'
<1>1. /\ TypeOK /\ pull'[n][q] = r
      /\ \A i, j \in Node : i # n \/ j # q => pull'[i][j] = pull[i][j]
  BY SetPullType DEF EditInv, SafetyInv
<1>2. OneHolder'
  BY <1>1 DEF EditInv, OneHolder, LockFree
<1>3. EntriesTraced(W)'
  <2>1. \A i \in Node : \A e \in rows'[i] : Descends(e)
    BY Stays
  <2>2. \A i, j \in Node : \A e \in pull'[i][j].page \cup pull'[i][j].batch :
          Descends(e) \/ Traced(W, over', e)
    BY <1>1, Stays
  <2> QED
    BY <2>1, <2>2, TracedStep DEF EditInv
<1>4. BatchesKeep'
  BY <1>1 DEF EditInv, BatchesKeep, BatchKeeps
<1>5. NoEditLost'
  BY DEF EditInv, NoEditLost
<1> QED
  BY <1>2, <1>3, <1>4, <1>5 DEF EditInv

\* The steps of a pull outside applyRemote.
LEMMA FetchEdits ==
  ASSUME NEW W \in [Path -> Content], EditInv(W), SafetyInv', NEW n \in Node, NEW q \in Node,
         \/ FetchDigest(n, q) \/ CompareDigest(n, q) \/ FetchPage(n, q)
         \/ LockWrite(n, q) \/ RecordBookmark(n, q) \/ AbortPull(n, q)
  PROVE  EditInv(W)'
<1>1. SafetyInv /\ TypeOK
  BY DEF EditInv, SafetyInv
<1>2. PICK r \in Pull : /\ SetPull(n, q, r) /\ rows' = rows
                       /\ r.batch = {} /\ (r.pc = "apply" => LockFree(n))
  BY <1>1, FetchBatch
<1>3. PICK x \in Pull : /\ SetPull(n, q, x)
                       /\ x.page \subseteq pull[n][q].page \cup rows[q]
  BY <1>1, FetchEffect
<1>4. x = r
  BY <1>1, <1>2, <1>3, SetPullType
<1>5. \A e \in r.page \cup r.batch : Descends(e)
  BY <1>2, <1>3, <1>4, Stays
<1>6. UNCHANGED <<written, over>>
  BY DEF FetchDigest, CompareDigest, FetchPage, LockWrite, RecordBookmark, AbortPull, history
<1>7. BatchKeeps(n, r)
  BY <1>2 DEF BatchKeeps
<1> QED
  BY <1>2, <1>5, <1>6, <1>7, PullEdits

\* The conflict copy has the content of the row that loses, under its conflict name.
LEMMA CopyTraced ==
  ASSUME NEW W \in [Path -> Content], EditInv(W), NamesTell(W),
         NEW n \in Node, NEW m \in Meta, Decision(n, m) = "conflict"
  PROVE  \E a \in rows[n] :
           /\ a.path = m.path /\ a.hash # NoHash /\ CopyFor(n, m).hash = a.hash
           /\ CopyFor(n, m).path = ConflictName(a.path, a.ver)
           /\ Traced(W, over, CopyFor(n, m))
<1> DEFINE a == Get(rows[n], m.path)
           c == CopyFor(n, m)
<1>1. TypeOK /\ SafetyInv
  BY DEF EditInv, SafetyInv
<1>2. a \in rows[n] /\ a.path = m.path /\ c.hash = a.hash /\ c.deleted = a.deleted
  BY <1>1, CopyFacts
<1>3. a \in Meta /\ a \in Known
  BY <1>1, <1>2, Parts, KnownMember
<1>4. a.hash # NoHash
  BY <1>2 DEF Decision, resolve
<1>5. c.path = ConflictName(a.path, a.ver) /\ c.prev = NoHash
  <2>1. c = conflictCopy(n, a, ClockAfter(n, m))
    BY DEF CopyFor
  <2> HIDE DEF a, c
  <2> QED
    BY <1>3, <2>1 DEF conflictCopy, Meta
<1> HIDE DEF a, c
<1>6. W[c.path] = c.hash
  BY <1>2, <1>3, <1>4, <1>5 DEF NamesTell
<1>7. a.deleted => a.hash = NoHash
  BY <1>3 DEF EditInv, EntriesTraced, Traced
<1>8. Traced(W, over, c)
  BY <1>2, <1>5, <1>6, <1>7 DEF Traced
<1> QED
  BY <1>2, <1>4, <1>5, <1>8 DEF c

\* The batch with the conflict copy, if one is made, still keeps what it replaces,
\* and the row in dispute too.
LEMMA CopyEdits ==
  ASSUME NEW W \in [Path -> Content], EditInv(W), NamesTell(W), CopiesUnedited,
         NEW n \in Node, NEW q \in Node, NEW m \in pull[n][q].page, Decision(n, m) # "skip"
  PROVE  LET w == WithCopy(n, pull[n][q], m)
         IN  /\ BatchKeeps(n, w)
             /\ \A e \in w.batch : Descends(e) \/ Traced(W, over, e)
             /\ \A a \in rows[n] : a.path = m.path =>
                  \/ a.hash \in over \cup {NoHash, m.hash}
                  \/ \E k \in w.batch : /\ k.hash = a.hash
                                        /\ k.path = ConflictName(a.path, a.ver)
<1> DEFINE r0 == pull[n][q]
           w == WithCopy(n, r0, m)
           c == CopyFor(n, m)
<1>1. /\ TypeOK /\ SafetyInv /\ r0 \in Pull /\ m \in Meta /\ m \in Known
      /\ r0.batch \in SUBSET Meta /\ r0.count \in Nat /\ rows[n] \in SUBSET Meta
      /\ BatchKeeps(n, r0) /\ EntriesTraced(W)
  <2>1. TypeOK /\ SafetyInv
    BY DEF EditInv, SafetyInv
  <2>2. r0 \in Pull /\ rows[n] \in SUBSET Meta
    BY <2>1, Parts
  <2>3. m \in Known
    BY KnownMember
  <2> QED
    BY <2>1, <2>2, <2>3 DEF Pull, EditInv, BatchesKeep
<1>2. \A e \in r0.batch : Descends(e)
  BY Stays
<1>3. ASSUME Decision(n, m) # "conflict", NEW a \in rows[n], a.path = m.path
      PROVE  a.hash \in over \cup {NoHash, m.hash}
  <2>1. Get(rows[n], m.path) = a /\ Have(rows[n], m.path)
    BY <1>1, <1>3, OnlyRow DEF Have
  <2>2. a.deleted \/ a.hash = NoHash \/ m.prev = a.hash \/ m.hash = a.hash
    BY <1>3, <2>1 DEF Decision, resolve
  <2>3. a \in Known
    BY KnownMember
  <2>4. a.deleted => a.hash = NoHash
    BY <1>1, <2>3 DEF EntriesTraced, Traced
  <2>5. m.prev \in over \cup {NoHash, m.hash}
    BY <1>1 DEF EntriesTraced, Traced
  <2> QED
    BY <2>2, <2>4, <2>5
<1>4. CASE Decision(n, m) # "conflict"
  <2>1. w = r0
    BY <1>4 DEF WithCopy
  <2> QED
    BY <1>1, <1>2, <1>3, <1>4, <2>1
<1>5. CASE Decision(n, m) = "conflict"
  <2>1. PICK a \in rows[n] : /\ a.path = m.path /\ a.hash # NoHash /\ c.hash = a.hash
                             /\ c.path = ConflictName(a.path, a.ver)
                             /\ Traced(W, over, c)
    BY <1>1, <1>5, CopyTraced
  <2>2. c \in Meta /\ w.batch = AppendRow(r0.batch, r0.count, c)
    BY <1>1, <1>5, CopyFacts, AddRowFacts DEF WithCopy, CopyFor
  <2>3. \A k \in rows[n] : k.path = c.path => k.hash \in over \cup {NoHash, c.hash}
    BY <1>5 DEF CopiesUnedited
  <2> HIDE DEF c, w
  <2>4. \A b \in w.batch : (b \in r0.batch /\ b.path # c.path) \/ (b.path = c.path /\ Same(b, c))
    <3>1. \A b \in w.batch : \/ b \in r0.batch /\ b.path # c.path
                             \/ b = [c EXCEPT !.seq = r0.count + 1]
      BY <1>1, <2>2, AppendRowFacts
    <3>2. Same([c EXCEPT !.seq = r0.count + 1], c)
      BY <2>2, RestampSame
    <3> QED
      BY <3>1, <3>2 DEF Same
  <2>5. /\ \E b \in w.batch : b.path = c.path /\ b.hash = c.hash
        /\ \A b \in r0.batch : b.path # c.path => b \in w.batch
    BY <1>1, <2>2, AppendRowKeeps
  <2>6. ASSUME NEW x \in rows[n], NEW b \in w.batch, x.hash # NoHash, b.path = x.path,
               x.hash \notin over
        PROVE  \E k \in w.batch : k.hash = x.hash /\ k.path \in {x.path, ConflictName(x.path, x.ver)}
    <3>1. CASE x.path = c.path
      BY <2>3, <2>5, <2>6, <3>1
    <3>2. CASE x.path # c.path
      <4>1. b \in r0.batch
        BY <2>4, <2>6, <3>2
      <4>2. PICK k \in r0.batch : k.hash = x.hash /\ k.path \in {x.path, ConflictName(x.path, x.ver)}
        BY <1>1, <2>6, <4>1 DEF BatchKeeps
      <4>3. CASE k.path # c.path
        BY <2>5, <4>2, <4>3
      <4>4. CASE k.path = c.path
        <5>1. ConflictName(x.path, x.ver) = ConflictName(a.path, a.ver)
          BY <2>1, <3>2, <4>2, <4>4
        <5>2. /\ x.path \in Path /\ a.path \in Path /\ x.ver \in Version /\ a.ver \in Version
          BY <1>1, VersionParts
        <5>3. x.path = a.path
          BY <5>1, <5>2, ConflictNameFacts
        <5>4. x = a
          BY <1>1, <5>3 DEF SafetyInv, FeedWellFormed, FeedOK
        <5> QED
          BY <2>1, <2>5, <5>4
      <4> QED
        BY <4>3, <4>4
    <3> QED
      BY <3>1, <3>2
  <2>7. BatchKeeps(n, w)
    BY <2>6 DEF BatchKeeps
  <2>8. \A e \in w.batch : Descends(e) \/ Traced(W, over, e)
    BY <1>2, <2>1, <2>4, TracedStays
  <2>9. \A x \in rows[n] : x.path = m.path => x = a
    BY <1>1, <2>1 DEF SafetyInv, FeedWellFormed, FeedOK
  <2>10. \E k \in w.batch : k.hash = a.hash /\ k.path = ConflictName(a.path, a.ver)
    BY <2>1, <2>5
  <2> QED
    BY <2>7, <2>8, <2>9, <2>10 DEF w
<1> QED
  BY <1>4, <1>5

\* A remote entry that wins replaces, in the store or in the batch, only what the
\* batch keeps or what its writer saw.
LEMMA TakeKeeps ==
  ASSUME NEW W \in [Path -> Content], EditInv(W), NamesTell(W),
         NEW n \in Node, NEW m \in Known, NEW batch \in SUBSET Meta, NEW count \in Nat,
         NEW r, r.batch = AppendRow(batch, count, m),
         NEW w, w.batch = batch, BatchKeeps(n, w),
         \A a \in rows[n] : a.path = m.path =>
           \/ a.hash \in over \cup {NoHash, m.hash}
           \/ \E k \in batch : k.hash = a.hash /\ k.path = ConflictName(a.path, a.ver)
  PROVE  BatchKeeps(n, r)
<1> SUFFICES ASSUME NEW a \in rows[n], NEW b \in r.batch, a.hash # NoHash, b.path = a.path,
                    a.hash \notin over
             PROVE  \E k \in r.batch : /\ k.hash = a.hash
                                       /\ k.path \in {a.path, ConflictName(a.path, a.ver)}
  BY DEF BatchKeeps
<1>1. TypeOK /\ SafetyInv
  BY DEF EditInv, SafetyInv
<1>2. m \in Meta /\ a \in Meta /\ a \in Known
  BY <1>1, KnownType, Parts, KnownMember
<1>3. /\ \E k \in r.batch : k.path = m.path /\ k.hash = m.hash
      /\ \A k \in batch : k.path # m.path => k \in r.batch
      /\ \A k \in r.batch : k \in batch \/ k.path = m.path
  BY <1>2, AppendRowKeeps, AppendRowFacts
<1>4. /\ IsConflictName(ConflictName(a.path, a.ver)) /\ ConflictName(a.path, a.ver) # a.path
  BY <1>2, VersionParts, ConflictNameFacts
<1>5. CASE a.path = m.path
  <2>1. CASE a.hash = m.hash
    BY <1>3, <1>5, <2>1
  <2>2. CASE \E k \in batch : k.hash = a.hash /\ k.path = ConflictName(a.path, a.ver)
    BY <1>3, <1>4, <1>5, <2>2
  <2> QED
    BY <1>5, <2>1, <2>2
<1>6. CASE a.path # m.path
  <2>1. PICK k \in batch : k.hash = a.hash /\ k.path \in {a.path, ConflictName(a.path, a.ver)}
    BY <1>3, <1>6 DEF BatchKeeps
  <2>2. CASE k.path # m.path
    BY <1>3, <2>1, <2>2
  <2>3. CASE k.path = m.path
    <3>1. m.path = ConflictName(a.path, a.ver)
      BY <1>6, <2>1, <2>3
    <3>2. m.hash = W[m.path] \/ W[m.path] \in over
      BY <1>4, <3>1 DEF EditInv, EntriesTraced, Traced
    <3>3. W[m.path] = a.hash
      BY <1>2, <3>1 DEF NamesTell
    <3> QED
      BY <1>3, <3>1, <3>2, <3>3
  <2> QED
    BY <2>2, <2>3
<1> QED
  BY <1>5, <1>6

\* One round of applyRemote's loop.
LEMMA ApplyEdits ==
  ASSUME NEW W \in [Path -> Content], EditInv(W), SafetyInv', NamesTell(W), CopiesUnedited,
         NEW n \in Node, NEW q \in Node, ApplyEntry(n, q)
  PROVE  EditInv(W)'
<1> DEFINE r0 == pull[n][q]
<1>1. TypeOK /\ r0 \in Pull /\ r0.page \in SUBSET Meta
  <2>1. TypeOK
    BY DEF EditInv, SafetyInv
  <2> QED
    BY <2>1, Parts DEF Pull
<1>2. PICK m \in r0.page : \/ RejectEntry(n, q, m) \/ SkipEntry(n, q, m)
                           \/ TakeEntry(n, q, m) \/ DeferEntry(n, q, m)
  BY DEF ApplyEntry
<1>3. /\ m \in Meta /\ r0.pc = "apply" /\ UNCHANGED <<rows, written, over>>
  BY <1>1, <1>2 DEF RejectEntry, SkipEntry, TakeEntry, DeferEntry, Admitted,
                    NextEntry, store, history
<1>4. m \in Known /\ Descends(m)
  BY KnownMember, Stays
<1>5. \A e \in r0.page \cup r0.batch : Descends(e)
  BY Stays
<1>6. ASSUME NEW x \in Pull
      PROVE  Advance(x, m).page = x.page \ {m}
             /\ [Past(x, m) EXCEPT !.deferred = TRUE].page = x.page \ {m}
  BY <1>3 DEF Advance, Past, Pull
<1>7. ASSUME NEW r \in Pull, SetPull(n, q, r), r.page = r0.page \ {m}, BatchKeeps(n, r),
             \A e \in r.batch : Descends(e) \/ Traced(W, over, e)
      PROVE  EditInv(W)'
  <2>1. \A e \in r.page \cup r.batch : Descends(e) \/ Traced(W, over, e)
    BY <1>5, <1>7
  <2> QED
    BY <1>3, <1>7, <2>1, PullEdits
<1>8. CASE RejectEntry(n, q, m) \/ SkipEntry(n, q, m)
  <2> DEFINE r == Advance(r0, m)
  <2>1. r \in Pull /\ r.batch = r0.batch /\ r.page = r0.page \ {m}
    BY <1>1, <1>3, <1>6, AdvanceFacts
  <2>2. SetPull(n, q, r)
    BY <1>8 DEF RejectEntry, SkipEntry
  <2> HIDE DEF r
  <2>3. BatchKeeps(n, r)
    BY <2>1 DEF EditInv, BatchesKeep, BatchKeeps
  <2> QED
    BY <1>5, <1>7, <2>1, <2>2, <2>3
<1> DEFINE w == WithCopy(n, r0, m)
<1>9. w \in Pull /\ w.page = r0.page
  BY <1>1, <1>3, WithCopyBatch
<1>10. ASSUME Decision(n, m) # "skip"
       PROVE  /\ BatchKeeps(n, w)
              /\ \A e \in w.batch : Descends(e) \/ Traced(W, over, e)
              /\ \A a \in rows[n] : a.path = m.path =>
                   \/ a.hash \in over \cup {NoHash, m.hash}
                   \/ \E k \in w.batch : /\ k.hash = a.hash
                                         /\ k.path = ConflictName(a.path, a.ver)
  BY <1>10, CopyEdits
<1>11. CASE TakeEntry(n, q, m)
  <2> DEFINE r == Advance(AddRow(w, m), m)
  <2>1. SetPull(n, q, r) /\ Decision(n, m) # "skip"
    BY <1>11 DEF TakeEntry
  <2> HIDE DEF w
  <2>2. w.batch \in SUBSET Meta /\ w.count \in Nat
    BY <1>9 DEF Pull
  <2>3. AddRow(w, m) \in Pull /\ AddRow(w, m).batch = AppendRow(w.batch, w.count, m)
    BY <1>3, <1>9, AddRowFacts
  <2>4. AddRow(w, m).page = w.page
    BY <1>9 DEF AddRow, Pull
  <2>5. /\ r \in Pull /\ r.page = r0.page \ {m}
        /\ r.batch = AppendRow(w.batch, w.count, m)
    BY <1>3, <1>6, <1>9, <2>3, <2>4, AdvanceFacts
  <2> HIDE DEF r
  <2>6. \A e \in r.batch : e \in w.batch \/ Same(e, m)
    BY <1>3, <2>2, <2>5, AppendRowSame
  <2>7. \A e \in r.batch : Descends(e) \/ Traced(W, over, e)
    BY <1>4, <1>10, <2>1, <2>6, SameFacts
  <2>8. BatchKeeps(n, r)
    BY <1>4, <1>10, <2>1, <2>2, <2>5, TakeKeeps
  <2> QED
    BY <1>7, <2>1, <2>5, <2>7, <2>8
<1>12. CASE DeferEntry(n, q, m)
  <2> DEFINE r == [Past(w, m) EXCEPT !.deferred = TRUE]
  <2>1. SetPull(n, q, r) /\ Decision(n, m) # "skip"
    BY <1>12 DEF DeferEntry
  <2> HIDE DEF w
  <2>2. r \in Pull /\ r.page = r0.page \ {m} /\ r.batch = w.batch
    BY <1>3, <1>6, <1>9, AdvanceFacts
  <2> HIDE DEF r
  <2>3. BatchKeeps(n, r)
    BY <1>10, <2>1, <2>2 DEF BatchKeeps
  <2> QED
    BY <1>7, <1>10, <2>1, <2>2, <2>3
<1> QED
  BY <1>2, <1>8, <1>11, <1>12

\* Committing a page puts into the store what the batch kept.
LEMMA CommitEdits ==
  ASSUME NEW W \in [Path -> Content], EditInv(W), SafetyInv', NEW n \in Node, NEW q \in Node,
         CommitPage(n, q)
  PROVE  EditInv(W)'
<1> DEFINE r0 == pull[n][q]
           r == [r0 EXCEPT !.pc = "mark", !.batch = {}, !.count = 0]
<1>1. TypeOK /\ TypeOK' /\ SafetyInv /\ EntriesTraced(W)
  BY DEF EditInv, SafetyInv
<1>2. /\ r0 \in Pull /\ rows[n] \in SUBSET Meta /\ head[n] \in Nat
      /\ rows \in [Node -> SUBSET Meta]
  BY <1>1, Parts DEF TypeOK
<1>3. /\ r \in Pull /\ r.page = r0.page /\ r.batch = {} /\ r.pc = "mark"
      /\ r0.batch \in SUBSET Meta
  BY <1>2 DEF Pull
<1>4. SetPull(n, q, r) /\ UNCHANGED <<written, over>> /\ r0.pc = "apply"
  BY DEF CommitPage, history
<1>5. /\ rows'[n] = Upsert(rows[n], r0.batch, head[n])
      /\ \A i \in Node : i # n => rows'[i] = rows[i]
  BY <1>2 DEF CommitPage
<1> HIDE DEF r
<1>6. /\ pull'[n][q] = r
      /\ \A i, j \in Node : i # n \/ j # q => pull'[i][j] = pull[i][j]
  BY <1>1, <1>3, <1>4, SetPullType
<1>7. OneHolder'
  BY <1>3, <1>6 DEF EditInv, OneHolder
<1>8. EntriesTraced(W)'
  <2>1. \A e \in rows'[n] : e \in rows[n] \/ \E b \in r0.batch : Same(e, b)
    BY <1>2, <1>3, <1>5, UpsertSame
  <2>2. \A e \in rows'[n] : Descends(e)
    BY <2>1, Stays, SameFacts
  <2>3. \A i \in Node : \A e \in rows'[i] : Descends(e)
    BY <1>5, <2>2, Stays
  <2>4. \A i, j \in Node : \A e \in pull'[i][j].page \cup pull'[i][j].batch : Descends(e)
    BY <1>3, <1>6, Stays
  <2> QED
    BY <1>1, <1>4, <2>3, <2>4, TracedStep
<1>9. BatchesKeep'
  <2> SUFFICES ASSUME NEW i \in Node, NEW j \in Node PROVE BatchKeeps(i, pull[i][j])'
    BY DEF BatchesKeep
  <2>1. CASE i = n
    <3>1. j # q => pull[n][j].pc # "apply"
      BY <1>4 DEF EditInv, OneHolder
    <3>2. j # q => pull[n][j].batch = {}
      BY <1>1, <3>1 DEF SafetyInv, PullsOK, BatchOK
    <3>3. pull'[n][j].batch = {}
      BY <1>3, <1>6, <3>2
    <3> QED
      BY <2>1, <3>3 DEF BatchKeeps
  <2>2. CASE i # n
    <3>1. rows'[i] = rows[i] /\ pull'[i][j] = pull[i][j] /\ BatchKeeps(i, pull[i][j])
      BY <1>5, <1>6, <2>2 DEF EditInv, BatchesKeep
    <3> QED
      BY <1>4, <3>1 DEF BatchKeeps
  <2> QED
    BY <2>1, <2>2
<1>10. NoEditLost'
  <2>1. ASSUME NEW a \in rows[n]
        PROVE  a.hash \in over' \cup {NoHash} \/ \E b \in rows'[n] : b.hash = a.hash
    <3>1. \A k \in r0.batch : \E b \in rows'[n] : b.hash = k.hash
      BY <1>2, <1>3, <1>5, UpsertKeeps
    <3>2. a \in rows'[n] \/ \E b \in r0.batch : b.path = a.path
      BY <1>2, <1>3, <1>5, UpsertKeeps
    <3>3. CASE a.hash # NoHash /\ \E b \in r0.batch : b.path = a.path
      <4>1. a.hash \in over \/ \E k \in r0.batch : k.hash = a.hash
        BY <3>3 DEF EditInv, BatchesKeep, BatchKeeps
      <4> QED
        BY <1>4, <3>1, <4>1
    <3> QED
      BY <3>2, <3>3
  <2>2. \A i \in Node : \A a \in rows[i] :
          a.hash \in over' \cup {NoHash} \/ \E b \in rows'[i] : b.hash = a.hash
    BY <1>5, <2>1
  <2> QED
    BY <1>1, <1>4, <1>8, <2>2, NothingLost DEF EditInv
<1> QED
  BY <1>7, <1>8, <1>9, <1>10 DEF EditInv

\* The janitor drops tombstones only, a restart batches only, and a database that
\* is lost was empty.
LEMMA NodeEdits ==
  ASSUME NEW W \in [Path -> Content], EditInv(W), SafetyInv', HeadsGrow, NEW n \in Node,
         Collect(n) \/ Restart(n) \/ Wipe(n)
  PROVE  EditInv(W)'
<1>1. TypeOK /\ TypeOK' /\ SafetyInv /\ EntriesTraced(W)
  BY DEF EditInv, SafetyInv
<1>2. /\ rows \in [Node -> SUBSET Meta] /\ head \in [Node -> Nat]
      /\ pull \in [Node -> [Node -> Pull]] /\ UNCHANGED <<written, over>>
  BY <1>1 DEF TypeOK, Collect, Restart, Wipe
<1>3. \A i, j \in Node : pull'[i][j] = pull[i][j] \/ pull'[i][j] = Idle
  BY <1>2 DEF Collect, Restart, Wipe
<1>4. Idle.page = {} /\ Idle.batch = {} /\ Idle.pc = "idle"
  BY DEF Idle
<1>5. ASSUME NEW i \in Node
      PROVE  rows'[i] \subseteq rows[i] /\ \A a \in rows[i] : a \in rows'[i] \/ a.deleted
  <2>1. CASE Collect(n)
    BY <1>2, <2>1 DEF Collect, Expired
  <2>2. CASE Restart(n)
    BY <2>2 DEF Restart, store
  <2>3. CASE Wipe(n)
    <3>1. rows' = [rows EXCEPT ![n] = {}] /\ head' = [head EXCEPT ![n] = 0]
      BY <2>3 DEF Wipe
    <3>2. head[n] = 0
      BY <1>2, <3>1 DEF HeadsGrow
    <3>3. \A a \in rows[n] : a.seq \in 1 .. 0
      BY <1>1, <3>2 DEF SafetyInv, FeedWellFormed, FeedOK
    <3>4. rows[n] = {}
      BY <3>3
    <3> QED
      BY <1>2, <3>1, <3>4
  <2> QED
    BY <2>1, <2>2, <2>3
<1>6. OneHolder'
  BY <1>3, <1>4 DEF EditInv, OneHolder
<1>7. EntriesTraced(W)'
  <2>1. \A i \in Node : \A e \in rows'[i] : Descends(e)
    BY <1>5, Stays
  <2>2. \A i, j \in Node : \A e \in pull'[i][j].page \cup pull'[i][j].batch : Descends(e)
    BY <1>3, <1>4, Stays
  <2> QED
    BY <1>1, <1>2, <2>1, <2>2, TracedStep
<1>8. BatchesKeep'
  <2> SUFFICES ASSUME NEW i \in Node, NEW j \in Node PROVE BatchKeeps(i, pull[i][j])'
    BY DEF BatchesKeep
  <2>1. CASE pull'[i][j] = Idle
    BY <1>4, <2>1 DEF BatchKeeps
  <2>2. CASE pull'[i][j] = pull[i][j]
    <3>1. BatchKeeps(i, pull[i][j])
      BY DEF EditInv, BatchesKeep
    <3> QED
      BY <1>2, <1>5, <2>2, <3>1 DEF BatchKeeps
  <2> QED
    BY <1>3, <2>1, <2>2
<1>9. NoEditLost'
  <2>1. ASSUME NEW i \in Node, NEW a \in rows[i]
        PROVE  a.hash \in over' \cup {NoHash} \/ \E b \in rows'[i] : b.hash = a.hash
    <3>1. a.deleted => a.hash = NoHash
      BY <1>1, KnownMember DEF EntriesTraced, Traced
    <3> QED
      BY <1>5, <3>1
  <2> QED
    BY <1>1, <1>2, <1>7, <2>1, NothingLost DEF EditInv
<1> QED
  BY <1>6, <1>7, <1>8, <1>9 DEF EditInv

\* Every step.
LEMMA EditStep ==
  ASSUME NEW W \in [Path -> Content], EditInv(W), NamesTell(W), CopiesUnedited, HeadsGrow,
         [Next]_vars
  PROVE  EditInv(W)'
<1>1. SafetyInv'
  BY SafetyStep DEF EditInv, Step
<1>2. CASE UNCHANGED <<rows, pull, written, over>>
  <2>1. EntriesTraced(W)'
    BY <1>2 DEF EditInv, EntriesTraced, Known
  <2>2. OneHolder' /\ BatchesKeep'
    BY <1>2 DEF EditInv, OneHolder, BatchesKeep, BatchKeeps
  <2>3. NoEditLost'
    BY <1>2 DEF EditInv, NoEditLost
  <2> QED
    BY <1>1, <2>1, <2>2, <2>3 DEF EditInv
<1>3. ASSUME NEW n \in Writer, UserWrite(n) PROVE EditInv(W)'
  <2>1. n \in Node
    BY ReplicationAssumption
  <2> QED
    BY <1>1, <1>3, <2>1, UserEdits
<1>4. ASSUME NEW n \in Node, NEW q \in Peers(n),
             PullStep(n, q) \/ LockWrite(n, q) \/ AbortPull(n, q)
      PROVE  EditInv(W)'
  <2>1. q \in Node
    BY DEF Peers
  <2> QED
    BY <1>1, <1>4, <2>1, FetchEdits, ApplyEdits, CommitEdits DEF PullStep
<1>5. ASSUME NEW n \in Node, Collect(n) \/ Restart(n) \/ Wipe(n) PROVE EditInv(W)'
  BY <1>1, <1>5, NodeEdits
<1>6. CASE Tick
  BY <1>2, <1>6 DEF Tick, store, history
<1>7. CASE UNCHANGED vars
  BY <1>2, <1>7 DEF vars
<1> QED
  BY <1>3, <1>4, <1>5, <1>6, <1>7 DEF Next

\* Nothing is written at first.
LEMMA EditInit ==
  ASSUME NEW W \in [Path -> Content], Init
  PROVE  EditInv(W)
<1>1. Idle.page = {} /\ Idle.batch = {} /\ Idle.pc = "idle"
  BY DEF Idle
<1>2. Known = {}
  BY <1>1, KnownMember DEF Init
<1>3. OneHolder /\ BatchesKeep /\ NoEditLost
  BY <1>1 DEF Init, OneHolder, BatchesKeep, BatchKeeps, NoEditLost
<1> QED
  BY <1>2, <1>3, SafetyInit DEF EditInv, EntriesTraced

\* "A genuinely concurrent edit does not silently lose one side": a content that a
\* user wrote stays a live file of some node until a user, seeing it, replaces or
\* deletes it, however pulls, conflicts, failures, restarts and collections
\* interleave and whatever the clocks show. This needs what the program leaves to
\* chance and to its operators: that conflict names tell writes apart, that no
\* conflict is decided a second time over a copy edited since, and that no
\* database is lost.
THEOREM ReplicationNoEditLost ==
  ASSUME NEW W \in [Path -> Content]
  PROVE  Spec /\ [][HeadsGrow]_vars /\ [](NamesTell(W) /\ CopiesUnedited) => []NoEditLost
<1> DEFINE Env == NamesTell(W) /\ CopiesUnedited
           Inv == EditInv(W)
<1>1. Inv => NoEditLost
  BY DEF EditInv
<1>2. Inv /\ [Next]_vars /\ [HeadsGrow]_vars /\ Env => Inv'
  <2>1. CASE HeadsGrow
    BY <2>1, EditStep
  <2>2. CASE UNCHANGED vars
    <3>1. EditInv(W) => HeadsGrow
      BY <2>2, StutterKeeps DEF EditInv, SafetyInv
    <3> QED
      BY <2>2, <3>1, EditStep
  <2> QED
    BY <2>1, <2>2
<1>3. Init => Inv
  BY EditInit
<1> HIDE DEF Inv, Env
<1> QED
  BY <1>1, <1>2, <1>3, PTL DEF Spec, Env
===========================================================================
