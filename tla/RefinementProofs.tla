-------------------------- MODULE RefinementProofs --------------------------
(***************************************************************************)
(* Replication implements LWW: every step of the detailed specification is *)
(* a step of the last-writer-wins map, or changes nothing the map has.     *)
(***************************************************************************)
EXTENDS ReplicationRefinement, VersionProofs

---------------------------------------------------------------------------
(* The mapping: rows and the abstract entries they stand for. *)

\* The replicated part of a row.
Entry(m) ==
  [path |-> m.path, kind |-> m.kind, hash |-> m.hash, attr |-> m.attr,
   ver |-> m.ver, deleted |-> m.deleted]

\* What the pulls of n have in their pages and batches.
InFlight(n) == UNION {pull[n][q].page \cup pull[n][q].batch : q \in Node}

\* The fields of an entry; two rows for one write are one entry.
LEMMA EntryFacts ==
  ASSUME NEW a, NEW b
  PROVE  /\ Same(a, b) => Entry(a) = Entry(b)
         /\ Entry(a).path = a.path /\ Entry(a).ver = a.ver
         /\ Entry(a).deleted = a.deleted
  BY DEF Entry, Same

\* An entry under another path and version.
LEMMA EntryExcept ==
  ASSUME NEW m, NEW p, NEW v
  PROVE  [Entry(m) EXCEPT !.path = p, !.ver = v] =
         [path |-> p, kind |-> m.kind, hash |-> m.hash, attr |-> m.attr,
          ver |-> v, deleted |-> m.deleted]
<1> DEFINE S == [path : {p}, kind : {m.kind}, hash : {m.hash}, attr : {m.attr},
                 ver : {v}, deleted : {m.deleted}]
<1>1. [Entry(m) EXCEPT !.path = p, !.ver = v] \in S
  BY DEF Entry
<1>2. \A x \in S : x = [path |-> p, kind |-> m.kind, hash |-> m.hash,
                        attr |-> m.attr, ver |-> v, deleted |-> m.deleted]
  OBVIOUS
<1> QED
  BY <1>1, <1>2

\* A digest is the set of entries of a table.
LEMMA DigestMembers ==
  ASSUME NEW table
  PROVE  /\ \A m \in table : Entry(m) \in Digest(table)
         /\ \A x \in Digest(table) : \E m \in table :
              x = Entry(m) /\ x.path = m.path /\ x.ver = m.ver /\ x.deleted = m.deleted
<1>1. Digest(table) = {Entry(m) : m \in table}
  BY DEF Digest, Entry
<1> QED
  BY <1>1, EntryFacts

\* Rows that stand for the same writes have the same digests.
LEMMA DigestWithin ==
  ASSUME NEW S, NEW T, \A e \in S : \E k \in T : Same(e, k)
  PROVE  Digest(S) \subseteq Digest(T)
<1> SUFFICES ASSUME NEW e \in S PROVE Entry(e) \in Digest(T)
  BY DigestMembers
<1>1. PICK k \in T : Same(e, k)
  OBVIOUS
<1>2. Entry(e) = Entry(k)
  BY <1>1, EntryFacts
<1> QED
  BY <1>2, DigestMembers

\* The digest of two tables.
LEMMA DigestUnion ==
  ASSUME NEW S, NEW T
  PROVE  Digest(S \cup T) = Digest(S) \cup Digest(T)
  BY DEF Digest

\* What the abstract variables are, before and after a step.
LEMMA Mapped ==
  /\ held \in [Node -> {held[i] : i \in Node}]
  /\ held' \in [Node -> {held'[i] : i \in Node}]
  /\ carried \in [Node -> {carried[i] : i \in Node}]
  /\ carried' \in [Node -> {carried'[i] : i \in Node}]
  /\ \A n \in Node : /\ held[n] = Digest(rows[n])
                     /\ held'[n] = Digest(rows'[n])
                     /\ carried[n] = Digest(InFlight(n))
                     /\ carried'[n] = Digest(InFlight(n)')
  BY DEF held, carried, InFlight

\* The abstract specification orders versions as the detailed one does.
LEMMA AbstractAfter ==
  ASSUME NEW v, NEW o
  PROVE  Abstract!After(v, o) <=> After(v, o)
  BY DEF After, Compare, Abstract!After, Abstract!Compare

\* A step that leaves the rest alone changes the map at one node.
LEMMA HeldAt ==
  ASSUME NEW n \in Node, \A i \in Node : i # n => rows'[i] = rows[i]
  PROVE  held' = [held EXCEPT ![n] = held'[n]]
  BY Mapped

\* And what is on its way, at one node.
LEMMA CarriedAt ==
  ASSUME NEW n \in Node, \A i \in Node : i # n => pull'[i] = pull[i]
  PROVE  carried' = [carried EXCEPT ![n] = carried'[n]]
<1>1. \A i \in Node : i # n => InFlight(i)' = InFlight(i)
  BY DEF InFlight
<1> QED
  BY <1>1, Mapped

\* No change of what the map is made of.
LEMMA Stutter ==
  /\ rows' = rows => held' = held
  /\ pull' = pull => carried' = carried
  BY DEF held, carried

---------------------------------------------------------------------------
(* Steps that store nothing. *)

\* n gives up what its pulls had, or some pull gets entries a peer holds.
LEMMA ReceiveStep ==
  ASSUME NEW n \in Node, NEW q \in Node, rows' = rows,
         \A i \in Node : i # n => pull'[i] = pull[i],
         \A e \in InFlight(n)' : \E k \in InFlight(n) \cup rows[q] : Same(e, k)
  PROVE  Abstract!Receive(n)
<1>1. carried'[n] \subseteq carried[n] \cup held[q]
  <2>1. Digest(InFlight(n)') \subseteq Digest(InFlight(n) \cup rows[q])
    BY DigestWithin
  <2>2. Digest(InFlight(n) \cup rows[q]) = Digest(InFlight(n)) \cup Digest(rows[q])
    BY DigestUnion
  <2>3. /\ carried'[n] = Digest(InFlight(n)') /\ carried[n] = Digest(InFlight(n))
        /\ held[q] = Digest(rows[q])
    BY Mapped
  <2> QED
    BY <2>1, <2>2, <2>3
<1>2. carried' = [carried EXCEPT ![n] = carried'[n]]
  BY CarriedAt
<1>3. held' = held
  BY Stutter
<1> QED
  BY <1>1, <1>2, <1>3 DEF Abstract!Receive, Abstract!CarryAtMost

\* A step of one pull: what is in flight is what that pull has now, or was.
LEMMA PullInFlight ==
  ASSUME TypeOK, NEW n \in Node, NEW q \in Node, NEW r \in Pull, SetPull(n, q, r)
  PROVE  /\ \A i \in Node : i # n => pull'[i] = pull[i]
         /\ r.page \cup r.batch \subseteq InFlight(n)'
         /\ pull[n][q].page \cup pull[n][q].batch \subseteq InFlight(n)
         /\ \A e \in InFlight(n)' : e \in InFlight(n) \/ e \in r.page \cup r.batch
<1>1. /\ pull'[n][q] = r
      /\ \A i, j \in Node : i # n \/ j # q => pull'[i][j] = pull[i][j]
  BY SetPullType
<1>2. \A i \in Node : i # n => pull'[i] = pull[i]
  BY DEF SetPull, TypeOK
<1> QED
  BY <1>1, <1>2 DEF InFlight

\* Everything of a pull outside applyRemote, and what ends a process.
LEMMA FetchRefines ==
  ASSUME TypeOK, NEW n \in Node, NEW q \in Node,
         \/ FetchDigest(n, q) \/ CompareDigest(n, q) \/ FetchPage(n, q)
         \/ LockWrite(n, q) \/ RecordBookmark(n, q) \/ AbortPull(n, q)
  PROVE  Abstract!Receive(n)
<1>1. PICK r \in Pull :
        /\ SetPull(n, q, r) /\ rows' = rows
        /\ r.page \subseteq pull[n][q].page \cup rows[q]
        /\ r.batch \subseteq pull[n][q].batch
  BY FetchEffect
<1>2. \A e \in InFlight(n)' : e \in InFlight(n) \cup rows[q]
  BY <1>1, PullInFlight
<1>3. \A e \in InFlight(n)' : \E k \in InFlight(n) \cup rows[q] : Same(e, k)
  BY <1>2, SameFacts
<1> QED
  BY <1>1, <1>3, PullInFlight, ReceiveStep

\* A conflict copy as the abstract specification has it.
LEMMA CopyEntry ==
  ASSUME TypeOK, NEW n \in Node, NEW m \in Meta, Decision(n, m) = "conflict"
  PROVE  LET h == Entry(Get(rows[n], m.path))
             c == Entry(CopyFor(n, m))
         IN  /\ ~h.deleted /\ c.path # h.path
             /\ c = [h EXCEPT !.path = c.path, !.ver = c.ver]
<1> DEFINE local == Get(rows[n], m.path)
<1>1. local \in Meta
  BY CopyFacts, Parts
<1>2. ~local.deleted
  BY ConflictHasLocal DEF Decision, resolve
<1> DEFINE hlc == ClockAfter(n, m)
           copy == conflictCopy(n, local, hlc)
<1>3. CopyFor(n, m) = copy
  BY DEF CopyFor
<1> HIDE DEF local, hlc
<1>4. /\ copy.kind = local.kind /\ copy.hash = local.hash
      /\ copy.attr = local.attr /\ copy.deleted = local.deleted
      /\ copy.path = ConflictName(local.path, local.ver)
  BY <1>1 DEF conflictCopy, Meta
<1>5. ConflictName(local.path, local.ver) # local.path
  <2> DEFINE s == local.path.suffix
             x == [node |-> local.ver.origin, wall |-> local.ver.hlc.wall]
  <2>1. local.path \in Path /\ s \in Seq([node : Node, wall : Nat])
    BY <1>1 DEF Meta, Path
  <2>2. x \in [node : Node, wall : Nat]
    BY <1>1 DEF Meta, Version, Timestamp
  <2>3. ConflictName(local.path, local.ver).suffix = Append(s, x)
    BY <2>1 DEF ConflictName, Path
  <2> HIDE DEF x
  <2>4. Len(Append(s, x)) = Len(s) + 1 /\ Len(s) \in Nat
    BY <2>1, <2>2
  <2> QED
    BY <2>3, <2>4
<1> HIDE DEF copy
<1> DEFINE h == Entry(local)
           c == Entry(copy)
<1>6. ~h.deleted /\ c.path # h.path
  BY <1>2, <1>4, <1>5, EntryFacts
<1>7. c = [h EXCEPT !.path = c.path, !.ver = c.ver]
  <2> DEFINE p == copy.path
             v == copy.ver
  <2>1. c.path = p /\ c.ver = v
    BY EntryFacts
  <2>2. c = [path |-> p, kind |-> local.kind, hash |-> local.hash,
             attr |-> local.attr, ver |-> v, deleted |-> local.deleted]
    BY <1>4 DEF Entry
  <2> HIDE DEF p, v
  <2>3. [h EXCEPT !.path = p, !.ver = v] =
          [path |-> p, kind |-> local.kind, hash |-> local.hash,
           attr |-> local.attr, ver |-> v, deleted |-> local.deleted]
    BY EntryExcept
  <2> QED
    BY <2>1, <2>2, <2>3
<1> QED
  BY <1>3, <1>6, <1>7 DEF local

\* applyRemote's loop: the entry stays in flight, or goes; on a conflict the
\* losing edit may be prepared under another name.
LEMMA ApplyRefines ==
  ASSUME VersionInv, CountersHaveRoom, FreshAheadOfStore,
         NEW n \in Node, NEW q \in Node, ApplyEntry(n, q)
  PROVE  Abstract!Receive(n) \/ Abstract!KeepCopy(n)
<1>1. TypeOK /\ SafetyInv /\ Roomy
  BY DEF VersionInv, SafetyInv
<1>2. PICK m \in pull[n][q].page, r \in Pull :
           /\ m \in Meta /\ SetPull(n, q, r) /\ rows' = rows
           /\ r.page = pull[n][q].page \ {m}
           /\ \A b \in r.batch : b \in pull[n][q].batch \/ Prepared(n, m, b)
  BY <1>1, ApplyEffect
<1>3. /\ \A i \in Node : i # n => pull'[i] = pull[i]
      /\ r.page \cup r.batch \subseteq InFlight(n)'
      /\ pull[n][q].page \cup pull[n][q].batch \subseteq InFlight(n)
      /\ \A e \in InFlight(n)' : e \in InFlight(n) \/ e \in r.page \cup r.batch
  BY <1>1, <1>2, PullInFlight
<1> DEFINE Old(e) == \E k \in InFlight(n) : Same(e, k)
<1>4. \A e \in InFlight(n)' :
        \/ Old(e)
        \/ e \in r.batch /\ Decision(n, m) = "conflict" /\ Same(e, CopyFor(n, m))
  <2>1. m \in InFlight(n)
    BY <1>3
  <2>2. \A e \in InFlight(n) : Old(e)
    BY SameFacts
  <2>3. \A e \in r.batch : \/ e \in pull[n][q].batch \/ Same(e, m)
                           \/ Decision(n, m) = "conflict" /\ Same(e, CopyFor(n, m))
    BY <1>2 DEF Prepared
  <2>4. r.page \subseteq InFlight(n) /\ pull[n][q].batch \subseteq InFlight(n)
    BY <1>2, <1>3
  <2> QED
    BY <1>3, <2>1, <2>2, <2>3, <2>4
<1>5. CASE \A e \in InFlight(n)' : Old(e)
  BY <1>2, <1>3, <1>5, ReceiveStep
<1>6. CASE \E e \in InFlight(n)' : ~Old(e)
  <2>1. PICK e \in InFlight(n)' :
          Decision(n, m) = "conflict" /\ Same(e, CopyFor(n, m))
    BY <1>4, <1>6
  <2> DEFINE local == Get(rows[n], m.path)
             c == Entry(e)
             h == Entry(local)
  <2>2. local \in rows[n] /\ CopyFor(n, m) \in Meta
    BY <1>1, <1>2, <2>1, CopyFacts
  <2>3. c = Entry(CopyFor(n, m)) /\ c.ver = CopyFor(n, m).ver
    BY <2>1, EntryFacts
  <2>4. ~h.deleted /\ c.path # h.path /\ c = [h EXCEPT !.path = c.path, !.ver = c.ver]
    BY <1>1, <1>2, <2>1, <2>3, CopyEntry
  <2>5. c.ver.origin = n /\ \A a \in rows[n] : After(c.ver, a.ver)
    <3>1. /\ CopyFor(n, m).ver.origin = n
          /\ \A a \in rows[n] : After(CopyFor(n, m).ver, a.ver)
      BY <2>1, CopyIsLatest
    <3> QED
      BY <2>3, <3>1
  <2>6. c \in carried'[n] /\ h \in held[n]
    <3>1. carried'[n] = Digest(InFlight(n)') /\ held[n] = Digest(rows[n])
      BY Mapped
    <3> QED
      BY <2>2, <3>1, DigestMembers
  <2>7. Abstract!OwnAndLatest(n, c)
    <3>1. \A x \in held[n] : \E a \in rows[n] : x.ver = a.ver
      <4>1. held[n] = Digest(rows[n])
        BY Mapped
      <4> QED
        BY <4>1, DigestMembers
    <3> QED
      BY <2>5, <3>1, AbstractAfter DEF Abstract!OwnAndLatest
  <2>8. carried'[n] \subseteq carried[n] \cup {c}
    <3>1. \A x \in InFlight(n)' : Old(x) \/ Same(x, e)
      BY <1>4, <2>1, SameFacts
    <3>2. \A x \in InFlight(n)' : \E k \in InFlight(n) \cup {e} : Same(x, k)
      BY <3>1
    <3>3. Digest(InFlight(n)') \subseteq Digest(InFlight(n)) \cup Digest({e})
      BY <3>2, DigestWithin, DigestUnion
    <3>4. Digest({e}) = {c}
      BY DEF Digest, Entry
    <3> QED
      BY <3>3, <3>4, Mapped
  <2>9. Abstract!CarryAtMost(n, {c})
    BY <1>3, <2>8, CarriedAt DEF Abstract!CarryAtMost
  <2>10. held' = held
    BY <1>2, Stutter
  <2> HIDE DEF c, h
  <2> QED
    BY <2>4, <2>6, <2>7, <2>9, <2>10 DEF Abstract!KeepCopy
<1> QED
  BY <1>5, <1>6
---------------------------------------------------------------------------
(* Steps that change what a node holds. *)

\* Store.Apply puts the entries of its batch in the places of their paths.
LEMMA UpsertPuts ==
  ASSUME NEW table \in SUBSET Meta, NEW batch \in SUBSET Meta, NEW base \in Nat
  PROVE  Digest(Upsert(table, batch, base)) = Abstract!Put(Digest(table), Digest(batch))
<1> DEFINE U == Upsert(table, batch, base)
           H == Digest(table)
           S == Digest(batch)
           P == Abstract!Put(H, S)
<1>1. ASSUME NEW x \in Digest(U) PROVE x \in P
  <2>1. PICK a \in U : x = Entry(a) /\ x.path = a.path
    BY <1>1, DigestMembers
  <2>2. CASE a \in table /\ \A b \in batch : b.path # a.path
    <3>1. x \in H
      BY <2>1, <2>2, DigestMembers
    <3>2. \A s \in S : s.path # x.path
      BY <2>1, <2>2, DigestMembers
    <3> QED
      BY <3>1, <3>2 DEF Abstract!Put
  <2>3. CASE \E b \in batch : a = [b EXCEPT !.seq = base + b.seq]
    <3>1. PICK b \in batch : a = [b EXCEPT !.seq = base + b.seq]
      BY <2>3
    <3>2. Entry(a) = Entry(b)
      BY <3>1, RestampSame, EntryFacts
    <3>3. x \in S
      BY <2>1, <3>2, DigestMembers
    <3> QED
      BY <3>3 DEF Abstract!Put
  <2> QED
    BY <2>1, <2>2, <2>3, UpsertFacts
<1>2. ASSUME NEW x \in P PROVE x \in Digest(U)
  <2>1. CASE x \in S
    <3>1. PICK b \in batch : x = Entry(b)
      BY <2>1, DigestMembers
    <3> DEFINE a == [b EXCEPT !.seq = base + b.seq]
    <3>2. a \in U
      BY DEF Upsert
    <3>3. Entry(a) = Entry(b)
      BY RestampSame, EntryFacts
    <3> HIDE DEF a
    <3> QED
      BY <3>1, <3>2, <3>3, DigestMembers
  <2>2. CASE x \in H /\ \A s \in S : s.path # x.path
    <3>1. PICK a \in table : x = Entry(a) /\ x.path = a.path
      BY <2>2, DigestMembers
    <3>2. \A b \in batch : Entry(b) \in S /\ Entry(b).path = b.path
      BY DigestMembers, EntryFacts
    <3>3. a \in U
      BY <2>2, <3>1, <3>2 DEF Upsert, Have
    <3> QED
      BY <3>1, <3>3, DigestMembers
  <2> QED
    BY <2>1, <2>2 DEF Abstract!Put
<1> QED
  BY <1>1, <1>2

\* A local write is a write, or fails and leaves the map alone.
LEMMA LocalWriteRefines ==
  ASSUME VersionInv, CountersHaveRoom, FreshAheadOfStore,
         NEW n \in Node, NEW m \in Meta, NEW seen,
         m.ver = Stamp(n), LocalWrite(n, m, seen)
  PROVE  Abstract!Write(n) \/ UNCHANGED <<held, carried>>
<1>1. TypeOK /\ rows[n] \in SUBSET Meta /\ head[n] \in Nat /\ rows \in [Node -> SUBSET Meta]
  BY Parts DEF VersionInv, SafetyInv, TypeOK
<1>2. carried' = carried
  BY Stutter DEF LocalWrite
<1>3. CASE rows' = rows
  BY <1>2, <1>3, Stutter
<1> DEFINE batch == AppendRow({}, 0, m)
           e == Entry(m)
<1>4. CASE rows' = [rows EXCEPT ![n] = Upsert(@, batch, head[n])]
  <2>1. batch \in SUBSET Meta
    BY AppendRowFacts
  <2>2. Digest(batch) = {e}
    <3>1. batch = {[m EXCEPT !.seq = 0 + 1]}
      BY DEF AppendRow
    <3>2. Entry([m EXCEPT !.seq = 0 + 1]) = e
      BY RestampSame, EntryFacts
    <3>3. Digest(batch) = {Entry([m EXCEPT !.seq = 0 + 1])}
      BY <3>1 DEF Digest, Entry
    <3> QED
      BY <3>2, <3>3
  <2>3. rows'[n] = Upsert(rows[n], batch, head[n]) /\ \A i \in Node : i # n => rows'[i] = rows[i]
    BY <1>1, <1>4
  <2> HIDE DEF batch
  <2>4. held'[n] = Abstract!Put(held[n], {e})
    <3>1. held'[n] = Digest(rows'[n]) /\ held[n] = Digest(rows[n])
      BY Mapped
    <3>2. Digest(Upsert(rows[n], batch, head[n])) =
            Abstract!Put(Digest(rows[n]), Digest(batch))
      BY <1>1, <2>1, UpsertPuts
    <3> HIDE DEF e
    <3> QED
      BY <2>2, <2>3, <3>1, <3>2
  <2>5. held' = [held EXCEPT ![n] = Abstract!Put(held[n], {e})]
    BY <2>3, <2>4, HeldAt
  <2>6. e \in held'[n]
    BY <2>4 DEF Abstract!Put
  <2>7. Abstract!OwnAndLatest(n, e)
    <3>1. e.ver = m.ver /\ e.ver.origin = n
      BY EntryFacts DEF Stamp
    <3>2. \A a \in rows[n] : After(m.ver, a.ver)
      BY LocalWriteVersions
    <3>3. held[n] = Digest(rows[n])
      BY Mapped
    <3>4. \A x \in held[n] : \E a \in rows[n] : x.ver = a.ver
      BY <3>3, DigestMembers
    <3> QED
      BY <3>1, <3>2, <3>4, AbstractAfter DEF Abstract!OwnAndLatest
  <2> HIDE DEF e
  <2> QED
    BY <1>2, <2>5, <2>6, <2>7 DEF Abstract!Write
<1> QED
  BY <1>3, <1>4 DEF LocalWrite, CommitLocal

\* The commit of a batch installs entries in flight, each later than what it
\* replaces.
LEMMA CommitRefines ==
  ASSUME VersionInv, NEW n \in Node, NEW q \in Node, CommitPage(n, q)
  PROVE  Abstract!Install(n)
<1> DEFINE r0 == pull[n][q]
           r == [r0 EXCEPT !.pc = "mark", !.batch = {}, !.count = 0]
           S == Digest(r0.batch)
<1>1. /\ TypeOK /\ SafetyInv /\ r0 \in Pull /\ rows \in [Node -> SUBSET Meta]
      /\ rows[n] \in SUBSET Meta /\ head[n] \in Nat
  BY Parts DEF VersionInv, SafetyInv, TypeOK
<1>2. r \in Pull /\ r.page = r0.page /\ r.batch = {} /\ r0.batch \in SUBSET Meta
  BY <1>1 DEF Pull
<1>3. SetPull(n, q, r)
  BY DEF CommitPage
<1>4. /\ rows'[n] = Upsert(rows[n], r0.batch, head[n])
      /\ \A i \in Node : i # n => rows'[i] = rows[i]
  BY <1>1 DEF CommitPage
<1> HIDE DEF r
<1>5. /\ \A i \in Node : i # n => pull'[i] = pull[i]
      /\ r0.page \cup r0.batch \subseteq InFlight(n)
      /\ \A e \in InFlight(n)' : e \in InFlight(n)
  BY <1>1, <1>2, <1>3, PullInFlight
<1>6. held[n] = Digest(rows[n]) /\ held'[n] = Digest(rows'[n])
      /\ carried[n] = Digest(InFlight(n)) /\ carried'[n] = Digest(InFlight(n)')
  BY Mapped
<1>7. S \in SUBSET carried[n]
  BY <1>5, <1>6, SameFacts, DigestWithin
<1>8. \A s, t \in S : s.path = t.path => s = t
  <2>1. \A a, b \in r0.batch : a.path = b.path => a = b
    BY <1>1 DEF SafetyInv, PullsOK, BatchOK, FeedOK
  <2> QED
    BY <2>1, DigestMembers
<1>9. \A s \in S, h \in held[n] : s.path = h.path => Abstract!After(s.ver, h.ver)
  <2>1. \A b \in r0.batch, a \in rows[n] : a.path = b.path => After(b.ver, a.ver)
    BY DEF VersionInv, BatchNewer
  <2> QED
    BY <1>6, <2>1, DigestMembers, AbstractAfter
<1>10. held'[n] = Abstract!Put(held[n], S)
  BY <1>1, <1>2, <1>4, <1>6, UpsertPuts
<1>11. held' = [held EXCEPT ![n] = Abstract!Put(held[n], S)]
  BY <1>4, <1>10, HeldAt
<1>12. Abstract!CarryAtMost(n, {})
  <2>1. carried'[n] \subseteq carried[n]
    BY <1>5, <1>6, SameFacts, DigestWithin
  <2> QED
    BY <1>5, <2>1, CarriedAt DEF Abstract!CarryAtMost
<1> HIDE DEF S
<1> QED
  BY <1>7, <1>8, <1>9, <1>11, <1>12 DEF Abstract!Install

\* The janitor forgets deletions; a lost database forgets everything.
LEMMA NodeRefines ==
  ASSUME SafetyInv, NEW n \in Node, Collect(n) \/ Restart(n) \/ Wipe(n)
  PROVE  Abstract!Forget(n) \/ Abstract!Receive(n) \/ Abstract!Reset(n)
<1>1. /\ rows \in [Node -> SUBSET Meta] /\ pull \in [Node -> [Node -> Pull]]
      /\ \A a, b \in rows[n] : a.path = b.path => a = b
  BY DEF SafetyInv, TypeOK, FeedWellFormed, FeedOK
<1>2. /\ held[n] = Digest(rows[n]) /\ held'[n] = Digest(rows'[n])
      /\ carried'[n] = Digest(InFlight(n)')
  BY Mapped
<1>3. Digest({}) = {} /\ Idle.page = {} /\ Idle.batch = {}
  BY DEF Digest, Idle
<1>4. CASE Collect(n)
  <2> DEFINE X == Expired(rows[n], physical(n) - TombstoneTTL)
             S == Digest(X)
  <2>1. /\ rows'[n] = rows[n] \ X /\ pull' = pull
        /\ \A i \in Node : i # n => rows'[i] = rows[i]
    BY <1>1, <1>4 DEF Collect
  <2>2. X \subseteq rows[n] /\ \A x \in X : x.deleted
    BY DEF Expired
  <2> HIDE DEF X
  <2>3. S \in SUBSET {h \in held[n] : h.deleted}
    <3>1. \A s \in S : \E x \in X : s = Entry(x) /\ s.deleted = x.deleted
      BY DigestMembers
    <3>2. \A x \in X : Entry(x) \in held[n]
      BY <1>2, <2>2, DigestMembers
    <3> HIDE DEF S
    <3> QED
      BY <2>2, <3>1, <3>2
  <2>4. held'[n] = held[n] \ S
    <3>1. \A a, b \in rows[n] : Entry(a) = Entry(b) => a = b
      <4>1. \A a \in rows[n] : Entry(a).path = a.path
        BY EntryFacts
      <4> QED
        BY <1>1, <4>1
    <3>2. Digest(rows[n] \ X) = Digest(rows[n]) \ Digest(X)
      <4>1. ASSUME NEW T PROVE Digest(T) = {Entry(m) : m \in T}
        BY DEF Digest, Entry
      <4> QED
        BY <2>2, <3>1, <4>1
    <3> QED
      BY <1>2, <2>1, <3>2
  <2>5. held' = [held EXCEPT ![n] = held[n] \ S]
    BY <2>1, <2>4, HeldAt
  <2>6. carried' = carried
    BY <2>1, Stutter
  <2> HIDE DEF S
  <2> QED
    BY <2>3, <2>5, <2>6 DEF Abstract!Forget
<1>5. ASSUME pull' = [pull EXCEPT ![n] = [q \in Node |-> Idle]]
      PROVE  /\ InFlight(n)' = {}
             /\ \A i \in Node : i # n => pull'[i] = pull[i]
  <2>1. pull'[n] = [q \in Node |-> Idle] /\ \A i \in Node : i # n => pull'[i] = pull[i]
    BY <1>1, <1>5
  <2>2. \A q \in Node : pull'[n][q] = Idle
    BY <2>1
  <2> QED
    BY <1>3, <2>1, <2>2 DEF InFlight
<1>6. CASE Restart(n)
  <2>1. rows' = rows /\ InFlight(n)' = {} /\ \A i \in Node : i # n => pull'[i] = pull[i]
    BY <1>5, <1>6 DEF Restart, store
  <2> QED
    BY <2>1, ReceiveStep
<1>7. CASE Wipe(n)
  <2>1. /\ rows'[n] = {} /\ \A i \in Node : i # n => rows'[i] = rows[i]
        /\ InFlight(n)' = {} /\ \A i \in Node : i # n => pull'[i] = pull[i]
    BY <1>1, <1>5, <1>7 DEF Wipe
  <2>2. held' = [held EXCEPT ![n] = {}]
    BY <1>2, <1>3, <2>1, HeldAt
  <2>3. carried' = [carried EXCEPT ![n] = {}]
    BY <1>2, <1>3, <2>1, CarriedAt
  <2> QED
    BY <2>2, <2>3 DEF Abstract!Reset
<1> QED
  BY <1>4, <1>6, <1>7

---------------------------------------------------------------------------
(* The refinement. *)

\* Every step is a step of the map, a local operation with any operands included.
LEMMA StepRefines ==
  ASSUME VersionInv, CountersHaveRoom, FreshAheadOfStore, Step
  PROVE  [Abstract!Next]_<<held, carried>>
<1>1. TypeOK /\ SafetyInv
  BY DEF VersionInv, SafetyInv
<1>2. CASE UNCHANGED <<rows, pull>>
  BY <1>2, Stutter
<1>3. ASSUME NEW n \in Node, UserWrite(n) \/ \E seen \in Sights : Operation(n, seen)
      PROVE  [Abstract!Next]_<<held, carried>>
  <2>1. Abstract!Write(n) \/ UNCHANGED <<held, carried>>
    BY <1>1, <1>3, UserWrites, LocalWriteRefines
  <2> QED
    BY <2>1 DEF Abstract!Next
<1>4. ASSUME NEW n \in Node, NEW q \in Peers(n),
             PullStep(n, q) \/ LockWrite(n, q) \/ AbortPull(n, q)
      PROVE  Abstract!Next
  <2>1. q \in Node
    BY DEF Peers
  <2>2. Abstract!Receive(n) \/ Abstract!KeepCopy(n) \/ Abstract!Install(n)
    BY <1>1, <1>4, <2>1, FetchRefines, ApplyRefines, CommitRefines DEF PullStep
  <2> QED
    BY <2>2 DEF Abstract!Next
<1>5. ASSUME NEW n \in Node, Collect(n) \/ Restart(n) \/ Wipe(n)
      PROVE  Abstract!Next
  <2>1. Abstract!Forget(n) \/ Abstract!Receive(n) \/ Abstract!Reset(n)
    BY <1>1, <1>5, NodeRefines
  <2> QED
    BY <2>1 DEF Abstract!Next
<1>6. Writer \subseteq Node
  BY ReplicationAssumption
<1> QED
  BY <1>2, <1>3, <1>4, <1>5, <1>6 DEF Step, Next, Tick, store, vars

\* A cluster that has just been set up holds and carries nothing.
LEMMA InitRefines == Init => Abstract!Init
<1> SUFFICES ASSUME Init PROVE Abstract!Init
  OBVIOUS
<1>1. \A n \in Node : rows[n] = {} /\ InFlight(n) = {}
  BY DEF Init, Idle, InFlight
<1>2. \A n \in Node : held[n] = {} /\ carried[n] = {}
  BY <1>1, Mapped DEF Digest
<1> QED
  BY <1>2, Mapped DEF Abstract!Init

\* Behind its feeds, bookmarks, pages and failures the cluster is a
\* last-writer-wins map: as long as no counter wraps and no process starts with a
\* clock behind its store, every behaviour of Replication is one of LWW.
THEOREM ReplicationImplementsLWW ==
  Spec /\ [](CountersHaveRoom /\ FreshAheadOfStore) => ImplementsLWW
<1> DEFINE Env == CountersHaveRoom /\ FreshAheadOfStore
<1>1. VersionInv /\ [Next]_vars /\ Env /\ Env' => VersionInv'
  BY VersionStep DEF Step
<1>2. VersionInv /\ [Next]_vars /\ Env => [Abstract!Next]_<<held, carried>>
  BY StepRefines DEF Step
<1> QED
  BY <1>1, <1>2, VersionInit, InitRefines, PTL DEF Spec, ImplementsLWW, Abstract!Spec
=============================================================================
