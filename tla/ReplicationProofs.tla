------------------------- MODULE ReplicationProofs -------------------------
(***************************************************************************)
(* What holds of Replication for any number of nodes, paths and contents,  *)
(* any page size, any skew of the clocks and any number of writes,         *)
(* failures, restarts and lost databases.                                  *)
(***************************************************************************)
EXTENDS Replication, HLCProofs

---------------------------------------------------------------------------
(* The operators of Store return what their callers expect. *)

\* Restamping an entry with a feed position leaves it an entry.
LEMMA RestampType ==
  ASSUME NEW m \in Meta, NEW s \in Nat
  PROVE  /\ [m EXCEPT !.seq = s] \in Meta
         /\ [m EXCEPT !.seq = s].path = m.path
         /\ [m EXCEPT !.seq = s].ver = m.ver
         /\ [m EXCEPT !.seq = s].hash = m.hash
         /\ [m EXCEPT !.seq = s].deleted = m.deleted
         /\ [m EXCEPT !.seq = s].seq = s
  BY DEF Meta

\* AppendRow adds the row, restamped, and drops only what it replaces.
LEMMA AppendRowFacts ==
  ASSUME NEW batch \in SUBSET Meta, NEW count \in Nat, NEW m \in Meta
  PROVE  /\ AppendRow(batch, count, m) \in SUBSET Meta
         /\ \A b \in AppendRow(batch, count, m) :
              \/ b \in batch /\ b.path # m.path
              \/ /\ b.path = m.path /\ b.ver = m.ver
                 /\ b.hash = m.hash /\ b.deleted = m.deleted
                 /\ b.seq = count + 1
                 /\ b = [m EXCEPT !.seq = count + 1]
<1> DEFINE row == [m EXCEPT !.seq = count + 1]
<1>1. /\ row \in Meta /\ row.path = m.path /\ row.ver = m.ver
      /\ row.hash = m.hash /\ row.deleted = m.deleted /\ row.seq = count + 1
  BY RestampType
<1>2. \A b \in AppendRow(batch, count, m) : (b \in batch /\ b.path # m.path) \/ b = row
  BY DEF AppendRow
<1> QED
  BY <1>1, <1>2

\* A row of an upserted table is an old row whose path the batch does not
\* name, or a row of the batch under a new feed position.
LEMMA UpsertFacts ==
  ASSUME NEW table \in SUBSET Meta, NEW batch \in SUBSET Meta, NEW base \in Nat
  PROVE  /\ Upsert(table, batch, base) \in SUBSET Meta
         /\ \A a \in Upsert(table, batch, base) :
              \/ a \in table /\ \A b \in batch : b.path # a.path
              \/ \E b \in batch :
                   /\ a = [b EXCEPT !.seq = base + b.seq]
                   /\ a.path = b.path /\ a.ver = b.ver /\ a.seq = base + b.seq
                   /\ a.hash = b.hash /\ a.deleted = b.deleted
<1> DEFINE U == Upsert(table, batch, base)
<1>1. SUFFICES ASSUME NEW a \in U
               PROVE  /\ a \in Meta
                      /\ \/ a \in table /\ \A b \in batch : b.path # a.path
                         \/ \E b \in batch :
                              /\ a = [b EXCEPT !.seq = base + b.seq]
                              /\ a.path = b.path /\ a.ver = b.ver
                              /\ a.seq = base + b.seq
                              /\ a.hash = b.hash /\ a.deleted = b.deleted
  OBVIOUS
<1>2. CASE a \in table /\ ~Have(batch, a.path)
  BY <1>2 DEF Have
<1>3. CASE \E b \in batch : a = [b EXCEPT !.seq = base + b.seq]
  <2>1. PICK b \in batch : a = [b EXCEPT !.seq = base + b.seq]
    BY <1>3
  <2>2. b \in Meta /\ base + b.seq \in Nat
    BY DEF Meta
  <2> QED
    BY <2>1, <2>2, RestampType
<1> QED
  BY <1>2, <1>3 DEF Upsert

\* Store.Get returns a row of the table.
LEMMA GetFacts ==
  ASSUME NEW table, NEW p, Have(table, p)
  PROVE  Get(table, p) \in table /\ Get(table, p).path = p
  BY DEF Have, Get

\* The hash a write replaces is a content or the empty hash.
LEMMA HashAtType ==
  ASSUME NEW table \in SUBSET Meta, NEW p
  PROVE  HashAt(table, p) \in Content \cup {NoHash}
  BY GetFacts DEF HashAt, Meta

\* A digest lists entries of trees.
LEMMA DigestType ==
  ASSUME NEW table \in SUBSET Meta
  PROVE  Digest(table) \in SUBSET TreeEntry
  BY DEF Digest, Meta, TreeEntry

\* ConflictName derives a path.
LEMMA ConflictNameType ==
  ASSUME NEW p \in Path, NEW v \in Version
  PROVE  ConflictName(p, v) \in Path
<1> DEFINE s == [node |-> v.origin, wall |-> v.hlc.wall]
           S == [node : Node, wall : Nat]
<1>1. s \in S
  BY DEF Version, Timestamp
<1>2. p.suffix \in Seq(S)
  BY DEF Path
<1>3. Append(p.suffix, s) \in Seq(S)
  BY <1>1, <1>2
<1> QED
  BY <1>3 DEF ConflictName, Path

---------------------------------------------------------------------------
(* Types. *)

\* What the pieces of a state in TypeOK are, one node and one pull at a time.
LEMMA Parts ==
  ASSUME TypeOK, NEW n \in Node, NEW q \in Node
  PROVE  /\ now \in 1 .. MaxTime /\ physical(n) \in Nat
         /\ rows[n] \in SUBSET Meta /\ head[n] \in Nat
         /\ blobs[n] \in SUBSET Content /\ mark[n][q] \in Nat
         /\ last[n] \in Timestamp /\ pull[n][q] \in Pull
  BY ReplicationAssumption DEF TypeOK, physical

\* A pull that is not running is a pull.
LEMMA IdleType == Idle \in Pull
  BY DEF Idle, Pull

\* A step that only replaces one pull.
LEMMA SetPullType ==
  ASSUME TypeOK, NEW n \in Node, NEW q \in Node, NEW r \in Pull,
         SetPull(n, q, r)
  PROVE  /\ pull' \in [Node -> [Node -> Pull]]
         /\ pull'[n][q] = r
         /\ \A i, j \in Node : i # n \/ j # q => pull'[i][j] = pull[i][j]
  BY DEF TypeOK, SetPull

\* A step that records one bookmark.
LEMMA SetPeerSeqType ==
  ASSUME TypeOK, NEW n \in Node, NEW q \in Node, NEW seq \in Nat,
         SetPeerSeq(n, q, seq)
  PROVE  mark' \in [Node -> [Node -> Nat]]
  BY DEF TypeOK, SetPeerSeq

\* Counting environment events.
LEMMA SpendType ==
  ASSUME TypeOK, NEW E, Spend(E)
  PROVE  spent' \in [EnvEvent -> Nat]
  BY DEF TypeOK, Spend

\* A local write of a well-formed entry.
LEMMA LocalWriteType ==
  ASSUME TypeOK, NEW n \in Node, NEW m \in Meta,
         NEW seen \in SUBSET (Content \cup {NoHash}), LocalWrite(n, m, seen),
         blobs' \in [Node -> SUBSET Content]
  PROVE  TypeOK'
<1>1. last' \in [Node -> Timestamp] /\ now' \in 1 .. MaxTime
      /\ mark' \in [Node -> [Node -> Nat]] /\ pull' \in [Node -> [Node -> Pull]]
  BY DEF LocalWrite, TypeOK, Meta, Version
<1>2. CASE UNCHANGED <<rows, head, written, over>> /\ Spend({"write", "fault"})
  BY <1>1, <1>2, SpendType DEF TypeOK
<1>3. CASE /\ rows' = [rows EXCEPT ![n] = Upsert(@, AppendRow({}, 0, m), head[n])]
           /\ head' = [head EXCEPT ![n] = @ + 1]
           /\ written' = written \cup ({m.hash} \ {NoHash})
           /\ over' = over \cup (seen \ {NoHash, m.hash})
           /\ Spend({"write"})
  <2>1. AppendRow({}, 0, m) \in SUBSET Meta
    BY AppendRowFacts
  <2>2. Upsert(rows[n], AppendRow({}, 0, m), head[n]) \in SUBSET Meta
    BY <2>1, UpsertFacts, Parts
  <2>3. rows' \in [Node -> SUBSET Meta] /\ head' \in [Node -> Nat]
    BY <1>3, <2>2 DEF TypeOK
  <2>4. written' \subseteq Content /\ over' \subseteq Content
    BY <1>3 DEF TypeOK, Meta
  <2>5. spent' \in [EnvEvent -> Nat]
    BY <1>3, SpendType
  <2> QED
    BY <1>1, <2>3, <2>4, <2>5 DEF TypeOK
<1> QED
  BY <1>2, <1>3 DEF LocalWrite, CommitLocal

\* The version of a local write.
LEMMA StampType ==
  ASSUME TypeOK, NEW n \in Node
  PROVE  Stamp(n) \in Version
  BY Parts, NowFacts DEF Stamp, Version

\* A local operation of n on any path, seen being what its caller knew of it.
Operation(n, seen) ==
  \/ \E p \in Path, c \in Content, a \in Attr : PutFile(n, p, c, a, seen)
  \/ \E p \in Path, a \in Attr : PutDir(n, p, a, seen)
  \/ \E cur \in rows[n], a \in Attr : SetAttr(n, cur, a) /\ seen = {}
  \/ \E cur \in rows[n] : Delete(n, cur, seen)

\* What a caller may have seen at a path.
Sights == SUBSET (Content \cup {NoHash})

\* m is a row that an operation of n may write: a file whose content fits and has
\* been stored, a directory, a tombstone, or a live row with other attributes.
Writable(n, m) ==
  \/ /\ m.kind = "file" /\ ~m.deleted /\ m.hash \in Content
     /\ m.hash \in blobs'[n] /\ m.hash \notin TooLarge[n]
  \/ m.kind = "dir" /\ m.hash = NoHash
  \/ m.deleted /\ m.hash = NoHash
  \/ \E cur \in Live(rows[n]) :
       /\ m.path = cur.path /\ m.kind = cur.kind
       /\ m.hash = cur.hash /\ m.deleted = cur.deleted

\* An operation writes one such row, stamped by the node's clock; PutFile has
\* stored the content first, the other operations bring none.
LEMMA OperationRow ==
  ASSUME TypeOK, NEW n \in Node, NEW seen, Operation(n, seen)
  PROVE  /\ blobs' \in [Node -> SUBSET Content]
         /\ \A i \in Node : blobs[i] \subseteq blobs'[i]
         /\ \E m \in Meta : /\ m.ver = Stamp(n) /\ LocalWrite(n, m, seen)
                            /\ Writable(n, m)
<1> DEFINE Written == \E m \in Meta : /\ m.ver = Stamp(n) /\ LocalWrite(n, m, seen)
                                      /\ Writable(n, m)
<1>1. /\ rows[n] \in SUBSET Meta /\ physical(n) \in Nat /\ Stamp(n) \in Version
      /\ blobs \in [Node -> SUBSET Content]
  BY Parts, StampType DEF TypeOK
<1>2. (\E c \in Content : PutBlob(n, c)) \/ UNCHANGED blobs
  BY DEF Operation, PutFile, PutDir, SetAttr, Delete
<1>3. /\ blobs' \in [Node -> SUBSET Content]
      /\ \A i \in Node : blobs[i] \subseteq blobs'[i]
  BY <1>1, <1>2 DEF PutBlob
<1>4. ASSUME NEW p \in Path, NEW c \in Content, NEW a \in Attr,
             PutFile(n, p, c, a, seen)
      PROVE  Written
  <2> DEFINE m == [path |-> p, kind |-> "file", hash |-> c,
                   prev |-> HashAt(rows[n], p), attr |-> a, ver |-> Stamp(n),
                   deleted |-> FALSE, deletedAt |-> 0, seq |-> 0]
  <2>1. m \in Meta /\ m.ver = Stamp(n) /\ m.kind = "file" /\ m.hash = c /\ ~m.deleted
    BY <1>1, HashAtType DEF Meta
  <2>2. /\ LocalWrite(n, m, seen) /\ c \notin TooLarge[n] /\ c \in blobs'[n]
    BY <1>1, <1>4 DEF PutFile, PutBlob
  <2> HIDE DEF m
  <2> QED
    BY <2>1, <2>2 DEF Writable
<1>5. ASSUME NEW p \in Path, NEW a \in Attr, PutDir(n, p, a, seen)
      PROVE  Written
  <2> DEFINE m == [path |-> p, kind |-> "dir", hash |-> NoHash,
                   prev |-> NoHash, attr |-> a, ver |-> Stamp(n),
                   deleted |-> FALSE, deletedAt |-> 0, seq |-> 0]
  <2>1. m \in Meta /\ m.ver = Stamp(n) /\ m.kind = "dir" /\ m.hash = NoHash
    BY <1>1 DEF Meta
  <2>2. LocalWrite(n, m, seen)
    BY <1>5 DEF PutDir
  <2> HIDE DEF m
  <2> QED
    BY <2>1, <2>2 DEF Writable
<1>6. ASSUME NEW cur \in rows[n], NEW a \in Attr, SetAttr(n, cur, a), seen = {}
      PROVE  Written
  <2> DEFINE m == [cur EXCEPT !.attr = a, !.prev = cur.hash,
                              !.ver = Stamp(n), !.seq = 0]
  <2>1. m \in Meta /\ m.ver = Stamp(n)
    BY <1>1 DEF Meta
  <2>2. m.path = cur.path /\ m.kind = cur.kind /\ m.hash = cur.hash
        /\ m.deleted = cur.deleted
    BY <1>1 DEF Meta
  <2>3. LocalWrite(n, m, seen) /\ cur \in Live(rows[n])
    BY <1>6 DEF SetAttr
  <2> HIDE DEF m
  <2> QED
    BY <2>1, <2>2, <2>3 DEF Writable
<1>7. ASSUME NEW cur \in rows[n], Delete(n, cur, seen)
      PROVE  Written
  <2> DEFINE m == [path |-> cur.path, kind |-> cur.kind, hash |-> NoHash,
                   prev |-> cur.hash, attr |-> cur.attr, ver |-> Stamp(n),
                   deleted |-> TRUE, deletedAt |-> physical(n), seq |-> 0]
  <2>1. m \in Meta /\ m.ver = Stamp(n) /\ m.deleted /\ m.hash = NoHash
    BY <1>1 DEF Meta
  <2>2. LocalWrite(n, m, seen)
    BY <1>7 DEF Delete
  <2> HIDE DEF m
  <2> QED
    BY <2>1, <2>2 DEF Writable
<1> QED
  BY <1>3, <1>4, <1>5, <1>6, <1>7 DEF Operation

\* Users write to paths.
LEMMA UserPathsType ==
  ASSUME TypeOK, NEW n \in Node
  PROVE  UserPaths(n) \subseteq Path
<1>1. \A a \in Name : UserPath(a) \in Path
  BY DEF UserPath, Path
<1>2. rows[n] \in SUBSET Meta
  BY Parts
<1> QED
  BY <1>1, <1>2 DEF UserPaths, Meta, Live

\* What a user of Replication does is one of these operations.
LEMMA UserOperates ==
  ASSUME TypeOK, NEW n \in Node, UserWrite(n)
  PROVE  \E seen \in Sights : Operation(n, seen)
<1>1. rows[n] \in SUBSET Meta /\ UserPaths(n) \subseteq Path
  BY Parts, UserPathsType
<1>2. \A p : {HashAt(rows[n], p)} \in Sights
  BY <1>1, HashAtType DEF Sights
<1>3. \A cur \in rows[n] : {cur.hash} \in Sights
  BY <1>1 DEF Sights, Meta
<1>4. {} \in Sights
  BY DEF Sights
<1> QED
  BY <1>1, <1>2, <1>3, <1>4 DEF UserWrite, Operation

\* A step of the cluster, or a local operation that Replication itself leaves to
\* what is built on it.
Step == [Next]_vars \/ \E n \in Node : \E seen \in Sights : Operation(n, seen)

\* Operations keep the types.
LEMMA OperationType ==
  ASSUME TypeOK, NEW n \in Node, NEW seen \in Sights, Operation(n, seen)
  PROVE  TypeOK'
<1>1. blobs' \in [Node -> SUBSET Content]
  BY OperationRow
<1>2. PICK m \in Meta : LocalWrite(n, m, seen)
  BY OperationRow
<1> QED
  BY <1>1, <1>2, LocalWriteType DEF Sights

\* The steps of a pull before it applies a page.
LEMMA FetchType ==
  ASSUME TypeOK, NEW n \in Node, NEW q \in Node,
         \/ FetchDigest(n, q) \/ CompareDigest(n, q)
         \/ FetchPage(n, q) \/ LockWrite(n, q)
  PROVE  TypeOK'
<1> DEFINE r == pull[n][q]
<1>1. /\ r \in Pull /\ mark[n][q] \in Nat
      /\ rows[q] \in SUBSET Meta /\ rows[n] \in SUBSET Meta
  BY Parts
<1>2. CASE FetchDigest(n, q)
  <2>1. PICK h \in {0} \cup {m.seq : m \in rows[q]} :
          SetPull(n, q, [Idle EXCEPT !.pc = "digest",
                                     !.tree = Digest(rows[q]), !.dhead = h])
    BY <1>2 DEF FetchDigest
  <2>2. h \in Nat
    BY <1>1 DEF Meta
  <2>3. [Idle EXCEPT !.pc = "digest", !.tree = Digest(rows[q]), !.dhead = h]
          \in Pull
    BY <1>1, <2>2, DigestType, IdleType DEF Pull
  <2> QED
    BY <1>2, <2>1, <2>3, SetPullType DEF FetchDigest, TypeOK, store, history
<1>3. CASE CompareDigest(n, q)
  <2> DEFINE equal == Digest(rows[n]) = r.tree
             start == IF equal THEN r.dhead ELSE Since(mark[n][q], r.dhead)
             next == [Idle EXCEPT !.pc = IF equal THEN "mark" ELSE "walk",
                                  !.cursor = start, !.bookmark = start]
  <2>1. start \in Nat
    BY <1>1 DEF Since, Pull
  <2> HIDE DEF equal, start
  <2>2. next \in Pull
    BY <2>1, IdleType DEF Pull
  <2>3. SetPull(n, q, next)
    BY <1>3 DEF CompareDigest, equal, start
  <2>4. pull' \in [Node -> [Node -> Pull]]
    BY <2>2, <2>3, SetPullType
  <2> QED
    BY <1>3, <2>4 DEF CompareDigest, TypeOK, store, history
<1>4. CASE FetchPage(n, q)
  <2> DEFINE page == ManifestPage(rows[q], r.cursor, PageSize)
             next == [r EXCEPT !.pc = "page", !.page = page,
                               !.more = HasMore(rows[q], r.cursor, PageSize),
                               !.batch = {}, !.count = 0,
                               !.safe = 0, !.deferred = FALSE]
  <2>1. page \in SUBSET Meta
    BY <1>1 DEF ManifestPage
  <2>2. HasMore(rows[q], r.cursor, PageSize) \in BOOLEAN
    BY DEF HasMore
  <2>3. next \in Pull
    BY <1>1, <2>1, <2>2 DEF Pull
  <2>4. pull' \in [Node -> [Node -> Pull]]
    BY <1>4, <2>3, IdleType, SetPullType DEF FetchPage
  <2> QED
    BY <1>4, <2>4 DEF FetchPage, TypeOK, store, history
<1>5. CASE LockWrite(n, q)
  <2>1. [r EXCEPT !.pc = "apply"] \in Pull
    BY <1>1 DEF Pull
  <2>2. pull' \in [Node -> [Node -> Pull]]
    BY <1>5, <2>1, SetPullType DEF LockWrite
  <2> QED
    BY <1>5, <2>2 DEF LockWrite, TypeOK, store, history
<1> QED
  BY <1>2, <1>3, <1>4, <1>5

\* Leaving an entry of a page, with or without advancing the bookmark.
LEMMA AdvanceFacts ==
  ASSUME NEW r \in Pull, NEW m \in Meta
  PROVE  /\ Past(r, m) \in Pull /\ Advance(r, m) \in Pull
         /\ [Past(r, m) EXCEPT !.deferred = TRUE] \in Pull
         /\ Advance(r, m).batch = r.batch /\ Advance(r, m).pc = r.pc
         /\ Advance(r, m).count = r.count
         /\ [Past(r, m) EXCEPT !.deferred = TRUE].batch = r.batch
         /\ [Past(r, m) EXCEPT !.deferred = TRUE].pc = r.pc
         /\ [Past(r, m) EXCEPT !.deferred = TRUE].count = r.count
  BY DEF Past, Advance, Greater, Pull, Meta

\* Adding a row to the batch of a pull.
LEMMA AddRowFacts ==
  ASSUME NEW r \in Pull, NEW m \in Meta
  PROVE  /\ AddRow(r, m) \in Pull
         /\ AddRow(r, m).pc = r.pc
         /\ AddRow(r, m).batch = AppendRow(r.batch, r.count, m)
         /\ AddRow(r, m).count = r.count + 1
<1>1. r.batch \in SUBSET Meta /\ r.count \in Nat /\ r.count + 1 \in Nat
  BY DEF Pull
<1>2. AppendRow(r.batch, r.count, m) \in SUBSET Meta
  BY <1>1, AppendRowFacts
<1> DEFINE B == AppendRow(r.batch, r.count, m)
           k == r.count + 1
<1>3. AddRow(r, m) = [r EXCEPT !.batch = B, !.count = k]
  BY DEF AddRow
<1>4. B \in SUBSET Meta /\ k \in Nat
  BY <1>1, <1>2
<1> HIDE DEF B, k
<1>5. AddRow(r, m) \in Pull
  BY <1>3, <1>4 DEF Pull
<1>6. AddRow(r, m).pc = r.pc
  BY <1>3 DEF Pull
<1>7. AddRow(r, m).batch = B
  BY <1>3 DEF Pull
<1>8. AddRow(r, m).count = k
  BY <1>3 DEF Pull
<1> QED
  BY <1>5, <1>6, <1>7, <1>8 DEF B, k

\* The clock after an entry was observed, and the conflict copy made of the
\* local row.
LEMMA ObservedType ==
  ASSUME TypeOK, NEW n \in Node, NEW m \in Meta
  PROVE  /\ Observed(n, m) \in Timestamp /\ ClockAfter(n, m) \in Timestamp
         /\ \A local \in Meta :
              conflictCopy(n, local, ClockAfter(n, m)) \in Meta
<1>1. m.ver.hlc \in Timestamp /\ last[n] \in Timestamp /\ physical(n) \in Nat
  BY Parts DEF Meta, Version
<1>2. Observed(n, m) \in Timestamp
  BY <1>1, ObserveFacts DEF Observed
<1>3. ClockAfter(n, m) \in Timestamp
  BY <1>1, <1>2, NowFacts DEF ClockAfter
<1>4. ASSUME NEW local \in Meta
      PROVE  conflictCopy(n, local, ClockAfter(n, m)) \in Meta
  <2>1. ConflictName(local.path, local.ver) \in Path
    BY ConflictNameType DEF Meta
  <2>2. [hlc |-> ClockAfter(n, m), origin |-> n] \in Version
    BY <1>3 DEF Version
  <2> QED
    BY <2>1, <2>2 DEF conflictCopy, Meta
<1> QED
  BY <1>2, <1>3, <1>4

\* The row a conflict is about exists.
LEMMA ConflictHasLocal ==
  ASSUME NEW n, NEW m, Decision(n, m) \in {"conflict", "skip"}
  PROVE  Have(rows[n], m.path)
  BY DEF Decision

\* The pull once the conflict copy, if any, is in the batch.
LEMMA WithCopyFacts ==
  ASSUME TypeOK, NEW n \in Node, NEW m \in Meta, NEW r \in Pull
  PROVE  WithCopy(n, r, m) \in Pull /\ WithCopy(n, r, m).pc = r.pc
<1>1. CASE Decision(n, m) = "conflict"
  <2>1. Get(rows[n], m.path) \in Meta
    BY <1>1, ConflictHasLocal, GetFacts, Parts
  <2>2. conflictCopy(n, Get(rows[n], m.path), ClockAfter(n, m)) \in Meta
    BY <2>1, ObservedType
  <2> QED
    BY <1>1, <2>2, AddRowFacts DEF WithCopy
<1>2. CASE Decision(n, m) # "conflict"
  BY <1>2 DEF WithCopy
<1> QED
  BY <1>1, <1>2

\* The four outcomes of an entry.
LEMMA ApplyEntryType ==
  ASSUME TypeOK, NEW n \in Node, NEW q \in Node, ApplyEntry(n, q)
  PROVE  TypeOK'
<1> DEFINE r == pull[n][q]
<1>1. r \in Pull /\ r.page \in SUBSET Meta /\ blobs[n] \in SUBSET Content
      /\ blobs[q] \in SUBSET Content
  BY Parts DEF Pull
<1>2. PICK m \in r.page : \/ RejectEntry(n, q, m) \/ SkipEntry(n, q, m)
                          \/ TakeEntry(n, q, m) \/ DeferEntry(n, q, m)
  BY DEF ApplyEntry
<1>3. m \in Meta
  BY <1>1
<1>4. Advance(r, m) \in Pull
  BY <1>1, <1>3, AdvanceFacts
<1>5. WithCopy(n, r, m) \in Pull
  BY <1>1, <1>3, WithCopyFacts
<1>6. Observed(n, m) \in Timestamp /\ ClockAfter(n, m) \in Timestamp
  BY <1>3, ObservedType
<1>7. CASE RejectEntry(n, q, m)
  <2>1. pull' \in [Node -> [Node -> Pull]]
    BY <1>4, <1>7, SetPullType DEF RejectEntry
  <2> QED
    BY <1>7, <2>1 DEF RejectEntry, TypeOK, store, history
<1>8. CASE SkipEntry(n, q, m)
  <2>1. pull' \in [Node -> [Node -> Pull]]
    BY <1>4, <1>8, SetPullType DEF SkipEntry
  <2> QED
    BY <1>6, <1>8, <2>1 DEF SkipEntry, TypeOK, store, history
<1>9. CASE TakeEntry(n, q, m)
  <2>1. Advance(AddRow(WithCopy(n, r, m), m), m) \in Pull
    BY <1>3, <1>5, AddRowFacts, AdvanceFacts
  <2>2. pull' \in [Node -> [Node -> Pull]]
    BY <1>9, <2>1, SetPullType DEF TakeEntry
  <2>3. blobs' \in [Node -> SUBSET Content]
    BY <1>1, <1>9 DEF TakeEntry, Fetched, Served, TypeOK
  <2> QED
    BY <1>6, <1>9, <2>2, <2>3 DEF TakeEntry, TypeOK, history
<1>10. CASE DeferEntry(n, q, m)
  <2>1. [Past(WithCopy(n, r, m), m) EXCEPT !.deferred = TRUE] \in Pull
    BY <1>3, <1>5, AdvanceFacts
  <2>2. pull' \in [Node -> [Node -> Pull]]
    BY <1>10, <2>1, SetPullType DEF DeferEntry
  <2>3. spent' \in [EnvEvent -> Nat]
    BY <1>10, SpendType DEF DeferEntry, TypeOK
  <2> QED
    BY <1>6, <1>10, <2>2, <2>3 DEF DeferEntry, TypeOK, store
<1> QED
  BY <1>2, <1>7, <1>8, <1>9, <1>10

\* The steps that end a page or a pull.
LEMMA FinishType ==
  ASSUME TypeOK, NEW n \in Node, NEW q \in Node,
         CommitPage(n, q) \/ RecordBookmark(n, q) \/ AbortPull(n, q)
  PROVE  TypeOK'
<1> DEFINE r == pull[n][q]
<1>1. r \in Pull /\ rows[n] \in SUBSET Meta /\ head[n] \in Nat
  BY Parts
<1>2. CASE CommitPage(n, q)
  <2>1. r.batch \in SUBSET Meta /\ r.count \in Nat
    BY <1>1 DEF Pull
  <2>2. Upsert(rows[n], r.batch, head[n]) \in SUBSET Meta
    BY <1>1, <2>1, UpsertFacts
  <2>3. [r EXCEPT !.pc = "mark", !.batch = {}, !.count = 0] \in Pull
    BY <1>1 DEF Pull
  <2>4. pull' \in [Node -> [Node -> Pull]]
    BY <1>2, <2>3, SetPullType DEF CommitPage
  <2>5. rows' \in [Node -> SUBSET Meta] /\ head' \in [Node -> Nat]
    BY <1>2, <2>1, <2>2 DEF CommitPage, TypeOK
  <2> QED
    BY <1>2, <2>4, <2>5 DEF CommitPage, TypeOK, history
<1>3. CASE RecordBookmark(n, q)
  <2> DEFINE b == Greater(r.bookmark, r.safe)
  <2>1. b \in Nat /\ r.cursor \in Nat
    BY <1>1 DEF Pull, Greater
  <2>2. [Idle EXCEPT !.pc = "walk", !.cursor = r.cursor, !.bookmark = b] \in Pull
    BY <2>1, IdleType DEF Pull
  <2>3. pull' \in [Node -> [Node -> Pull]]
    BY <1>3, <2>2, IdleType, SetPullType DEF RecordBookmark
  <2>4. mark' \in [Node -> [Node -> Nat]]
    BY <1>3, <2>1, SetPeerSeqType DEF RecordBookmark
  <2> QED
    BY <1>3, <2>3, <2>4 DEF RecordBookmark, TypeOK, history
<1>4. CASE AbortPull(n, q)
  <2>1. pull' \in [Node -> [Node -> Pull]]
    BY <1>4, IdleType, SetPullType DEF AbortPull
  <2>2. spent' \in [EnvEvent -> Nat]
    BY <1>4, SpendType DEF AbortPull
  <2> QED
    BY <1>4, <2>1, <2>2 DEF AbortPull, TypeOK, store
<1> QED
  BY <1>2, <1>3, <1>4

\* The janitor, time, restarts and lost databases.
LEMMA NodeType ==
  ASSUME TypeOK, Tick \/ \E n \in Node : Collect(n) \/ Restart(n) \/ Wipe(n)
  PROVE  TypeOK'
<1>1. CASE Tick
  BY <1>1, ReplicationAssumption DEF Tick, TypeOK, store, history
<1>2. ASSUME NEW n \in Node, Collect(n) PROVE TypeOK'
  <2>1. rows' \in [Node -> SUBSET Meta]
    BY <1>2 DEF Collect, TypeOK
  <2>2. blobs' \in [Node -> SUBSET Content]
    BY <1>2 DEF Collect, TypeOK
  <2>3. spent' \in [EnvEvent -> Nat]
    BY <1>2, SpendType DEF Collect
  <2> QED
    BY <1>2, <2>1, <2>2, <2>3 DEF Collect, TypeOK
<1> DEFINE none == [q \in Node |-> Idle]
           zeros == [q \in Node |-> 0]
<1>3. none \in [Node -> Pull] /\ zeros \in [Node -> Nat] /\ ZeroTime \in Timestamp
  BY IdleType, HLCAssumption DEF ZeroTime, Timestamp
<1>4. ASSUME NEW n \in Node, Restart(n) PROVE TypeOK'
  <2>1. spent' \in [EnvEvent -> Nat]
    BY <1>4, SpendType DEF Restart
  <2>2. pull' = [pull EXCEPT ![n] = none] /\ last' = [last EXCEPT ![n] = ZeroTime]
    BY <1>4 DEF Restart
  <2> HIDE DEF none
  <2>3. pull' \in [Node -> [Node -> Pull]] /\ last' \in [Node -> Timestamp]
    BY <1>3, <2>2 DEF TypeOK
  <2> QED
    BY <1>4, <2>1, <2>3, ReplicationAssumption DEF Restart, TypeOK, store
<1>5. ASSUME NEW n \in Node, Wipe(n) PROVE TypeOK'
  <2>1. spent' \in [EnvEvent -> Nat]
    BY <1>5, SpendType DEF Wipe
  <2>2. /\ pull' = [pull EXCEPT ![n] = none] /\ last' = [last EXCEPT ![n] = ZeroTime]
        /\ mark' = [mark EXCEPT ![n] = zeros]
    BY <1>5 DEF Wipe
  <2> HIDE DEF none, zeros
  <2>3. /\ pull' \in [Node -> [Node -> Pull]] /\ last' \in [Node -> Timestamp]
        /\ mark' \in [Node -> [Node -> Nat]]
    BY <1>3, <2>2 DEF TypeOK
  <2>4. /\ rows' \in [Node -> SUBSET Meta] /\ head' \in [Node -> Nat]
        /\ blobs' \in [Node -> SUBSET Content] /\ now' \in 1 .. MaxTime
    BY <1>5, ReplicationAssumption DEF Wipe, TypeOK
  <2> QED
    BY <1>5, <2>1, <2>3, <2>4 DEF Wipe, TypeOK
<1> QED
  BY <1>1, <1>2, <1>4, <1>5

\* The initial state is well typed.
LEMMA TypeInit == Init => TypeOK
<1>1. ZeroTime \in Timestamp
  BY HLCAssumption DEF ZeroTime, Timestamp
<1> QED
  BY <1>1, IdleType, ReplicationAssumption DEF Init, TypeOK

\* Every step keeps the types.
LEMMA TypeStep == TypeOK /\ Step => TypeOK'
<1> SUFFICES ASSUME TypeOK, Step PROVE TypeOK'
  OBVIOUS
<1>1. CASE UNCHANGED vars
  BY <1>1 DEF vars, TypeOK
<1>2. ASSUME NEW n \in Writer, UserWrite(n) PROVE TypeOK'
  BY <1>2, UserOperates, OperationType, ReplicationAssumption
<1>3. ASSUME NEW n \in Node, NEW q \in Peers(n),
             PullStep(n, q) \/ LockWrite(n, q) \/ AbortPull(n, q)
      PROVE  TypeOK'
  <2>1. q \in Node
    BY DEF Peers
  <2> QED
    BY <1>3, <2>1, FetchType, ApplyEntryType, FinishType DEF PullStep
<1>4. CASE Tick \/ \E n \in Node : Collect(n) \/ Restart(n) \/ Wipe(n)
  BY <1>4, NodeType
<1>5. ASSUME NEW n \in Node, NEW seen \in Sights, Operation(n, seen) PROVE TypeOK'
  BY <1>5, OperationType
<1> QED
  BY <1>1, <1>2, <1>3, <1>4, <1>5 DEF Next, Step

\* Every reachable state is well typed: feed positions, bookmarks and cursors
\* stay natural numbers and counters in range, however pulls, failures and
\* rebuilt peers interleave.
THEOREM ReplicationTypeOK == Spec => []TypeOK
<1>1. [Next]_vars => Step
  BY DEF Step
<1> QED
  BY <1>1, TypeInit, TypeStep, PTL DEF Spec

---------------------------------------------------------------------------
(* The feed and the content behind it. *)

\* B holds the content of every live row of the table.
Held(table, B) == \A m \in table : ~m.deleted => m.hash \in B \cup {NoHash}

\* The batch a pull is building: only while it holds Service.write, numbered
\* like a feed, and made of rows whose content the node already has.
BatchOK(r, B) ==
  /\ r.pc # "apply" => r.batch = {}
  /\ FeedOK(r.batch, r.count)
  /\ Held(r.batch, B)

PullsOK == \A n, q \in Node : BatchOK(pull[n][q], blobs[n])

\* FeedWellFormed and ContentHeld alone are not inductive: CommitPage installs
\* a batch that was built, entry by entry, in earlier steps.
SafetyInv == TypeOK /\ PullsOK /\ FeedWellFormed /\ ContentHeld

\* One more row in a batch, even for a path that is in it.
LEMMA AppendFeed ==
  ASSUME NEW batch \in SUBSET Meta, NEW count \in Nat, NEW m \in Meta, NEW B,
         FeedOK(batch, count), Held(batch, B),
         ~m.deleted => m.hash \in B \cup {NoHash}
  PROVE  /\ FeedOK(AppendRow(batch, count, m), count + 1)
         /\ Held(AppendRow(batch, count, m), B)
<1> DEFINE A == AppendRow(batch, count, m)
<1>1. A \in SUBSET Meta
  BY AppendRowFacts
<1>2. \A b \in A : \/ b \in batch /\ b.path # m.path
                   \/ /\ b.path = m.path /\ b.seq = count + 1
                      /\ b.hash = m.hash /\ b.deleted = m.deleted
                      /\ b = [m EXCEPT !.seq = count + 1]
  BY AppendRowFacts
<1> HIDE DEF A
<1>3. \A b \in batch : b.seq \in 1 .. count
  BY DEF FeedOK
<1>4. \A a, b \in A : a.path = b.path \/ a.seq = b.seq => a = b
  BY <1>2, <1>3 DEF FeedOK
<1>5. \A b \in A : b.seq \in 1 .. count + 1
  BY <1>2, <1>3
<1>6. Held(A, B)
  BY <1>2 DEF Held
<1> QED
  BY <1>4, <1>5, <1>6 DEF FeedOK, A

\* Store.Apply keeps the feed well formed and the content present.
LEMMA UpsertFeed ==
  ASSUME NEW table \in SUBSET Meta, NEW batch \in SUBSET Meta,
         NEW base \in Nat, NEW count \in Nat, NEW B,
         FeedOK(table, base), FeedOK(batch, count),
         Held(table, B), Held(batch, B)
  PROVE  /\ FeedOK(Upsert(table, batch, base), base + count)
         /\ Held(Upsert(table, batch, base), B)
<1> DEFINE U == Upsert(table, batch, base)
<1>1. \A a \in U : \/ a \in table /\ \A b \in batch : b.path # a.path
                   \/ \E b \in batch :
                        /\ a = [b EXCEPT !.seq = base + b.seq]
                        /\ a.path = b.path /\ a.ver = b.ver /\ a.seq = base + b.seq
                        /\ a.hash = b.hash /\ a.deleted = b.deleted
  BY UpsertFacts
<1> HIDE DEF U
<1>2. /\ \A a \in table : a.seq \in 1 .. base
      /\ \A b \in batch : b.seq \in 1 .. count
  BY DEF FeedOK
<1>3. ASSUME NEW a \in U, NEW b \in U, a.path = b.path \/ a.seq = b.seq
      PROVE  a = b
  <2>1. CASE a \in table /\ b \in table
    BY <1>3, <2>1 DEF FeedOK
  <2>2. ASSUME NEW x \in U, NEW y \in batch, NEW z \in U,
               x.path = y.path, x.seq = base + y.seq,
               z \in table, \A c \in batch : c.path # z.path
        PROVE  x.path # z.path /\ x.seq # z.seq
    BY <1>2, <2>2
  <2>3. ASSUME NEW x \in batch, NEW y \in batch,
               a = [x EXCEPT !.seq = base + x.seq], a.path = x.path,
               a.seq = base + x.seq,
               b = [y EXCEPT !.seq = base + y.seq], b.path = y.path,
               b.seq = base + y.seq
        PROVE  a = b
    <3>1. x.path = y.path \/ x.seq = y.seq
      BY <1>2, <1>3, <2>3
    <3>2. x = y
      BY <3>1 DEF FeedOK
    <3> QED
      BY <2>3, <3>2
  <2> QED
    BY <1>1, <1>3, <2>1, <2>2, <2>3
<1>4. \A a \in U : a.seq \in 1 .. base + count
  BY <1>1, <1>2
<1>5. Held(U, B)
  BY <1>1 DEF Held
<1> QED
  BY <1>3, <1>4, <1>5 DEF FeedOK, U
\* A step that replaces one pull, and perhaps fetches a blob.
LEMMA SetPullSafe ==
  ASSUME SafetyInv, NEW n \in Node, NEW q \in Node, NEW r \in Pull,
         SetPull(n, q, r), UNCHANGED <<rows, head>>,
         \A i \in Node : blobs[i] \subseteq blobs'[i],
         BatchOK(r, blobs'[n])
  PROVE  PullsOK' /\ FeedWellFormed' /\ ContentHeld'
<1>1. /\ pull'[n][q] = r
      /\ \A i, j \in Node : i # n \/ j # q => pull'[i][j] = pull[i][j]
  BY SetPullType DEF SafetyInv
<1>2. PullsOK'
  <2> SUFFICES ASSUME NEW i \in Node, NEW j \in Node
               PROVE  BatchOK(pull'[i][j], blobs'[i])
    BY DEF PullsOK
  <2>1. CASE i = n /\ j = q
    BY <1>1, <2>1
  <2>2. CASE i # n \/ j # q
    <3>1. pull'[i][j] = pull[i][j] /\ BatchOK(pull[i][j], blobs[i])
      BY <1>1, <2>2 DEF SafetyInv, PullsOK
    <3> QED
      BY <3>1 DEF BatchOK, Held
  <2> QED
    BY <2>1, <2>2
<1>3. FeedWellFormed' /\ ContentHeld'
  BY DEF SafetyInv, FeedWellFormed, ContentHeld, Live
<1> QED
  BY <1>2, <1>3

\* A pull that has no batch is safe whatever it carries.
LEMMA NoBatchOK ==
  ASSUME NEW r, NEW B, r.batch = {}
  PROVE  BatchOK(r, B)
  BY DEF BatchOK, FeedOK, Held

\* A local write of a row whose content, if any, has been stored.
LEMMA LocalWriteSafe ==
  ASSUME SafetyInv, NEW n \in Node, NEW m \in Meta, NEW seen,
         LocalWrite(n, m, seen),
         \A i \in Node : blobs[i] \subseteq blobs'[i],
         ~m.deleted => m.hash \in blobs'[n] \cup {NoHash}
  PROVE  PullsOK' /\ FeedWellFormed' /\ ContentHeld'
<1>1. rows[n] \in SUBSET Meta /\ head[n] \in Nat
      /\ rows \in [Node -> SUBSET Meta] /\ head \in [Node -> Nat]
  BY Parts DEF SafetyInv, TypeOK
<1>2. PullsOK'
  BY DEF LocalWrite, SafetyInv, PullsOK, BatchOK, Held
<1>3. CASE UNCHANGED <<rows, head>>
  BY <1>2, <1>3 DEF SafetyInv, FeedWellFormed, ContentHeld, Live
<1>4. CASE /\ rows' = [rows EXCEPT ![n] = Upsert(@, AppendRow({}, 0, m), head[n])]
           /\ head' = [head EXCEPT ![n] = @ + 1]
  <2> DEFINE batch == AppendRow({}, 0, m)
  <2>1. batch \in SUBSET Meta
    BY AppendRowFacts
  <2>2. FeedOK({}, 0) /\ Held({}, blobs'[n])
    BY DEF FeedOK, Held
  <2>3. FeedOK(batch, 0 + 1) /\ Held(batch, blobs'[n])
    BY <2>2, AppendFeed
  <2>4. FeedOK(rows[n], head[n]) /\ Held(rows[n], blobs'[n])
    BY DEF SafetyInv, FeedWellFormed, ContentHeld, Live, Held
  <2> HIDE DEF batch
  <2>5. /\ FeedOK(Upsert(rows[n], batch, head[n]), head[n] + 1)
        /\ Held(Upsert(rows[n], batch, head[n]), blobs'[n])
    BY <1>1, <2>1, <2>3, <2>4, UpsertFeed
  <2>6. /\ rows'[n] = Upsert(rows[n], batch, head[n]) /\ head'[n] = head[n] + 1
        /\ \A i \in Node : i # n => rows'[i] = rows[i] /\ head'[i] = head[i]
    BY <1>1, <1>4 DEF batch
  <2>7. FeedWellFormed'
    BY <2>5, <2>6 DEF SafetyInv, FeedWellFormed
  <2>8. ContentHeld'
    BY <2>5, <2>6 DEF SafetyInv, ContentHeld, Live, Held
  <2> QED
    BY <1>2, <2>7, <2>8
<1> QED
  BY <1>3, <1>4 DEF LocalWrite, CommitLocal
\* An operation's row has its content, like the rows that were there.
LEMMA OperationSafe ==
  ASSUME SafetyInv, NEW n \in Node, NEW seen, Operation(n, seen)
  PROVE  PullsOK' /\ FeedWellFormed' /\ ContentHeld'
<1>1. TypeOK
  BY DEF SafetyInv
<1>2. \A i \in Node : blobs[i] \subseteq blobs'[i]
  BY <1>1, OperationRow
<1>3. PICK m \in Meta : LocalWrite(n, m, seen) /\ Writable(n, m)
  BY <1>1, OperationRow
<1>4. \A cur \in Live(rows[n]) : cur.hash \in blobs'[n] \cup {NoHash}
  BY <1>2 DEF SafetyInv, ContentHeld
<1>5. m.hash \in blobs'[n] \cup {NoHash}
  BY <1>3, <1>4 DEF Writable
<1> QED
  BY <1>2, <1>3, <1>5, LocalWriteSafe

\* The steps of a pull that leave its batch empty.
LEMMA NoBatchSafe ==
  ASSUME SafetyInv, NEW n \in Node, NEW q \in Node,
         \/ FetchDigest(n, q) \/ CompareDigest(n, q) \/ FetchPage(n, q)
         \/ RecordBookmark(n, q) \/ AbortPull(n, q)
  PROVE  PullsOK' /\ FeedWellFormed' /\ ContentHeld'
<1>1. TypeOK /\ pull \in [Node -> [Node -> Pull]] /\ UNCHANGED <<rows, head, blobs>>
  BY DEF SafetyInv, TypeOK, FetchDigest, CompareDigest, FetchPage,
         RecordBookmark, AbortPull, store
<1>2. TypeOK'
  BY <1>1, FetchType, FinishType
<1> DEFINE r == pull'[n][q]
<1>3. /\ r \in Pull
      /\ \A x : SetPull(n, q, x) => r = x
  BY <1>1, <1>2 DEF TypeOK, SetPull
<1>4. SetPull(n, q, r)
  BY <1>1 DEF FetchDigest, CompareDigest, FetchPage, RecordBookmark, AbortPull, SetPull
<1> HIDE DEF r
<1>5. r.batch = {}
  <2>1. Idle.batch = {}
    BY DEF Idle
  <2>2. pull[n][q] \in Pull
    BY <1>1
  <2>3. CASE FetchDigest(n, q)
    BY <1>3, <2>3 DEF FetchDigest, Idle
  <2>4. CASE CompareDigest(n, q)
    BY <1>3, <2>1, <2>4 DEF CompareDigest, Idle
  <2>5. CASE FetchPage(n, q)
    BY <1>3, <2>1, <2>2, <2>5 DEF FetchPage, Pull
  <2>6. CASE RecordBookmark(n, q)
    BY <1>3, <2>1, <2>6 DEF RecordBookmark, Idle
  <2>7. CASE AbortPull(n, q)
    BY <1>3, <2>1, <2>7 DEF AbortPull
  <2> QED
    BY <2>3, <2>4, <2>5, <2>6, <2>7
<1>6. BatchOK(r, blobs'[n])
  BY <1>5, NoBatchOK
<1> QED
  BY <1>1, <1>3, <1>4, <1>6, SetPullSafe

\* Service.write is taken with an empty batch.
LEMMA LockWriteSafe ==
  ASSUME SafetyInv, NEW n \in Node, NEW q \in Node, LockWrite(n, q)
  PROVE  PullsOK' /\ FeedWellFormed' /\ ContentHeld'
<1> DEFINE r == [pull[n][q] EXCEPT !.pc = "apply"]
<1>1. pull[n][q] \in Pull /\ pull[n][q].batch = {}
  BY Parts DEF SafetyInv, PullsOK, BatchOK, LockWrite
<1>2. r \in Pull
  BY <1>1 DEF Pull
<1>3. r.batch = {}
  BY <1>1 DEF Pull
<1>4. SetPull(n, q, r) /\ UNCHANGED <<rows, head, blobs>>
  BY DEF LockWrite, store
<1> HIDE DEF r
<1>5. BatchOK(r, blobs'[n])
  BY <1>3, NoBatchOK
<1> QED
  BY <1>2, <1>4, <1>5, SetPullSafe
\* A conflict copy carries the content of a live local row, which is there.
LEMMA WithCopySafe ==
  ASSUME SafetyInv, NEW n \in Node, NEW m \in Meta, NEW r \in Pull, NEW B,
         BatchOK(r, B), r.pc = "apply", blobs[n] \subseteq B
  PROVE  BatchOK(WithCopy(n, r, m), B)
<1>1. CASE Decision(n, m) = "conflict"
  <2> DEFINE local == Get(rows[n], m.path)
             copy == conflictCopy(n, local, ClockAfter(n, m))
  <2>1. local \in rows[n] /\ local \in Meta
    BY <1>1, ConflictHasLocal, GetFacts, Parts DEF SafetyInv
  <2>2. copy \in Meta
    BY <2>1, ObservedType DEF SafetyInv
  <2>3. copy.hash = local.hash
    BY <2>1 DEF conflictCopy, Meta
  <2>4. ~local.deleted
    BY <1>1, ConflictHasLocal DEF Decision, resolve
  <2>5. local.hash \in B \cup {NoHash}
    BY <2>1, <2>4 DEF SafetyInv, ContentHeld, Live
  <2>6. WithCopy(n, r, m) = AddRow(r, copy)
    BY <1>1 DEF WithCopy
  <2> HIDE DEF copy, local
  <2>7. /\ AddRow(r, copy).pc = r.pc
        /\ AddRow(r, copy).batch = AppendRow(r.batch, r.count, copy)
        /\ AddRow(r, copy).count = r.count + 1
    BY <2>2, AddRowFacts
  <2>8. r.batch \in SUBSET Meta /\ r.count \in Nat
    BY DEF Pull
  <2>9. FeedOK(r.batch, r.count) /\ Held(r.batch, B)
    BY DEF BatchOK
  <2>10. /\ FeedOK(AppendRow(r.batch, r.count, copy), r.count + 1)
         /\ Held(AppendRow(r.batch, r.count, copy), B)
    BY <2>2, <2>3, <2>5, <2>8, <2>9, AppendFeed
  <2> QED
    BY <2>6, <2>7, <2>10 DEF BatchOK
<1>2. CASE Decision(n, m) # "conflict"
  BY <1>2 DEF WithCopy
<1> QED
  BY <1>1, <1>2

\* applyRemote puts a row into the batch only once its content is there.
LEMMA ApplyEntrySafe ==
  ASSUME SafetyInv, NEW n \in Node, NEW q \in Node, ApplyEntry(n, q)
  PROVE  PullsOK' /\ FeedWellFormed' /\ ContentHeld'
<1> DEFINE r == pull[n][q]
<1>1. /\ TypeOK /\ r \in Pull /\ r.page \in SUBSET Meta
      /\ BatchOK(r, blobs[n]) /\ blobs \in [Node -> SUBSET Content]
  BY Parts DEF SafetyInv, PullsOK, Pull, TypeOK
<1>2. PICK m \in r.page : \/ RejectEntry(n, q, m) \/ SkipEntry(n, q, m)
                          \/ TakeEntry(n, q, m) \/ DeferEntry(n, q, m)
  BY DEF ApplyEntry
<1>3. m \in Meta /\ r.pc = "apply"
  BY <1>1, <1>2 DEF RejectEntry, SkipEntry, TakeEntry, DeferEntry, Admitted, NextEntry
<1> HIDE DEF r
<1>4. ASSUME NEW s \in Pull, NEW B, BatchOK(s, B)
      PROVE  /\ Advance(s, m) \in Pull /\ BatchOK(Advance(s, m), B)
             /\ [Past(s, m) EXCEPT !.deferred = TRUE] \in Pull
             /\ BatchOK([Past(s, m) EXCEPT !.deferred = TRUE], B)
  BY <1>3, <1>4, AdvanceFacts DEF BatchOK
<1>5. WithCopy(n, r, m) \in Pull /\ WithCopy(n, r, m).pc = "apply"
  BY <1>1, <1>3, WithCopyFacts
<1>6. CASE RejectEntry(n, q, m) \/ SkipEntry(n, q, m)
  <2>1. /\ SetPull(n, q, Advance(r, m)) /\ UNCHANGED <<rows, head, blobs>>
    BY <1>6 DEF RejectEntry, SkipEntry, store, r
  <2>2. Advance(r, m) \in Pull /\ BatchOK(Advance(r, m), blobs'[n])
    BY <1>1, <1>4, <2>1
  <2> QED
    BY <2>1, <2>2, SetPullSafe
<1>7. CASE TakeEntry(n, q, m)
  <2> DEFINE w == WithCopy(n, r, m)
  <2>1. /\ SetPull(n, q, Advance(AddRow(w, m), m)) /\ UNCHANGED <<rows, head>>
        /\ BlobAvailable(n, q, m) /\ ~Refused(n, m)
        /\ blobs' = [blobs EXCEPT ![n] =
                 @ \cup (IF NeedsBlob(m) THEN {m.hash} \cap Served(n, q) ELSE {})]
    BY <1>7 DEF TakeEntry, Fetched, Admitted, r
  <2>2. \A i \in Node : blobs[i] \subseteq blobs'[i]
    BY <1>1, <2>1
  <2>3. ~m.deleted => m.hash \in blobs'[n] \cup {NoHash}
    <3>1. m.kind \in {"file", "dir"}
      BY <1>3 DEF Meta
    <3>2. m.kind = "dir" => m.hash = NoHash
      BY <2>1 DEF Refused, Valid
    <3> QED
      BY <1>1, <2>1, <3>1, <3>2 DEF BlobAvailable, NeedsBlob
  <2>4. BatchOK(r, blobs'[n])
    BY <1>1, <2>2 DEF BatchOK, Held
  <2>5. BatchOK(w, blobs'[n])
    BY <1>1, <1>3, <2>2, <2>4, WithCopySafe
  <2>6. w \in Pull /\ w.pc = "apply" /\ w.batch \in SUBSET Meta /\ w.count \in Nat
    BY <1>5 DEF Pull
  <2> HIDE DEF w
  <2>7. /\ AddRow(w, m) \in Pull /\ AddRow(w, m).pc = "apply"
        /\ AddRow(w, m).batch = AppendRow(w.batch, w.count, m)
        /\ AddRow(w, m).count = w.count + 1
    BY <1>3, <2>6, AddRowFacts
  <2>8. FeedOK(w.batch, w.count) /\ Held(w.batch, blobs'[n])
    BY <2>5 DEF BatchOK
  <2>9. /\ FeedOK(AppendRow(w.batch, w.count, m), w.count + 1)
        /\ Held(AppendRow(w.batch, w.count, m), blobs'[n])
    BY <1>3, <2>3, <2>6, <2>8, AppendFeed
  <2>10. BatchOK(AddRow(w, m), blobs'[n])
    BY <2>7, <2>9 DEF BatchOK
  <2>11. /\ Advance(AddRow(w, m), m) \in Pull
         /\ BatchOK(Advance(AddRow(w, m), m), blobs'[n])
    BY <1>4, <2>7, <2>10
  <2> QED
    BY <2>1, <2>2, <2>11, SetPullSafe
<1>8. CASE DeferEntry(n, q, m)
  <2> DEFINE w == WithCopy(n, r, m)
  <2>1. /\ SetPull(n, q, [Past(w, m) EXCEPT !.deferred = TRUE])
        /\ UNCHANGED <<rows, head, blobs>>
    BY <1>8 DEF DeferEntry, store, r
  <2>2. BatchOK(w, blobs'[n])
    BY <1>1, <1>3, <2>1, WithCopySafe
  <2>3. /\ [Past(w, m) EXCEPT !.deferred = TRUE] \in Pull
        /\ BatchOK([Past(w, m) EXCEPT !.deferred = TRUE], blobs'[n])
    BY <1>4, <1>5, <2>2
  <2> HIDE DEF w
  <2> QED
    BY <2>1, <2>3, SetPullSafe
<1> QED
  BY <1>2, <1>6, <1>7, <1>8
\* Committing a page appends its batch to the feed.
LEMMA CommitPageSafe ==
  ASSUME SafetyInv, NEW n \in Node, NEW q \in Node, CommitPage(n, q)
  PROVE  PullsOK' /\ FeedWellFormed' /\ ContentHeld'
<1> DEFINE r == pull[n][q]
           done == [r EXCEPT !.pc = "mark", !.batch = {}, !.count = 0]
<1>1. /\ TypeOK /\ r \in Pull /\ BatchOK(r, blobs[n])
      /\ rows \in [Node -> SUBSET Meta] /\ head \in [Node -> Nat]
      /\ rows[n] \in SUBSET Meta /\ head[n] \in Nat
  BY Parts DEF SafetyInv, PullsOK, TypeOK
<1>2. r.batch \in SUBSET Meta /\ r.count \in Nat
  BY <1>1 DEF Pull
<1>3. done \in Pull
  BY <1>1 DEF Pull
<1>4. done.batch = {}
  BY <1>1 DEF Pull
<1>5. SetPull(n, q, done) /\ blobs' = blobs
  BY DEF CommitPage
<1>6. /\ rows'[n] = Upsert(rows[n], r.batch, head[n])
      /\ head'[n] = head[n] + r.count
      /\ \A i \in Node : i # n => rows'[i] = rows[i] /\ head'[i] = head[i]
  BY <1>1 DEF CommitPage
<1> HIDE DEF done
<1>7. BatchOK(done, blobs'[n])
  BY <1>4, NoBatchOK
<1>8. /\ pull'[n][q] = done
      /\ \A i, j \in Node : i # n \/ j # q => pull'[i][j] = pull[i][j]
  BY <1>1, <1>3, <1>5, SetPullType
<1>9. PullsOK'
  BY <1>5, <1>7, <1>8 DEF SafetyInv, PullsOK
<1>10. FeedOK(rows[n], head[n]) /\ Held(rows[n], blobs[n])
  BY DEF SafetyInv, FeedWellFormed, ContentHeld, Live, Held
<1>11. FeedOK(r.batch, r.count) /\ Held(r.batch, blobs[n])
  BY <1>1 DEF BatchOK
<1> HIDE DEF r
<1>12. /\ FeedOK(Upsert(rows[n], r.batch, head[n]), head[n] + r.count)
       /\ Held(Upsert(rows[n], r.batch, head[n]), blobs[n])
  BY <1>1, <1>2, <1>10, <1>11, UpsertFeed
<1>13. FeedWellFormed'
  BY <1>6, <1>12 DEF SafetyInv, FeedWellFormed
<1>14. ContentHeld'
  BY <1>5, <1>6, <1>12 DEF SafetyInv, ContentHeld, Live, Held
<1> QED
  BY <1>9, <1>13, <1>14

\* The janitor removes rows, and only blobs that neither a remaining row nor,
\* since it holds Service.write, a batch needs.
LEMMA CollectSafe ==
  ASSUME SafetyInv, NEW n \in Node, Collect(n)
  PROVE  PullsOK' /\ FeedWellFormed' /\ ContentHeld'
<1>1. /\ rows \in [Node -> SUBSET Meta] /\ blobs \in [Node -> SUBSET Content]
      /\ head' = head /\ pull' = pull /\ LockFree(n)
  BY DEF SafetyInv, TypeOK, Collect
<1>2. /\ rows'[n] \subseteq rows[n]
      /\ \A i \in Node : i # n => rows'[i] = rows[i] /\ blobs'[i] = blobs[i]
  BY <1>1 DEF Collect, Expired
<1>3. blobs'[n] = blobs[n] \/ blobs'[n] = blobs[n] \cap Referenced(rows'[n])
  BY <1>1 DEF Collect
<1>4. FeedWellFormed'
  <2> SUFFICES ASSUME NEW i \in Node PROVE FeedOK(rows'[i], head'[i])
    BY DEF FeedWellFormed
  <2>1. FeedOK(rows[i], head[i]) /\ rows'[i] \subseteq rows[i]
    BY <1>2 DEF SafetyInv, FeedWellFormed
  <2> QED
    BY <1>1, <2>1 DEF FeedOK
<1>5. ContentHeld'
  <2> SUFFICES ASSUME NEW i \in Node, NEW m \in rows'[i], ~m.deleted
               PROVE  m.hash \in blobs'[i] \cup {NoHash}
    BY DEF ContentHeld, Live
  <2>1. m \in rows[i]
    BY <1>2
  <2>2. m.hash \in blobs[i] \cup {NoHash}
    BY <2>1 DEF SafetyInv, ContentHeld, Live
  <2> QED
    BY <1>2, <1>3, <2>2 DEF Referenced
<1>6. PullsOK'
  <2> SUFFICES ASSUME NEW i \in Node, NEW j \in Node
               PROVE  BatchOK(pull'[i][j], blobs'[i])
    BY DEF PullsOK
  <2>1. BatchOK(pull[i][j], blobs[i])
    BY DEF SafetyInv, PullsOK
  <2>2. CASE i # n
    BY <1>1, <1>2, <2>1, <2>2
  <2>3. CASE i = n
    <3>1. pull[i][j].batch = {}
      BY <1>1, <2>1, <2>3 DEF LockFree, BatchOK
    <3> QED
      BY <1>1, <3>1, NoBatchOK
  <2> QED
    BY <2>2, <2>3
<1> QED
  BY <1>4, <1>5, <1>6

\* A process that dies loses its batches with everything else in memory.
LEMMA RestartSafe ==
  ASSUME SafetyInv, NEW n \in Node, Restart(n) \/ Wipe(n)
  PROVE  PullsOK' /\ FeedWellFormed' /\ ContentHeld'
<1> DEFINE none == [q \in Node |-> Idle]
<1>1. /\ rows \in [Node -> SUBSET Meta] /\ head \in [Node -> Nat]
      /\ blobs \in [Node -> SUBSET Content] /\ pull \in [Node -> [Node -> Pull]]
  BY DEF SafetyInv, TypeOK
<1>2. pull' = [pull EXCEPT ![n] = none]
  BY DEF Restart, Wipe
<1>3. \A j \in Node : none[j].batch = {}
  BY DEF Idle
<1> HIDE DEF none
<1>4. \A i \in Node : i # n => /\ rows'[i] = rows[i] /\ head'[i] = head[i]
                              /\ blobs'[i] = blobs[i] /\ pull'[i] = pull[i]
  BY <1>1, <1>2 DEF Restart, Wipe, store
<1>5. \/ rows'[n] = rows[n] /\ head'[n] = head[n] /\ blobs'[n] = blobs[n]
      \/ rows'[n] = {}
  BY <1>1 DEF Restart, Wipe, store
<1>6. PullsOK'
  <2> SUFFICES ASSUME NEW i \in Node, NEW j \in Node
               PROVE  BatchOK(pull'[i][j], blobs'[i])
    BY DEF PullsOK
  <2>1. CASE i = n
    BY <1>1, <1>2, <1>3, <2>1, NoBatchOK
  <2>2. CASE i # n
    BY <1>4, <2>2 DEF SafetyInv, PullsOK
  <2> QED
    BY <2>1, <2>2
<1>7. FeedWellFormed'
  BY <1>4, <1>5 DEF SafetyInv, FeedWellFormed, FeedOK
<1>8. ContentHeld'
  BY <1>4, <1>5 DEF SafetyInv, ContentHeld, Live
<1> QED
  BY <1>6, <1>7, <1>8

\* Every step keeps the invariant.
LEMMA SafetyStep == SafetyInv /\ Step => SafetyInv'
<1> SUFFICES ASSUME SafetyInv, Step PROVE SafetyInv'
  OBVIOUS
<1>1. TypeOK'
  BY TypeStep DEF SafetyInv
<1>2. CASE UNCHANGED <<rows, head, blobs, pull>>
  BY <1>1, <1>2 DEF SafetyInv, PullsOK, FeedWellFormed, ContentHeld
<1>3. ASSUME NEW n \in Writer, UserWrite(n) PROVE SafetyInv'
  BY <1>1, <1>3, UserOperates, OperationSafe, ReplicationAssumption DEF SafetyInv
<1>4. ASSUME NEW n \in Node, NEW q \in Peers(n),
             PullStep(n, q) \/ LockWrite(n, q) \/ AbortPull(n, q)
      PROVE  SafetyInv'
  <2>1. q \in Node
    BY DEF Peers
  <2> QED
    BY <1>1, <1>4, <2>1, NoBatchSafe, LockWriteSafe, ApplyEntrySafe,
       CommitPageSafe DEF PullStep, SafetyInv
<1>5. ASSUME NEW n \in Node, Collect(n) \/ Restart(n) \/ Wipe(n)
      PROVE  SafetyInv'
  BY <1>1, <1>5, CollectSafe, RestartSafe DEF SafetyInv
<1>6. CASE Tick
  BY <1>2, <1>6 DEF Tick, store
<1>7. CASE UNCHANGED vars
  BY <1>2, <1>7 DEF vars
<1>8. ASSUME NEW n \in Node, NEW seen \in Sights, Operation(n, seen)
      PROVE  SafetyInv'
  BY <1>1, <1>8, OperationSafe DEF SafetyInv
<1> QED
  BY <1>3, <1>4, <1>5, <1>6, <1>7, <1>8 DEF Next, Step

\* Empty stores satisfy the invariant.
LEMMA SafetyInit == Init => SafetyInv
<1> SUFFICES ASSUME Init PROVE SafetyInv
  OBVIOUS
<1>1. Idle.batch = {}
  BY DEF Idle
<1>2. PullsOK
  BY <1>1, NoBatchOK DEF Init, PullsOK
<1>3. FeedWellFormed /\ ContentHeld
  BY DEF Init, FeedWellFormed, FeedOK, ContentHeld, Live
<1> QED
  BY <1>2, <1>3, TypeInit DEF SafetyInv

\* In every node's store a path and a feed position name at most one row and
\* no position is above the counter, whatever batches Apply is given.
THEOREM ReplicationFeedWellFormed == Spec => []FeedWellFormed
<1>1. SafetyInv => FeedWellFormed
  BY DEF SafetyInv
<1>2. [Next]_vars => Step
  BY DEF Step
<1> QED
  BY <1>1, <1>2, SafetyInit, SafetyStep, PTL DEF Spec

\* No live file of any node points at content the node does not have, however
\* applyRemote, the janitor, users, failures and restarts interleave.
THEOREM ReplicationContentHeld == Spec => []ContentHeld
<1>1. SafetyInv => ContentHeld
  BY DEF SafetyInv
<1>2. [Next]_vars => Step
  BY DEF Step
<1> QED
  BY <1>1, <1>2, SafetyInit, SafetyStep, PTL DEF Spec
===========================================================================
