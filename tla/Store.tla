------------------------------- MODULE Store -------------------------------
(***************************************************************************)
(* What a node keeps in SQLite (internal/store), as pure operators on the  *)
(* entries table. A table is a set of rows with path as its key, a row is  *)
(* a core.Meta. Content addresses are modelled by the content itself       *)
(* (SHA-256 is taken to be injective), sizes by the content, and           *)
(* mode/uid/gid by one attribute.                                          *)
(***************************************************************************)
EXTENDS HLC, Sequences, FiniteSets

CONSTANTS
  Node,      \* node identifiers; their order is the tiebreak of versions
  Name,      \* the paths users write to
  Content,   \* file contents
  NoHash,    \* the empty hash: a directory, a tombstone, or "was absent"
  Attr       \* mode, uid and gid

ASSUME StoreAssumption ==
  /\ Node \subseteq Nat
  /\ NoHash \notin Content

Version == [hlc : Timestamp, origin : Node]

\* A path is a name, then one suffix ".conflict.<node>.<wall>" for every time
\* a conflict copy was derived from it.
Path == [name : Name, suffix : Seq([node : Node, wall : Nat])]

Meta == [path : Path, kind : {"file", "dir"},
         hash : Content \cup {NoHash}, prev : Content \cup {NoHash},
         attr : Attr, ver : Version,
         deleted : BOOLEAN, deletedAt : Nat, seq : Nat]

UserPath(a) == [name |-> a, suffix |-> << >>]

\* core.ConflictName: the node and the wall component of the losing version;
\* the counter is not part of the name.
ConflictName(p, v) ==
  [p EXCEPT !.suffix = Append(@, [node |-> v.origin, wall |-> v.hlc.wall])]

IsConflictName(p) == p.suffix # << >>

---------------------------------------------------------------------------
(* Reads. *)

Have(table, p) == \E m \in table : m.path = p

\* Store.Get of a path that Have.
Get(table, p) == CHOOSE m \in table : m.path = p

\* PrevHash of a new write: the hash it replaces, empty when there is none.
HashAt(table, p) == IF Have(table, p) THEN Get(table, p).hash ELSE NoHash

Live(table) == {m \in table : ~m.deleted}

\* Store.Digest hashes the replicated fields of every row, tombstones
\* included; seq, prev and deletedAt are left out.
Digest(table) ==
  {[path |-> m.path, kind |-> m.kind, hash |-> m.hash, attr |-> m.attr,
    ver |-> m.ver, deleted |-> m.deleted] : m \in table}

TreeEntry == [path : Path, kind : {"file", "dir"}, hash : Content \cup {NoHash},
              attr : Attr, ver : Version, deleted : BOOLEAN]

\* The head Digest reports: the greatest seq of a row, 0 for an empty table.
IsDigestHead(h, table) ==
  /\ \A m \in table : m.seq <= h
  /\ h = 0 \/ \E m \in table : m.seq = h

\* A page without ORDER BY seq: any limit rows, here those of highest seq.
ManifestPageUnordered(table, since, limit) ==
  {m \in table :
     /\ m.seq > since
     /\ Cardinality({o \in table : o.seq > m.seq}) < limit}

\* Store.ManifestSince cut to one page: the limit rows of lowest seq above
\* since, in the order of seq.
ManifestPage(table, since, limit) ==
  {m \in table :
     /\ m.seq > since
     /\ Cardinality({o \in table : o.seq > since /\ o.seq < m.seq}) < limit}

\* Whether getManifest's one extra row came back.
HasMore(table, since, limit) ==
  Cardinality({m \in table : m.seq > since}) > limit

---------------------------------------------------------------------------
(* Writes. *)

\* Rows of a batch numbered from 0.
AppendRowFromZero(batch, count, m) ==
  {b \in batch : b.path # m.path} \cup {[m EXCEPT !.seq = count]}

\* Adding a row to a pending batch. Rows of a batch are numbered from 1; two
\* rows for one path end as the later one does in a single upsert.
AppendRow(batch, count, m) ==
  {b \in batch : b.path # m.path} \cup {[m EXCEPT !.seq = count + 1]}

\* Store.Apply's upsert: each row of the batch replaces the row of its path
\* and is stamped with its feed position after base.
Upsert(table, batch, base) ==
  {m \in table : ~Have(batch, m.path)}
    \cup {[b EXCEPT !.seq = base + @] : b \in batch}

\* The tombstones GCTombstones removes.
Expired(table, horizon) ==
  {m \in table : m.deleted /\ m.deletedAt > 0 /\ m.deletedAt < horizon}

\* The hashes GCBlobs keeps.
Referenced(table) == {m.hash : m \in table} \ {NoHash}

---------------------------------------------------------------------------
(* The pure decision of internal/syncer/resolve.go about a remote entry    *)
(* and the local row of its path.                                          *)

\* A resolve that takes every winning write for a supersession.
resolveNeverConflicts(local, remote) ==
  IF Equal(local.ver, remote.ver) \/ After(local.ver, remote.ver)
  THEN "skip" ELSE "accept"

\* A resolve that compares wall times and forgets the counter.
resolveByWall(local, remote) ==
  IF Equal(local.ver, remote.ver) \/ local.ver.hlc.wall > remote.ver.hlc.wall
  THEN "skip" ELSE "accept"

resolve(local, remote) ==
  CASE Equal(local.ver, remote.ver) \/ After(local.ver, remote.ver) -> "skip"
    [] OTHER ->
         IF \/ local.deleted
            \/ local.hash = NoHash
            \/ remote.prev = local.hash
            \/ remote.hash = local.hash
         THEN "accept"
         ELSE "conflict"
===========================================================================
