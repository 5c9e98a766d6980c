---------------------------- MODULE Replication ----------------------------
(***************************************************************************)
(* The replicated tree: every node's store (internal/store), its single    *)
(* writer and its anti-entropy (internal/syncer), against the peer API     *)
(* (internal/transport) of the others.                                     *)
(*                                                                         *)
(* A node pulls from every peer it sees. A pull is the goroutine triggerSync  *)
(* starts (at most one per peer); it is a sequence of steps, because       *)
(* between any two of them users write, other pulls run and the peer       *)
(* itself changes. Service.write is the mutex that covers applyRemote,     *)
(* the local writes and the janitor of one node.                           *)
(***************************************************************************)
EXTENDS Store

CONSTANTS
  Wall,          \* Wall[n][t]: what n's machine clock shows at real time t
  MaxSkew,       \* how far the clocks of caller and server may be apart
  TooLarge,      \* TooLarge[n]: contents above n's MaxFileSize
  PageSize,      \* MaxManifestPage
  Writer,        \* the nodes whose users write
  Link,          \* <<n, q>>: n can reach q's API and pulls from it
  TombstoneTTL,  \* how long a deletion is remembered
  MaxTime,       \* bound: ticks of real time
  Limit          \* bound: Limit[e] occurrences of the environment event e

EnvEvent == {"write", "fault", "restart", "wipe", "collect"}

ASSUME ReplicationAssumption ==
  /\ MaxTime \in Nat \ {0}
  /\ Wall \in [Node -> [1 .. MaxTime -> Nat]]
  /\ MaxSkew \in Nat
  /\ TooLarge \in [Node -> SUBSET Content]
  /\ PageSize \in Nat \ {0}
  /\ Writer \subseteq Node
  /\ Link \subseteq {nq \in Node \X Node : nq[1] # nq[2]}
  /\ TombstoneTTL \in Nat
  /\ Limit \in [EnvEvent -> Nat]

VARIABLES
  now,      \* real time; n's machine shows Wall[n][now]
  \* Durable, in SQLite:
  rows,     \* rows[n]: the entries table
  head,     \* head[n]: the feed counter, local.seq
  blobs,    \* blobs[n]: the hashes in the blobs table
  mark,     \* mark[n][q]: peers.last_seq, how far n has read q's feed
  \* Volatile:
  last,     \* last[n]: Clock.last
  pull,     \* pull[n][q]: the running syncPeer of n against q
  \* History and bounds, not state of the program:
  written,  \* contents some user wrote
  over,     \* contents some user, seeing them, replaced or deleted
  spent     \* environment events so far

store == <<rows, head, blobs, mark>>
vars == <<now, rows, head, blobs, mark, last, pull, written, over, spent>>

\* Machine clocks run apart and may be set back, as NTP or an operator does.
physical(n) == Wall[n][now]

\* The members n pulls from; syncAll leaves out the node itself.
Peers(n) == {q \in Node : <<n, q>> \in Link}

---------------------------------------------------------------------------
(* One syncPeer call. pc is where it stands:                               *)
(*   idle    no pull running (the entry of Service.syncing is absent)      *)
(*   digest  the peer's digest has arrived                                 *)
(*   walk    about to ask for a page of the peer's feed                    *)
(*   page    a page has arrived; waiting for Service.write                 *)
(*   apply   in applyRemote, holding Service.write                         *)
(*   mark    the trees are equal, or applyRemote has returned: the         *)
(*           bookmark is not yet recorded                                  *)

Pull == [pc : {"idle", "digest", "walk", "page", "apply", "mark"},
         tree : SUBSET TreeEntry, dhead : Nat,    \* the peer's digest
         cursor : Nat, bookmark : Nat,
         page : SUBSET Meta, more : BOOLEAN,      \* entries still to apply
         batch : SUBSET Meta, count : Nat,        \* rows to commit
         safe : Nat, deferred : BOOLEAN]

Idle == [pc |-> "idle", tree |-> {}, dhead |-> 0, cursor |-> 0, bookmark |-> 0,
         page |-> {}, more |-> FALSE, batch |-> {}, count |-> 0,
         safe |-> 0, deferred |-> FALSE]

TypeOK ==
  /\ now \in 1 .. MaxTime
  /\ rows \in [Node -> SUBSET Meta]
  /\ head \in [Node -> Nat]
  /\ blobs \in [Node -> SUBSET Content]
  /\ mark \in [Node -> [Node -> Nat]]
  /\ last \in [Node -> Timestamp]
  /\ pull \in [Node -> [Node -> Pull]]
  /\ written \subseteq Content
  /\ over \subseteq Content
  /\ spent \in [EnvEvent -> Nat]

Init ==
  /\ now = 1
  /\ rows = [n \in Node |-> {}]
  /\ head = [n \in Node |-> 0]
  /\ blobs = [n \in Node |-> {}]
  /\ mark = [n \in Node |-> [q \in Node |-> 0]]
  /\ last = [n \in Node |-> ZeroTime]
  /\ pull = [n \in Node |-> [q \in Node |-> Idle]]
  /\ written = {}
  /\ over = {}
  /\ spent = [e \in EnvEvent |-> 0]

\* The bounded environment: an event of every kind in E happens.
Spend(E) ==
  /\ \A e \in E : spent[e] < Limit[e]
  /\ spent' = [e \in EnvEvent |-> IF e \in E THEN spent[e] + 1 ELSE spent[e]]

\* A writer that does not wait for Service.write.
LockIgnored(n) == TRUE

\* Nobody at n holds Service.write.
LockFree(n) == \A q \in Node : pull[n][q].pc # "apply"

---------------------------------------------------------------------------
(* Local writes: Service.PutFile, PutDir, SetAttr and Delete. A call that  *)
(* changes nothing (the echo short-circuit of PutFile, a Delete of what is *)
(* gone) returns early and is a stuttering step, excluded by the guards.   *)

\* Service.commit of one row stamped now, or its failure: the clock has
\* ticked either way, and PutFile has stored its blob.
\* seen is what the caller knew of the path; what a write replaces unseen does
\* not count as replaced by a user.
CommitLocal(n, m, seen) ==
  \/ /\ rows' = [rows EXCEPT ![n] = Upsert(@, AppendRow({}, 0, m), head[n])]
     /\ head' = [head EXCEPT ![n] = @ + 1]
     /\ written' = written \cup ({m.hash} \ {NoHash})
     /\ over' = over \cup (seen \ {NoHash, m.hash})
     /\ Spend({"write"})
  \/ /\ UNCHANGED <<rows, head, written, over>>
     /\ Spend({"write", "fault"})

Stamp(n) == [hlc |-> Now(last[n], physical(n)), origin |-> n]

LocalWrite(n, m, seen) ==
  /\ LockFree(n)
  /\ last' = [last EXCEPT ![n] = m.ver.hlc]
  /\ CommitLocal(n, m, seen)
  /\ UNCHANGED <<now, mark, pull>>

\* Store.PutBlob: content is stored once, however many rows point at it.
PutBlob(n, c) == blobs' = [blobs EXCEPT ![n] = @ \cup {c}]

\* The stored entry already is what is offered: PutFile and PutDir return nil.
HasFile(n, p, c, a) ==
  \E cur \in Live(rows[n]) :
    cur.path = p /\ cur.kind = "file" /\ cur.hash = c /\ cur.attr = a

HasDir(n, p, a) ==
  \E cur \in Live(rows[n]) : cur.path = p /\ cur.kind = "dir" /\ cur.attr = a

PutFile(n, p, c, a, seen) ==
  /\ c \notin TooLarge[n]
  /\ ~HasFile(n, p, c, a)
  /\ PutBlob(n, c)
  /\ LocalWrite(n,
       [path |-> p, kind |-> "file", hash |-> c, prev |-> HashAt(rows[n], p),
        attr |-> a, ver |-> Stamp(n),
        deleted |-> FALSE, deletedAt |-> 0, seq |-> 0], seen)

PutDir(n, p, a, seen) ==
  /\ ~HasDir(n, p, a)
  /\ UNCHANGED blobs
  /\ LocalWrite(n,
       [path |-> p, kind |-> "dir", hash |-> NoHash, prev |-> NoHash,
        attr |-> a, ver |-> Stamp(n),
        deleted |-> FALSE, deletedAt |-> 0, seq |-> 0], seen)

SetAttr(n, cur, a) ==
  /\ cur \in Live(rows[n])
  /\ cur.attr # a
  /\ UNCHANGED blobs
  /\ LocalWrite(n,
       [cur EXCEPT !.attr = a, !.prev = cur.hash, !.ver = Stamp(n), !.seq = 0],
       {})

Delete(n, cur, seen) ==
  /\ cur \in Live(rows[n])
  /\ UNCHANGED blobs
  /\ LocalWrite(n,
       [path |-> cur.path, kind |-> cur.kind, hash |-> NoHash,
        prev |-> cur.hash, attr |-> cur.attr, ver |-> Stamp(n),
        deleted |-> TRUE, deletedAt |-> physical(n), seq |-> 0], seen)

\* Users write to paths of their own and to any path they see.
UserPaths(n) == {UserPath(a) : a \in Name} \cup {m.path : m \in Live(rows[n])}

\* The caller looks at the path and writes, nothing happening in between.
UserWrite(n) ==
  \/ \E p \in UserPaths(n), a \in Attr :
       \/ \E c \in Content : PutFile(n, p, c, a, {HashAt(rows[n], p)})
       \/ PutDir(n, p, a, {HashAt(rows[n], p)})
  \/ \E cur \in rows[n] :
       \/ \E a \in Attr : SetAttr(n, cur, a)
       \/ Delete(n, cur, {cur.hash})

---------------------------------------------------------------------------
(* syncPeer. *)

SetPull(n, q, r) == pull' = [pull EXCEPT ![n][q] = r]

\* Store.SetPeerSeq: the bookmark survives a restart.
SetPeerSeq(n, q, seq) == mark' = [mark EXCEPT ![n][q] = seq]

history == <<written, over, spent>>

\* A server that takes no account of when a request was signed.
AuthorizedAlways(n, q) == TRUE

\* q serves a request of n: verify refuses one signed too long ago, or in the
\* future, by q's clock. The key is the cluster's and the request its own.
Authorized(n, q) ==
  physical(n) - physical(q) \in (-MaxSkew) .. MaxSkew

\* triggerSync starts a pull unless one is running, and the peer's digest is
\* fetched (getDigest). A peer that does not answer, or refuses, changes nothing.
FetchDigest(n, q) ==
  /\ pull[n][q].pc = "idle"
  /\ Authorized(n, q)
  /\ \E h \in {0} \cup {m.seq : m \in rows[q]} :
       /\ IsDigestHead(h, rows[q])
       /\ SetPull(n, q, [Idle EXCEPT !.pc = "digest",
                                     !.tree = Digest(rows[q]), !.dhead = h])
  /\ UNCHANGED <<now, store, last, history>>

\* A bookmark that is reset to a sentinel below every position.
SinceSentinel(bookmark, dhead) == IF dhead < bookmark THEN -1 ELSE bookmark

\* Where the walk of the peer's feed starts: from the beginning when the
\* peer's head is behind the bookmark.
Since(bookmark, dhead) == IF dhead < bookmark THEN 0 ELSE bookmark

\* The local digest is computed and compared. Of equal trees only the bookmark is
\* left to record: the head that came with the peer's digest.
CompareDigest(n, q) ==
  LET r == pull[n][q]
      equal == Digest(rows[n]) = r.tree
      start == IF equal THEN r.dhead ELSE Since(mark[n][q], r.dhead)
  IN  /\ r.pc = "digest"
      /\ SetPull(n, q, [Idle EXCEPT !.pc = IF equal THEN "mark" ELSE "walk",
                                    !.cursor = start, !.bookmark = start])
      /\ UNCHANGED <<now, store, last, history>>

\* getManifest at the peer. An empty page, or a refusal, ends the pull.
FetchPage(n, q) ==
  LET r == pull[n][q]
      page == ManifestPage(rows[q], r.cursor, PageSize)
  IN  /\ r.pc = "walk"
      /\ SetPull(n, q,
           IF page = {} \/ ~Authorized(n, q) THEN Idle
           ELSE [r EXCEPT !.pc = "page", !.page = page,
                          !.more = HasMore(rows[q], r.cursor, PageSize),
                          !.batch = {}, !.count = 0,
                          !.safe = 0, !.deferred = FALSE])
      /\ UNCHANGED <<now, store, last, history>>

\* applyRemote takes Service.write.
LockWrite(n, q) ==
  /\ pull[n][q].pc = "page"
  /\ LockFree(n)
  /\ SetPull(n, q, [pull[n][q] EXCEPT !.pc = "apply"])
  /\ UNCHANGED <<now, store, last, history>>

---------------------------------------------------------------------------
(* applyRemote's loop, one entry per step, in feed order. It reads the     *)
(* store, never the batch it is building.                                  *)

\* m is the next entry of the page that n is applying.
NextEntry(n, q, m) ==
  /\ pull[n][q].pc = "apply"
  /\ m \in pull[n][q].page
  /\ \A o \in pull[n][q].page : m.seq <= o.seq

\* Leave entry m: the walk moves on.
Past(r, m) == [r EXCEPT !.page = @ \ {m}, !.cursor = m.seq]

\* A bookmark that moves over a deferred entry.
AdvancePastDeferral(r, m) == [Past(r, m) EXCEPT !.safe = Greater(@, m.seq)]

\* The closure advance: everything up to m is accounted for, unless an
\* earlier entry of the page was deferred.
Advance(r, m) ==
  [Past(r, m) EXCEPT !.safe = IF r.deferred THEN @ ELSE Greater(@, m.seq)]

\* Rows from a peer that get no feed position of their own.
AddRowUnfed(r, m) ==
  [r EXCEPT !.batch = AppendRow(@, -1, m), !.count = @ + 1]

AddRow(r, m) ==
  [r EXCEPT !.batch = AppendRow(@, r.count, m), !.count = @ + 1]

\* A validate without the size limit.
ValidAnySize(n, m) == m.kind = "dir" => m.hash = NoHash

\* The conditions of validate that the model's data can express: content within
\* the node's size limit, and none for a directory.
Valid(n, m) ==
  /\ m.hash \notin TooLarge[n]
  /\ m.kind = "dir" => m.hash = NoHash

\* n refuses m: validate does, or Clock.Observe.
Refused(n, m) == ~Valid(n, m) \/ Drifted(m.ver.hlc, physical(n))

RejectEntry(n, q, m) ==
  /\ NextEntry(n, q, m)
  /\ Refused(n, m)
  /\ SetPull(n, q, Advance(pull[n][q], m))
  /\ UNCHANGED <<now, store, last, history>>

Admitted(n, q, m) == NextEntry(n, q, m) /\ ~Refused(n, m)

Observed(n, m) == Observe(last[n], physical(n), m.ver.hlc)

Decision(n, m) ==
  IF Have(rows[n], m.path) THEN resolve(Get(rows[n], m.path), m) ELSE "accept"

SkipEntry(n, q, m) ==
  /\ Admitted(n, q, m)
  /\ Decision(n, m) = "skip"
  /\ last' = [last EXCEPT ![n] = Observed(n, m)]
  /\ SetPull(n, q, Advance(pull[n][q], m))
  /\ UNCHANGED <<now, store, history>>

\* The clock after Observe and, on a conflict, after conflictCopy's Now.
ClockAfter(n, m) ==
  IF Decision(n, m) = "conflict" THEN Now(Observed(n, m), physical(n))
                                 ELSE Observed(n, m)

conflictCopy(n, local, hlc) ==
  [local EXCEPT !.path = ConflictName(local.path, local.ver),
                !.prev = NoHash, !.seq = 0,
                !.ver = [hlc |-> hlc, origin |-> n]]

\* The batch, with the conflict copy of the losing local row when there is one.
WithCopy(n, r, m) ==
  IF Decision(n, m) = "conflict"
  THEN AddRow(r, conflictCopy(n, Get(rows[n], m.path), ClockAfter(n, m)))
  ELSE r

\* Entries stored without their content.
NeedsNoBlob(m) == FALSE

NeedsBlob(m) == m.kind = "file" /\ ~m.deleted /\ m.hash # NoHash

\* The blobs getBlob of q gives n.
Served(n, q) == IF Authorized(n, q) THEN blobs[q] ELSE {}

\* ensureBlob can succeed: the blob is local, or the peer still serves it.
BlobAvailable(n, q, m) ==
  NeedsBlob(m) => m.hash \in blobs[n] \cup Served(n, q)

\* What ensureBlob stores.
Fetched(n, q, m) == IF NeedsBlob(m) THEN {m.hash} \cap Served(n, q) ELSE {}

\* The remote write wins and its content is here or has been fetched.
TakeEntry(n, q, m) ==
  /\ Admitted(n, q, m)
  /\ Decision(n, m) # "skip"
  /\ BlobAvailable(n, q, m)
  /\ last' = [last EXCEPT ![n] = ClockAfter(n, m)]
  /\ blobs' = [blobs EXCEPT ![n] = @ \cup Fetched(n, q, m)]
  /\ SetPull(n, q, Advance(AddRow(WithCopy(n, pull[n][q], m), m), m))
  /\ UNCHANGED <<now, rows, head, mark, history>>

\* ensureBlob fails: the peer has collected the content or refuses, or a read of the
\* store or the fetch fails. The entry is left for a later pass; a conflict copy is
\* kept.
DeferEntry(n, q, m) ==
  /\ Admitted(n, q, m)
  /\ Decision(n, m) # "skip"
  /\ NeedsBlob(m)
  /\ IF BlobAvailable(n, q, m) THEN Spend({"fault"}) ELSE UNCHANGED spent
  /\ last' = [last EXCEPT ![n] = ClockAfter(n, m)]
  /\ SetPull(n, q,
       [Past(WithCopy(n, pull[n][q], m), m) EXCEPT !.deferred = TRUE])
  /\ UNCHANGED <<now, store, written, over>>

\* The page is done: the batch is committed and Service.write released.
CommitPage(n, q) ==
  LET r == pull[n][q]
  IN  /\ r.pc = "apply"
      /\ r.page = {}
      /\ rows' = [rows EXCEPT ![n] = Upsert(@, r.batch, head[n])]
      /\ head' = [head EXCEPT ![n] = @ + r.count]
      /\ SetPull(n, q, [r EXCEPT !.pc = "mark", !.batch = {}, !.count = 0])
      /\ UNCHANGED <<now, blobs, mark, last, history>>

\* SetPeerSeq, then the next page or the end of the pull.
RecordBookmark(n, q) ==
  LET r == pull[n][q]
      bookmark == Greater(r.bookmark, r.safe)
  IN  /\ r.pc = "mark"
      /\ SetPeerSeq(n, q, bookmark)
      /\ SetPull(n, q,
           IF r.more THEN [Idle EXCEPT !.pc = "walk", !.cursor = r.cursor,
                                       !.bookmark = bookmark]
           ELSE Idle)
      /\ UNCHANGED <<now, rows, head, blobs, last, history>>

\* Every other error return of syncPeer: a manifest that does not arrive, a
\* lookup, commit or SetPeerSeq that fails. The batch is dropped.
AbortPull(n, q) ==
  /\ pull[n][q].pc \in {"digest", "walk", "apply", "mark"}
  /\ Spend({"fault"})
  /\ SetPull(n, q, Idle)
  /\ UNCHANGED <<now, store, last, written, over>>

ApplyEntry(n, q) ==
  \E m \in pull[n][q].page :
    \/ RejectEntry(n, q, m)
    \/ SkipEntry(n, q, m)
    \/ TakeEntry(n, q, m)
    \/ DeferEntry(n, q, m)

---------------------------------------------------------------------------
(* The janitor, time, and what happens to whole nodes. *)

\* Service.collect: expired tombstones first, then blobs no row references.
\* When the second statement fails the first has been done.
Collect(n) ==
  LET horizon == physical(n) - TombstoneTTL
  IN  /\ LockFree(n)
      /\ rows' = [rows EXCEPT ![n] = @ \ Expired(@, horizon)]
      /\ \/ /\ blobs' = [blobs EXCEPT ![n] = @ \cap Referenced(rows'[n])]
            /\ Spend({"collect"})
         \/ /\ UNCHANGED blobs
            /\ Spend({"collect", "fault"})
      /\ UNCHANGED <<now, head, mark, last, pull, written, over>>

Tick ==
  /\ now < MaxTime
  /\ now' = now + 1
  /\ UNCHANGED <<store, last, pull, history>>

\* The process of n dies, wherever its pulls stand, and a new one opens the
\* same database. syncer.New makes a fresh clock. Starting takes time.
Restart(n) ==
  /\ now < MaxTime
  /\ now' = now + 1
  /\ Spend({"restart"})
  /\ last' = [last EXCEPT ![n] = ZeroTime]
  /\ pull' = [pull EXCEPT ![n] = [q \in Node |-> Idle]]
  /\ UNCHANGED <<store, written, over>>

\* The node comes back under its name with an empty database.
Wipe(n) ==
  /\ now < MaxTime
  /\ now' = now + 1
  /\ Spend({"wipe"})
  /\ rows' = [rows EXCEPT ![n] = {}]
  /\ head' = [head EXCEPT ![n] = 0]
  /\ blobs' = [blobs EXCEPT ![n] = {}]
  /\ mark' = [mark EXCEPT ![n] = [q \in Node |-> 0]]
  /\ last' = [last EXCEPT ![n] = ZeroTime]
  /\ pull' = [pull EXCEPT ![n] = [q \in Node |-> Idle]]
  /\ UNCHANGED <<written, over>>

\* A step of the pull of n against q that is not a failure.
PullStep(n, q) ==
  \/ FetchDigest(n, q)
  \/ CompareDigest(n, q)
  \/ FetchPage(n, q)
  \/ ApplyEntry(n, q)
  \/ CommitPage(n, q)
  \/ RecordBookmark(n, q)

Next ==
  \/ \E n \in Writer : UserWrite(n)
  \/ \E n \in Node : Collect(n) \/ Restart(n) \/ Wipe(n)
  \/ \E n \in Node : \E q \in Peers(n) :
       PullStep(n, q) \/ LockWrite(n, q) \/ AbortPull(n, q)
  \/ Tick

Spec == Init /\ [][Next]_vars

\* Run's ticker restarts every pull for ever and a started pull is not
\* abandoned: weak fairness of its steps. The mutex is handed over in the end
\* even under contention (sync.Mutex has a starvation mode): strong fairness.
\* Time passes. Nothing is assumed of users, the janitor or failures.
FairSpec ==
  /\ Spec
  /\ WF_vars(Tick)
  /\ \A n \in Node : \A q \in Peers(n) :
       WF_vars(PullStep(n, q)) /\ SF_vars(LockWrite(n, q))

---------------------------------------------------------------------------
(* Properties. *)

\* Rows keyed by path and numbered, without repetition, up to h.
FeedOK(table, h) ==
  /\ \A a, b \in table : a.path = b.path \/ a.seq = b.seq => a = b
  /\ \A a \in table : a.seq \in 1 .. h

\* The entries table and the changes feed are one: a path has one row, a feed
\* position has one row (the unique index of the migration), and no position
\* is above the feed counter. A page cut by position is only complete because
\* of this; Apply must keep it for batches that name a path twice.
FeedWellFormed ==
  \A n \in Node : FeedOK(rows[n], head[n])

\* A live file never points at a blob the node cannot serve ("storing the entry
\* now would leave it pointing at a blob we cannot serve"), whatever the
\* janitor collects while pulls, writes and failures interleave.
ContentHeld ==
  \A n \in Node : \A m \in Live(rows[n]) : m.hash \in blobs[n] \cup {NoHash}

\* Last writer wins: what a node holds for a path is never replaced by an
\* older write, although the decision (resolve) and the commit are apart and
\* a write of the node's own gets its version from a clock, not from the row.
VersionNeverRegresses ==
  [][\A n \in Node : \A a \in rows[n], b \in rows'[n] :
       a.path = b.path => a = b \/ After(b.ver, a.ver)]_vars

\* A version names one write: two nodes that hold the same version of a path
\* hold the same entry, which is what lets resolve skip an equal version
\* unseen.
VersionsIdentifyWrites ==
  \A n, q \in Node : \A a \in rows[n], b \in rows[q] :
    a.path = b.path /\ Equal(a.ver, b.ver) => Digest({a}) = Digest({b})

\* n has nothing to gain from entry m of a peer: it holds that write or a newer
\* one, or it would refuse m.
Accounted(n, m) ==
  \/ Refused(n, m)
  \/ \E a \in rows[n] : a.path = m.path /\ ~After(m.ver, a.ver)

\* The bookmark is sound: every entry of a peer's feed at or below it is
\* accounted for. An entry behind the bookmark that is not would never be
\* pulled again ("this node would stay short of that one file forever, with a
\* digest that never matches and no mechanism left to notice").
BookmarkSound ==
  \A n \in Node : \A q \in Peers(n) : \A m \in rows[q] :
    m.seq <= mark[n][q] => Accounted(n, m)

\* "A genuinely concurrent edit does not silently lose one side": content that
\* a user wrote and that no user, seeing it, replaced or deleted, is still a
\* live file somewhere in the cluster.
NoEditLost ==
  \A c \in written \ over : \E n \in Node : \E m \in Live(rows[n]) : m.hash = c

Agreed == \A n, q \in Node : Digest(rows[n]) = Digest(rows[q])

\* "The order is total and the cluster always converges": once users stop, all
\* nodes come to hold the same tree and keep it.
Converges == <>[]Agreed

\* "A file that was simply edited twice in sequence produces no conflict copy":
\* in a cluster with one writer there never is one.
NoConflictCopies ==
  \A n \in Node : \A m \in rows[n] : ~IsConflictName(m.path)
===========================================================================
