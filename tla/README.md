# A TLA+ model of distributed-configs-fs

dcfs replicates a tree of configuration files between machines without a quorum.
Each node keeps the whole tree in SQLite, pulls from every other node, orders
writes by a hybrid logical clock and shows the tree as a directory or a FUSE
mount. This directory holds a model of that program, the TLC configurations that
check it and TLAPS proofs of the safety properties of all passing runs and of the
refinement. All file and line references are to the repository.

## 1. Inventory

| Component | State | Operations | Works with | Correct means |
|---|---|---|---|---|
| Clock, `internal/core/hlc.go` | `Clock.last` | `Now`, `Observe` | called under `Service.write` for every local and every received write | each reading is above all earlier ones; peers cannot drag it ahead |
| Entries, `internal/core/entry.go`, `path.go` | none | `HashContent`, `SanitizePath`, `ConflictName` | everywhere | a conflict copy has a name of its own |
| Store, `internal/store` | tables `entries`, `blobs`, `peers`, `local` | `Apply`, `PutBlob`, `SetPeerSeq`, `GCTombstones`, `GCBlobs`; reads `Get`, `Live`, `Digest`, `ManifestSince` | one SQLite transaction per call | path and feed position are keys; live files have their blob |
| Local writes, `internal/syncer/syncer.go` | `Service.write`, subscriptions | `PutFile`, `PutDir`, `SetAttr`, `Delete`, `commit` | called by mirror and mount; commit wakes subscribers and gossips | a write is newer than the row it replaces |
| Anti-entropy, `antientropy.go`, `resolve.go` | `Service.syncing`, the locals of `syncPeer` and `applyRemote` | `syncAll`, `triggerSync`, `syncPeer`, `applyRemote`, `collect` | one goroutine per peer, against the peer API | nothing behind a bookmark is missing; a concurrent edit is kept; all nodes converge |
| Peer API, `internal/transport` | none | `getDigest`, `getManifest`, `getBlob` | reads the store of the serving node at three separate moments | a page is a prefix of what is left of the feed |
| Mirror, `internal/mirror` | the directory, `canChown`, `inflight`, pump's `pending`, the events channel | `Run`: `scan`, `render`, `applyEvents`; goroutine `pump` | users of the directory, inotify, the syncer's wake-ups | the later modification wins; only removals delete; directory and tree come to agree |
| FUSE mount, `internal/fusefs` | open handles with their buffers | `Open`, `Write`, `Flush`, `Setattr`, `Rename`, ... | local writes | a close does not undo a newer write unseen |
| Gossip, `internal/cluster` | member list, event channel | `Announce`, `NotifyMsg`, `NotifyJoin`, `NotifyLeave`, `NotifyUpdate`, `emit`, `Leave` | memberlist's goroutines; starts pulls early | only latency depends on it |
| Signing and sealing, `auth.go`, `envelope.go`, `core/keys.go` | keys | `sign`, `verify`, `seal`, `open` | around every call | a request outside the window is refused, and that is a failed call |
| Process, `cmd/dcfs` | the group of goroutines and its context | `serve`, `status`, `conflicts` | starts and stops the rest | a process told to stop ends |

What is hard here: several pulls, the users and the janitor share one store
through a mutex that is not held while a pull waits for its peer; a pull reads
the peer at several moments while the peer changes; failures, restarts and
rebuilt databases hit between any two steps; machine clocks disagree and step
backwards; the mirror compares a directory with a tree that both change while it
looks; the mount reads the tree and writes it later without holding anything in
between; the goroutines of one process wait for one another's lock and channels.
`PROJECT.json` lists each such place with its line (`hazards`) and the
properties that watch it.

## 2. Plan

Done, in this order, the core first:

1. `HLC`, `Clock`: the clock (proofs: `HLCProofs`, `ClockProofs`).
2. `Store`: the tables and the pure decision `resolve`.
3. `Replication`: local writes and anti-entropy over `Store` (`ReplicationProofs`:
   types, feeds, content; `VersionProofs`: versions, bookmarks, agreement, edits).
4. `Mirror`: the directory mirror against a tree that changes (`MirrorProofs`).
5. `LWW`, `ReplicationRefinement`: the abstract specification and the mapping
   (`RefinementProofs`).
6. `Mount`: the FUSE mount composed with `Replication` (`MountProofs`).
7. `Daemon`: gossip, `Service.Run`, the wake-ups and the end of the process
   (`DaemonProofs`).

To do:

8. Subdirectories in `Mirror`, and `Mirror` composed with the local writes of
   `Replication`, where a promotion races a peer's row.

## 3. Modules

`MCReplication`, `MCMirror`, `MCMount` and `MCDaemon` extend the modules they check
and only give values to constants; `Clock` is checked as it stands.

### HLC, Clock

`HLC` has `Compare`, `After`, `Equal`, `Now`, `Observe` and the drift guard
`Drifted` as operators on readings. The counter wraps at `CounterMod`, as the
uint32 does. Node names are numbers: only their order is used. `Clock` runs one
clock: `LocalEvent` and `RemoteEvent` are `Now` and an accepted `Observe` (both
hold the clock's mutex, so each is one step), `SetPhysical` moves the machine's
clock either way. `greatest` and `latest` are history.

### Store

The `entries` table is a set of rows (`core.Meta`) with the path as key. A
content hash is the content itself (SHA-256 taken as injective), mode, uid and
gid are one attribute. A path is a name and the conflict suffixes added to it; a
suffix holds the node and the wall time but, as in `ConflictName`, no counter.
`Upsert` is the transaction of `Apply`, `Digest` the set of replicated fields of
all rows, `ManifestPage` and `HasMore` the page that `getManifest` cuts, `resolve`
the decision of `resolve.go`.

### Replication

State: `rows`, `head`, `blobs` and `mark` are the four tables and survive a
restart; `last` is the clock, `pull[n][q]` the `syncPeer` call of `n` against `q`
with its locals, both lost in a restart. `written` and `over` are history;
`spent` counts the bounded events of the environment.

| Action | Code |
|---|---|
| `PutFile`, `PutDir`, `SetAttr`, `Delete` | the local writes, with `commit` or its failure |
| `FetchDigest` | `triggerSync`, the call of `/v1/digest` |
| `CompareDigest` | the local digest, the choice between equal trees and a walk, the restart of the feed |
| `FetchPage` | `/v1/manifest` |
| `LockWrite` | `applyRemote` gets `Service.write` |
| `RejectEntry`, `SkipEntry`, `TakeEntry`, `DeferEntry` | one round of `applyRemote`'s loop; `DeferEntry` is any `ensureBlob` that fails, a failing `HasBlob` included |
| `CommitPage` | the commit at its end, and the unlock |
| `RecordBookmark` | `SetPeerSeq`, after a page or for equal trees, then the next page or the end |
| `AbortPull` | every other error return of `syncPeer` |
| `Collect` | the janitor, with the failure of its second half |
| `Restart`, `Wipe` | a new process on the old database, and on an empty one |

`Service.write` is held exactly while `pull[n][q].pc = "apply"`; `LockFree` guards
everything else that takes it. A local write takes the lock, reads, writes and
releases without waiting for anyone, so it is one step. In `applyRemote` the
fetch of a blob waits for the peer, so every entry is a step and the peer, and
the janitor of the peer, may act between two.
`Wall[n][t]` is what the machine of `n` shows at real time `t`: clocks run ahead, and
are set right again. `Authorized` is the window of `verify`: a peer refuses a
request whose time of signing lies more than `MaxSkew` from its own clock, at each
call anew. A blob that is refused is a deferred entry; a page that is refused ends
the pull. `Link` says who can reach whom. A pull may start whenever none is running, which
is what hints, joins and the ticker together allow.

### LWW, ReplicationRefinement

`LWW` is what the replicated tree promises: every node holds a map from paths to
writes, and carries writes it has received. A user's `Write` is later than all the
node holds; `Receive` takes up what another node holds; `KeepCopy` prepares a copy
of an edit that is to lose; `Install` takes up carried writes, each later than what
it replaces; `Forget` drops deletions; `Reset` starts again. There are no feeds,
bookmarks, digests, pages, blobs or clocks. `ReplicationRefinement` maps to it:
`held` is the replicated part of the rows, `carried` that of the pages and batches
of all pulls. `ImplementsLWW` then says of every step, of any node, that it is one of
these or changes neither. What makes it hard is that `resolve` decides when an
entry is read and the batch is installed later, and that a copy's version comes
from a clock that other entries of the page have moved meanwhile.

### Mount

One node with a FUSE mount, in the cluster of `Replication`, whose actions it uses
for everything the mount asks of the tree. `handle[h]` is a `writeHandle`: path,
buffer, attributes and `dirty`; `seen`, `expects` and `saved` are history (what the
program saw, what it takes the file to be, what of that the tree has accepted).
`call` is the one call about names or attributes in progress: the kernel holds the
lock of the directory, or of the file, for its length.

| Action | Code |
|---|---|
| `Open`, `Write`, `Flush` | the handle; `Flush` commits a dirty buffer, and the kernel releases the handle after the last close |
| `BeginMake`, `Create`, `Mkdir` | the kernel's lookup, then `PutFile` of an empty file or `PutDir` |
| `BeginRemove`, `Remove` | `Unlink` and `Rmdir`: the look at the row and at the children, then `Delete` |
| `BeginRename`, `RenameCopy`, `Remove` | `Rename`: the row is read, copied to the new name, the old name deleted |
| `BeginSetattr`, `SetattrSize`, `SetattrMode` | `Setattr`: the row is read, the content rewritten, the attributes set |
| `MountLost` | the process ends with its buffers |

Each line of such a group is a step of its own, with pulls, the janitor and the
flushes of other descriptors in between. A buffer is abstract: a write gives the
content the program wants if the buffer held what the program thought, and any
content otherwise. Whether the kernel passes `O_TRUNC` to `Open` or sends a
`Setattr` first is the constant `AtomicTrunc`.

### Daemon

One process. `peer` and `member` are the other nodes and what memberlist reports of
them, `hints` the broadcasts under way, which are delivered any number of times, in
any order, or never. `events` is the channel of `cluster.go` with its capacity, `run`
the loop of `Service.Run`, `pull[q]` the goroutine that `triggerSync` starts and at
the same time the entry of `Service.syncing`, `known` the bookmarks. `lock` is
`Service.write`, and a `commit` goes through `Apply`, `notify` and `Announce` under
it, for a pull, a user of the mount or the mirror itself. `signal` is the mirror's
subscription. `proc` is the process: `Stop` cancels the context (a signal, or an API
that cannot listen) wherever `runServe` is, also before the mirror is open or the
tree is mounted; `MirrorOpenFails` and `MountFails` end it at once. `Leave` follows
when the mount is there and `Run`, the mirror and the API have returned; `Exit` runs
the deferred calls. `mounted` stays true until then, so programs write through the
mount for as long as the process lives. `LateCallbacks` lets memberlist call back
after its `Shutdown`; nothing in the repository excludes it, so the run has it. Here a pull only reads positions; what it
does to the tree is `Replication`'s. `setup` is the deployment, chosen in the
initial state: a node may have a mirror and a mount or neither, and peers have the
addresses they may come up on.

### Mirror

One node's mirror of regular files in one directory. `tree[p]` is the store's row
as the mirror reads it, `disk[p]` the file. `loop` is where the `Run` goroutine
stands. Promotion is two steps (`PromoteCheck`: Lstat and the comparison with the
row; `PromotePut`: read and `PutFile`), rendering a file is two (`RenderCheck`:
claim and content; `RenderWrite`: the rename and `applyMeta`), because users and
peers act in between. `queue` is inotify's queue (a full queue loses events, equal
neighbours merge), `Deliver` and `Flush` are pump's two cases, `out` is its channel
of depth one. What the mirror itself does to files raises events like anything
else; the several events of one rendering are one, since pump merges them in
`pending`. `PeerWrite` is the syncer storing a peer's row. `fresh`, `gone` and `swept`
are history: files that users wrote and the mirror has not dealt with, and files
that a user removed under the running daemon, or the mirror for a tombstone, and
that were not put back. A fault is a `readLocal`, a `Content`, a write, an `applyMeta`,
a `Remove`, a `PutFile` or a `Delete` that fails: each leaves its path and goes on.
An error of the initial scan or render ends the process; it is a `Stop`. A read of
the row that fails in a promotion (`stored`, `mirror.go:525`) is a path the tree
does not hold.

## 4. Runs

Passing runs, complete searches within the bounds:

| Run | Asks | Bounds |
|---|---|---|
| `Clock` | Does the clock stay above all it returned and observed, and near a time the machine showed? | walls to 3, peers' to 6, counter wraps at 4 |
| `Edits` | Two users edit one path while clocks disagree: are feeds well formed, does a version name one write, is every unseen edit kept, is the tree a last-writer-wins map? | 2 nodes, 3 writes, a clock ahead and set right, 3 contents |
| `Faults` | Can any call fail without a file losing its content, an entry being skipped or a newer row being replaced? | 2 nodes, 2 writes, 2 failures, 2 attributes |
| `Pages` | Is a feed read page by page complete while it is rewritten, some entries are refused and a process dies? | 2 nodes, pages of 1, 2 names, 3 writes, 1 restart |
| `Janitor` | Does the janitor ever take content that is needed, does a rebuilt node keep everything well typed, and is each of their steps one of `LWW`? | 3 writes, 1 collection, 1 rebuild, 1 failure, tombstones expire after a tick |
| `Converge` | Do all nodes come to the same tree, also through a third? | 3 nodes in a ring, each a writer, 2 writes |
| `MirrorOffline` | Files changed while the daemon is stopped: is a user's file replaced only by something as new? | 1 file, 2 offline changes, 2 peer writes, 1 stop |
| `MirrorQuiet` | Through edits, removals with and without the daemon, peers' writes and deletions, lost events, failures and a stop: is only what was removed deleted from the tree, and do directory and tree agree in the end? | 1 file, one of each, queue of 1, one content too large |
| `MountNames` | Does a rename delete the old name only when the new one is there, and does a chmod never bring content back? | 2 names, 2 contents, 2 attributes, no open descriptor, 1 peer, 3 writes, 1 failure |
| `MountFiles` | Does a close that succeeds mean that what was written is stored, and does every buffer fit the limit? | 1 name, 1 descriptor, 3 contents of which one is too large, 2 writes, 1 failure, 1 restart, 1 collection |
| `Daemon` | Are changes noticed without hints, is no wake-up lost, is what failed drawn again, does the process end? | event channel of 1, 2 positions per feed, 1 failure, callbacks after `Shutdown`; a peer with 2 addresses, or a mirror and a mount |

Why these bounds: a decision of `applyRemote` concerns one path, one local row
and one entry, so two nodes and one path show every decision; a second name is
only needed for pages. Two writes make a conflict, the third a write on top of
one. Two contents differ, a third tells a lost one from a replaced one. One
failure or restart hits every step in turn; the second hits the retry. A clock
step of 2 against a drift of 1 gives refused and accepted readings of the same
peer. In the mirror paths do not interact except through the order of a batch.
Contents are permuted where no liveness is checked.

A rename concerns two names; a third would only repeat one of them. One descriptor
and one call beside it show every order of the two. In `Daemon` the event channel
is full with one event, so events are dropped; a peer that stops and comes up
elsewhere leaves hints, events and member reports that name the old address.

`Limit` bounds what users, failures and operators do, `MaxTime` the time, `MaxFeed`
and `MaxHead` the feeds. Deadlock is checked in every run but
`Daemon`, where the process may end.

### Fairness

`Replication`: weak fairness of each pull's steps, because `Run`'s ticker starts
pulls for ever and a started one runs to its end; strong fairness of `LockWrite`,
because a `sync.Mutex` in starvation mode serves the longest waiter; time passes.
`Mirror`: the goroutines run; each case of `select` is taken in the end if it
keeps becoming ready, because select chooses at random; an operator starts a
stopped daemon again. Nothing is assumed of users, peers, failures, lost events
or the janitor.
`Daemon`: goroutines are scheduled, calls return because every request has a
timeout, tickers tick and their cases are chosen in the end, a mutex does not
starve the janitor, memberlist learns of a peer's address and a stopped peer comes
back. Hints, events, wake-ups, writes and failures have no fairness at all:
`ChangesNoticed` and `RendersLatest` hold by the tickers alone.

### Where code and documentation disagree

One run expects TLC to find a violation; `PROJECT.json` quotes the lines.

- `DeferAcrossPages` (`antientropy.go:153`): `deferred` is local to one page. An
  entry whose content cannot be fetched is passed over for good when the next
  page applies cleanly. No failure of the network is needed: a request that the
  peer refuses because the clocks are for a moment too far apart is enough.

More configurations are kept for reproduction. Each violates the property
it names (run it with the module of its properties, `MCReplication`, `MCMirror`,
`MCMount` or `MCDaemon`):

| Configuration | Property | Reason |
|---|---|---|
| `RebuiltPeer` | `BookmarkSound` | a rebuilt peer is only noticed while its head is below the bookmark (`antientropy.go:127`) |
| `DriftHeals` | `BookmarkSound` | an entry refused for its timestamp becomes acceptable later, behind the bookmark (`antientropy.go:214`) |
| `ForgottenTombstone` | `BookmarkSound` | a node collects a tombstone that its peer still lists behind the bookmark (`store.go:405`) |
| `RestartBehind` | `VersionNeverRegresses` | the clock is not persisted (`syncer.go:107`) |
| `RetriedConflict` | `NoEditLost` | a deferred conflict writes its copy again, over an edit of the copy (`antientropy.go:231`) |
| `ConflictNameReused` | `NoEditLost` | a conflict name has no counter (`path.go:89`); the wall component stands still while a faster peer has carried it ahead |
| `EditOverwritten` | `NoUserFileClobbered` | an edit between render's check and its rename (`mirror.go:310`) |
| `OfferFails` | `NoUserFileClobbered` | a `PutFile` that fails is only logged, and the next render replaces the file that was to be offered (`mirror.go:519`) |
| `OversizedEdit` | `NoUserFileClobbered` | an edit above the size limit is not offered, and the next render replaces it (`mirror.go:507`) |
| `CreatedAgain` | `NoUserFileClobbered` | a peer creates a deleted path again between the sweep's look at the tombstones and its removal of the file (`mirror.go:417`) |
| `ClaimReleased` | `ClaimHeld` | releasing a batch also releases a newer claim on the same path (`watch.go:204`) |
| `RootWithoutChown` | `OwnershipKept` | after a restart the scan runs before a chown has failed (`mirror.go:149`) |
| `EditedTwice` | `NoConflictCopies` | two edits by the only writer between two pulls look concurrent, because a feed shows only the last (`resolve.go:83`); `README.md:89`: "A file that was simply edited twice in sequence produces **no** conflict copy." |
| `EchoReverts` | `PromotesOnlyEdits` | a rendered file has the time of its render as mtime; handled after a peer's next version, its event makes the old content the later edit (`mirror.go:551`) |
| `RemovalEcho` | `NoEchoDeletes` | the mirror's own removal of a tombstoned file raises a removal event, which deletes a path that a peer creates again meanwhile (`watch.go:232`) |
| `StaleHandle` | `FlushLosesNoEdit` | a close commits the buffer of its open over a peer's edit and names that edit as its predecessor, so that no copy is kept (`fusefs.go:597`) |
| `CreateOverEdit` | `CreateLosesNoEdit` | `Create` empties a file that was pulled after the kernel's lookup (`fusefs.go:377`) |
| `RenameOverEdit` | `RenameLosesNoEdit` | an edit pulled between `Rename`'s read and its delete is deleted (`fusefs.go:494`) |
| `RenameExchange` | `RenameLosesNoEdit` | the flags of `Rename` are not looked at: an exchange replaces the one file and deletes the other name (`fusefs.go:457`) |
| `RenameOpenFile` | `CloseMakesNoName` | a descriptor keeps the path of its open; its close makes a renamed or removed name again (`fusefs.go:597`) |
| `RmdirRace` | `RmdirLeavesNoOrphan` | a child is pulled between `Rmdir`'s look and its delete (`fusefs.go:423`) |
| `TruncateIgnored` | `BufferIsCurrent` | `Setattr` truncates the tree's file and not the buffer of the descriptor it is called with (`fusefs.go:302`) |
| `TruncateUnsaved` | `SuccessMeansStored` | an `Open` with `O_TRUNC` starts with an empty buffer that is not dirty, so a close without a write stores nothing (`fusefs.go:353`); only if the kernel passes the flag on |
| `MisdirectedPull` | `BookmarkOfPeer` | a pull does not ask who answers at its address; the position of another node's feed becomes the bookmark (`antientropy.go:116`) |
| `SendOnClosed` | `NoPanic` | a callback of memberlist after its `Shutdown` sends on the closed channel (`cluster.go:249`); only if memberlist lets one run |

## 5. Proofs

The assumptions on constants are those the modules state and TLC evaluates:
`HLCAssumption`, `ClockAssumption`, `StoreAssumption`, `ReplicationAssumption` (drift
and modulus are naturals, the modulus positive; node identifiers are naturals;
`NoHash` is no content; pages have at least one entry), `DaemonAssumption` (the event
channel has room for one; `NoAddr` is no address; no peer is called like another
holder of the lock), `MountAssumption` (the empty file is within every limit) and
`MirrorAssumption` (there is a path, and paths are numbers, so that a walk has an
order). Nothing bounds the number of nodes, paths, contents, writes, pages,
failures or restarts.

Some properties do not hold of every cluster, as the configurations of section 4
show. What they need besides is a hypothesis of the theorem, about what the
environment does; where a configuration is named it shows that the property fails
without it:

| Hypothesis | Says | Without it |
|---|---|---|
| `CountersHaveRoom` | no uint32 counter is within two of its wrap | `HLC`'s counter wraps to zero |
| `FreshAheadOfStore`, `FreshAheadOfOwn` | a clock that has not ticked since its process started is behind the machine's clock, which is past all that the node stores (or wrote) | `RestartBehind` |
| `HeadsGrow` | no database is replaced by an empty one | `RebuiltPeer`; with a database go the edits it alone held |
| `NamesTell` | a conflict name belongs to one content: no node writes two contents to a path within one reading of its wall clock | `ConflictNameReused` |
| `CopiesUnedited` | no conflict is decided again over an earlier copy of the same row that a user has edited since | `RetriedConflict` |
| `Remembers` | no tombstone is dropped that a peer still lists | `ForgottenTombstone` |
| `RefusalsLast` | what is refused for its timestamp stays refused | `DriftHeals` |
| `DeferredLast` | only the last page of a feed has deferred entries | `DeferAcrossPages` |
| `DisjointHomes` | no two peers ever have the same address | `MisdirectedPull` |
| `~AtomicTrunc` | the kernel truncates by `Setattr` | `TruncateUnsaved` |
| `TombstoneOutlivesRename` | no tombstone at the new name expires between the two writes of a rename | the janitor may take what replaced the copy |
| `StaysDeleted` | no peer creates a deleted path again | `RemovalEcho`, `CreatedAgain` |
| `EditsWhenDown` | users write to the directory while the daemon is stopped | `EditOverwritten` |
| `OffersSucceed`, `FilesFit` | the mirror's offers to the tree succeed, and users' files are within the limit | `OfferFails`, `OversizedEdit` |

What is proved, module by module:

- `ClockProofs`: `ClockTypeOK`, `ClockHoldsGreatest`, `ClockNeverDraggedAhead`,
  `ClockStrictlyIncreasing`: what `hlc.go` promises of `Now` and of `MaxClockDrift`,
  for every width of the counter and every movement of the machine's clock.
  `HLCProofs` has the facts about `Now` and `Observe`. `HoldsGreatest` is inductive
  with the types: its first half, equality of the walls, is what survives a wrap,
  and `StrictlyIncreasing` follows from it in one step.
- `ReplicationProofs`: `ReplicationTypeOK`, `ReplicationFeedWellFormed`,
  `ReplicationContentHeld`, without hypotheses. The inductive invariant is
  `SafetyInv`. `FeedWellFormed` and `ContentHeld` are not inductive alone:
  `CommitPage` writes a batch that was built in earlier steps. `PullsOK` says of
  every pull that its batch is numbered `1..count`, names a path once, and that
  each live file in it has its blob on the node already. That last part is kept by
  the janitor only because it needs `Service.write`, which the pull holds for as
  long as it has a batch; so `PullsOK` also ties a batch that is not empty to
  `pc = "apply"`. A conflict copy has the blob of the row it was copied from,
  which `ContentHeld` gives for the same reason. The steps are proved for `Step`:
  a step of `Next`, or an `Operation`, which is a local write with any operands.
  That is more than `Next` lets users do, and is what a call of the mount does.
- `VersionProofs`: `ReplicationVersionNeverRegresses`. A commit installs what
  `resolve` decided steps before, so `VersionInv` adds to `SafetyInv`: one pull at a
  time holds the lock (`OneHolder`); each row of a batch is still later than the
  stored row of its path (`BatchNewer`); a clock that has ticked is at or past all
  its node stores or is about to store (`ClockCovers`), which is why a conflict copy
  and a local write are later than what they replace; and no version has a counter
  that a clock could not go on from (`Roomy`).
  `ReplicationVersionsIdentifyWrites` has an invariant of its own, over `Known`, all
  entries stored, received or prepared anywhere: a clock that has ticked is at or
  past its node's writes wherever they are (`OwnCovered`), so a new stamp is new in
  the whole cluster (`Identified`).
  `ReplicationBookmarkSound` follows `syncPeer` through a pull with `BookmarkInv`: a
  digest that has arrived lists what the feed still has of its time
  (`DigestCurrent`), so equal trees justify the bookmark; the rest of a page is a
  section of the feed after the cursor, although the peer rewrites rows to higher
  positions meanwhile (`PageCurrent`); and everything at or below `safe`, and below
  the cursor until an entry is deferred, is accounted for or in the batch
  (`WalkSound`). That what is accounted for stays so is `VersionInv` and
  `Remembers`.
  `ReplicationCaughtUpAgrees` is what the two invariants give together, the safe half
  of `Converges`: nodes that have read each other's feeds to the end and refuse
  nothing of them hold the same tree (`CaughtUp`). Each holds a row at least as late
  as the other's for every path, so by order the same version, and a version names
  one write. It asks that every node reads every other; what comes through a third is
  left to the run `Converge`.
  `ReplicationNoEditLost` is about `resolve` and `applyRemote`. Between the decision
  and the commit the conflict copy is in the batch alone, so `EditInv` says that
  whatever a batch is to replace was seen by a user or is in that batch, at its own
  path or under its conflict name (`BatchesKeep`). `resolve` takes an entry without a
  copy when the entry names the local content as its predecessor, so every entry
  anywhere must have been written by a user who saw that predecessor; and a conflict
  name must still have the content it was made for, or a user has replaced that
  (`EntriesTraced`). A local edit between decision and commit is excluded by
  `Service.write`, which only one pull holds (`OneHolder`). The content that belongs to
  a conflict name is the parameter `W` of the theorem, any function for which
  `NamesTell` holds. Nothing is assumed of clocks or counters: losing to an earlier
  write would be wrong, but would lose no edit.
- `RefinementProofs`: `ReplicationImplementsLWW`. `Init` maps to `LWW`'s, and a step
  under `VersionInv` to: `Write` or nothing for a local write, `Receive` for pages
  fetched, given up or lost in a restart, `Receive` or `KeepCopy` for one entry of
  `applyRemote`, `Install` for `CommitPage`, `Forget` for the janitor, `Reset` for
  `Wipe`, nothing for a tick. `BatchNewer` is what makes a commit an `Install`. The steps
  are proved for `Step` here too.
- `DaemonProofs`: `DaemonTypeOK`; `DaemonNoLostWakeup`, from `OneWriter` (whoever
  commits holds `Service.write`) and `WakeInv`, which begins when the mirror reads
  the tree: what it read is current, or a wake-up is in the channel, or a commit has
  yet to notify; `DaemonPanicsAtTheEnd`, from `EndInv` and `OneWriter`: the channel is
  closed after `Run`, the mirror and the API have returned, and they stay so; it
  assumes nothing of memberlist, and a panic itself is what `SendOnClosed` shows;
  `DaemonBookmarkOfPeer`, from `HomeInv`: an address in a member report, a hint, an event or a pull is one of its
  peer's addresses.
- `MountProofs`: `MountTypes`, `MountKeepsStore`, `MountBuffersFit`,
  `MountSuccessMeansStored`, `MountChmodKeepsContent`, `MountRenameKeepsFile`. Every
  call that writes is an `Operation`, so the cluster's lemmas hold under the mount.
  `MountInv` is `SafetyInv` with the handles and the call, and with `EntriesFine`:
  every row and every batch entry is within the node's limit, since an `Open` fills
  its buffer from the tree and a page is only checked by `applyRemote`. The rename
  also needs `VersionInv`: between its two writes the new name holds the copy or
  something later (`CopyKept`). `MountVersionNeverRegresses`,
  `MountVersionsIdentifyWrites`, `MountBookmarkSound` and `MountStepsImplementLWW` carry
  the results on versions, bookmarks and the refinement over to a cluster with a
  mount: a call writes on the strength of a row it read some steps before, and its
  write is still one `Write` of `LWW`. `NoEditLost` does not carry over, since such a
  write names a predecessor that no program has seen: `StaleHandle`, `CreateOverEdit`,
  `RenameOverEdit`.
- `MirrorProofs`: `MirrorTypeOK`; `MirrorDeletesOnlyRemovals`, without hypotheses, from
  `RemovalInv`: a path for which an event waits somewhere (inotify's queue, pump, the
  channel, the batch) has a file, or its file was removed under this process by a
  user or by the sweep and not put back (`ClaimsExplained`), and while the process is
  stopped nothing waits (`StoppedQuiet`); `MirrorNoEchoDeletes`, from `SweepsDeleted`:
  what the sweep removes is deleted in the tree already and stays so under
  `StaysDeleted`; `MirrorKeepsOfflineEdits`, from `FreshInv`: a user's file is still to
  be scanned or the tree has outdone it.

TLC checked each inductive invariant, under the hypotheses of its theorem, before
it was proved: those of `VersionProofs` with the constants of `Edits`, `Faults`, `Pages`
and `Janitor` (`BookmarkInv` and `VersionInv` on 329 998, 726 894, 302 521 and 354 932
states, and on 8 352 with those of `DeferAcrossPages`), `EditInv` also with those of
`ConflictNameReused` and `RetriedConflict`, those of `MountProofs` with those of the
`Mount` runs; those of `DaemonProofs` on 103 166 with the constants of `Daemon` and
97 289 with those of `SendOnClosed`; `RemovalInv` on 401 907 with the constants of
`MirrorQuiet` and 8 614 with those of `RemovalEcho`, `SweepsDeleted` on 305 141,
`FreshInv` on 46 165 with those of `MirrorOffline`.

Only model-checked: the liveness properties `Converges`, `MirrorConverges`,
`ChangesNoticed`, `RendersLatest` and `Stops`, since fairness and `ENABLED` are outside
what TLAPS proves, as is induction over recursive definitions (none are used).

## 6. Not modelled

- memberlist and the kernel: external, modelled from how the code uses them. The
  kernel's caches of names and attributes (one second) are left out; a program sees
  the tree as it is.
- Signatures, nonces and sealing: they hold between nodes of one secret. The window
  on the time of signing is modelled. Timeouts decide whether a call fails, and
  every call may.
- Reading through the mount (`Lookup`, `Readdir`, `Getattr`, read handles), the status
  document and command, and the wiring of `runServe` before its goroutines start:
  they change nothing.
- Two remarks on the end of the process that no property needs: pulls are not
  waited for before the store is closed, so one may still be committing; and the
  mount is unmounted after `Wait` and `Leave`, although `serve.go:151` says "Unmount
  before anything else tears down". A mirror or a mount that cannot be opened ends
  the process without `Leave` (`MirrorOpenFails`, `MountFails`).
- The comment on `EventBuffer` (`cluster.go:127`) says that the oldest events are
  dropped; `emit` drops the newest, which is what the model does.
- Lexical path checks, file modes apart from the one attribute, sizes apart from
  "too large".
- Subdirectories and temporary files in the mirror. Users of the directory write
  files under the owner they find.
- Peers that send what no program of this repository would send.
- The tombstone TTL's promise, that no node is away for longer, is left to the
  operator. It is the hypothesis `Remembers` of the proof of `BookmarkSound`;
  `ForgottenTombstone` shows a node that forgets too early.
