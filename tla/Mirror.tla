------------------------------- MODULE Mirror -------------------------------
(***************************************************************************)
(* The directory mirror of one node (internal/mirror): the Run loop that   *)
(* promotes local files into the tree (scan, applyEvents) and writes the   *)
(* tree out (render), the pump goroutine that turns inotify events into    *)
(* batches, and around them the users of the directory and the syncer,     *)
(* which changes the tree when a peer's write arrives.                     *)
(*                                                                         *)
(* The directory is flat and holds regular files. A path is a number, in   *)
(* the order in which walks visit paths. The removed flag of an event is   *)
(* left out: applyEvents looks at the disk again in both cases and does    *)
(* the same thing for a file.                                              *)
(***************************************************************************)
EXTENDS Integers, Sequences, FiniteSets

CONSTANTS
  Path, Content, NoHash,
  Owner,       \* uid and gid
  Self,        \* the owner of files this process creates
  IsRoot,      \* euid 0, from which Open guesses that ownership can be set
  Privileged,  \* whether the kernel lets this process set ownership
  TooLarge,    \* contents above MaxFileSize
  QueueCap,    \* inotify's max_queued_events
  MaxTime,     \* bound: ticks of time
  Limit        \* bound: Limit[e] occurrences of the environment event e

EnvEvent == {"edit", "remove", "offline", "put", "delete", "lose", "stop", "fault"}

ASSUME MirrorAssumption ==
  /\ Path \subseteq Nat /\ Path # {}
  /\ NoHash \notin Content
  /\ Self \in Owner
  /\ IsRoot \in BOOLEAN /\ Privileged \in BOOLEAN
  /\ TooLarge \subseteq Content
  /\ QueueCap \in Nat /\ MaxTime \in Nat
  /\ Limit \in [EnvEvent -> Nat]

VARIABLES
  now,
  tree,      \* tree[p]: the store's row for p, as the mirror reads it
  disk,      \* disk[p]: the file at p
  canChown,  \* Mirror.canChown
  changed,   \* a wake-up waits in the subscription channel
  loop,      \* where Run stands
  watching,  \* the watcher is running
  queue,     \* inotify events not yet read by pump
  pending,   \* pump's pending map
  out,       \* the batch in the events channel, {} when it is empty
  inflight,  \* Mirror.inflight
  \* History and bounds, not state of the program:
  fresh,     \* files a user wrote and the mirror has not offered yet
  gone,      \* files a user removed while the daemon ran, not written since
  swept,     \* files the mirror removed for a tombstone, not written since
  spent      \* environment events so far

watcher == <<watching, queue, pending, out, inflight>>
vars == <<now, tree, disk, canChown, changed, loop, watcher, fresh, gone, swept, spent>>

Row == [state : {"unknown", "live", "deleted"}, hash : Content \cup {NoHash},
        owner : Owner, wall : Nat]
File == [hash : Content \cup {NoHash}, owner : Owner, mtime : Nat]
NoRow == [state |-> "unknown", hash |-> NoHash, owner |-> Self, wall |-> 0]
NoFile == [hash |-> NoHash, owner |-> Self, mtime |-> 0]

(* Where Run stands. do is the half of a two-part operation that is under  *)
(* way: a promotion that has been decided and not yet offered, or a file   *)
(* that render found to differ and has not yet written.                    *)
Loop == [pc : {"down", "scan", "render", "sweep", "select", "apply"},
         starting : BOOLEAN,                       \* before the watch starts
         todo : SUBSET Path, batch : SUBSET Path,  \* paths still to visit
         entries : SUBSET [path : Path, row : Row],
         do : {"none", "put", "write"}, path : Path, owner : Owner]

AnyPath == CHOOSE p \in Path : TRUE

At(pc, todo) ==
  [pc |-> pc, starting |-> FALSE, todo |-> todo, batch |-> {}, entries |-> {},
   do |-> "none", path |-> AnyPath, owner |-> Self]

\* Every variable keeps its type: rows have content while they are live, and only
\* such rows are rendered; a promotion under way is of a path the walk has not left;
\* the event queue stays within inotify's limit.
TypeOK ==
  /\ now \in Nat
  /\ tree \in [Path -> Row]
  /\ disk \in [Path -> File]
  /\ canChown \in BOOLEAN /\ changed \in BOOLEAN /\ watching \in BOOLEAN
  /\ loop \in Loop
  /\ \A p \in Path : tree[p].state = "live" <=> tree[p].hash \in Content
  /\ \A e \in loop.entries : e.row.hash \in Content
  /\ loop.do = "put" => loop.pc \in {"scan", "apply"} /\ loop.path \in loop.todo
  /\ loop.do = "write" => loop.pc = "render" /\ loop.entries # {}
  /\ queue \in Seq(Path) /\ Len(queue) <= QueueCap
  /\ pending \subseteq Path /\ out \subseteq Path /\ inflight \subseteq Path
  /\ fresh \subseteq Path /\ gone \subseteq Path /\ swept \subseteq Path
  /\ spent \in [EnvEvent -> Nat]

Init ==
  /\ now = 1
  /\ tree = [p \in Path |-> NoRow]
  /\ disk = [p \in Path |-> NoFile]
  /\ canChown = IsRoot
  /\ changed = FALSE
  /\ loop = At("down", {})
  /\ watching = FALSE /\ queue = << >>
  /\ pending = {} /\ out = {} /\ inflight = {}
  /\ fresh = {} /\ gone = {} /\ swept = {}
  /\ spent = [e \in EnvEvent |-> 0]

Spend(e) ==
  /\ spent[e] < Limit[e]
  /\ spent' = [spent EXCEPT ![e] = @ + 1]

First(S) == CHOOSE p \in S : \A o \in S : p <= o

OnDisk == {p \in Path : disk[p].hash # NoHash}

\* inotify queues an event for p: an event equal to the last one in the queue
\* is merged into it, and a full queue loses it.
Queued(p) ==
  IF \/ ~watching
     \/ Len(queue) >= QueueCap
     \/ queue # << >> /\ queue[Len(queue)] = p
  THEN queue ELSE Append(queue, p)

---------------------------------------------------------------------------
(* Users of the directory, and the tree as peers change it. *)

\* An edit or a removal; some happen only while the daemon is stopped.
UserSpend(e) == Spend(e) \/ (loop.pc = "down" /\ Spend("offline"))

UserEdit(p, c) ==
  /\ disk[p].hash # c
  /\ UserSpend("edit")
  /\ disk' = [disk EXCEPT ![p] = [hash |-> c, owner |-> @.owner, mtime |-> now]]
  /\ fresh' = fresh \cup {p}
  /\ gone' = gone \ {p} /\ swept' = swept \ {p}
  /\ queue' = Queued(p)
  /\ UNCHANGED <<now, tree, canChown, changed, loop, watching, pending, out, inflight>>

UserRemove(p) ==
  /\ p \in OnDisk
  /\ UserSpend("remove")
  /\ disk' = [disk EXCEPT ![p] = NoFile]
  /\ fresh' = fresh \ {p}
  /\ gone' = IF loop.pc = "down" THEN gone ELSE gone \cup {p}
  /\ queue' = Queued(p)
  /\ UNCHANGED <<now, tree, canChown, changed, loop, watching, pending, out, inflight,
                 swept>>

\* The syncer stores a peer's row for p: a version at or above the one it
\* replaces, written by now. It wakes the mirror.
PeerWrite(p) ==
  /\ loop.pc # "down"
  /\ \E w \in tree[p].wall .. now, o \in Owner :
       /\ w > 0
       /\ \/ /\ Spend("put")
             /\ \E c \in Content :
                  tree' = [tree EXCEPT ![p] =
                    [state |-> "live", hash |-> c, owner |-> o, wall |-> w]]
          \/ /\ Spend("delete")
             /\ tree[p].state = "live" /\ o = tree[p].owner
             /\ tree' = [tree EXCEPT ![p] =
                  [state |-> "deleted", hash |-> NoHash, owner |-> o, wall |-> w]]
  /\ tree' # tree
  /\ changed' = TRUE
  /\ UNCHANGED <<now, disk, canChown, loop, watcher, fresh, gone, swept>>

Tick ==
  /\ now < MaxTime
  /\ now' = now + 1
  /\ UNCHANGED <<tree, disk, canChown, changed, loop, watcher, fresh, gone, swept, spent>>

---------------------------------------------------------------------------
(* The watcher: pump. *)

\* An event is read: the path is pending and claimed. (The settle timer is
\* armed again; Flush may happen at any later time.)
Deliver ==
  /\ queue # << >>
  /\ pending' = pending \cup {Head(queue)}
  /\ inflight' = inflight \cup {Head(queue)}
  /\ queue' = Tail(queue)
  /\ UNCHANGED <<now, tree, disk, canChown, changed, loop, watching, out,
                 fresh, gone, swept, spent>>

\* The settle timer fires and the channel of depth one has room.
Flush ==
  /\ pending # {}
  /\ out = {}
  /\ out' = pending
  /\ pending' = {}
  /\ UNCHANGED <<now, tree, disk, canChown, changed, loop, watching, queue, inflight,
                 fresh, gone, swept, spent>>

\* An event that never arrives (an overflow, a bind mount without inotify).
LoseEvent ==
  /\ queue # << >>
  /\ Spend("lose")
  /\ queue' = Tail(queue)
  /\ UNCHANGED <<now, tree, disk, canChown, changed, loop, watching, pending, out, inflight,
                 fresh, gone, swept>>

---------------------------------------------------------------------------
(* promote, for a path of the walk of scan or of the batch of applyEvents. *)

diskIsNewer(row, mtime) ==
  row.state = "unknown" \/ (row.state = "live" /\ mtime > row.wall)

ownershipFor(p, row) ==
  IF ~canChown /\ row.state # "unknown" THEN row.owner ELSE disk[p].owner

Promoting == loop.pc \in {"scan", "apply"} /\ loop.do = "none" /\ loop.todo # {}

\* The walk or the batch moves on to the next path.
Visited == [loop EXCEPT !.todo = @ \ {First(loop.todo)}, !.do = "none"]

\* Lstat, the comparison with the stored row, and the size. A read of the row
\* that fails counts as a path the tree does not know.
PromoteCheck ==
  LET p == First(loop.todo)
      offer(row) == diskIsNewer(row, disk[p].mtime) /\ disk[p].hash \notin TooLarge
  IN  /\ Promoting
      /\ p \in OnDisk
      /\ \E row \in {tree[p], NoRow} :
           /\ IF row = tree[p] THEN UNCHANGED spent ELSE Spend("fault")
           /\ loop' = IF offer(row)
                      THEN [loop EXCEPT !.do = "put", !.path = p,
                                        !.owner = ownershipFor(p, row)]
                      ELSE Visited
      /\ UNCHANGED <<now, tree, disk, canChown, changed, watcher, fresh, gone, swept>>

\* A path of the walk that has vanished since the directory was read.
ScanMissing ==
  /\ Promoting
  /\ loop.pc = "scan" /\ First(loop.todo) \notin OnDisk
  /\ loop' = Visited
  /\ UNCHANGED <<now, tree, disk, canChown, changed, watcher, fresh, gone, swept, spent>>

\* Service.PutFile of p, with its early return for what the tree has already.
PutFile(p, c, o) ==
  /\ tree' = [tree EXCEPT ![p] =
       IF @.state = "live" /\ @.hash = c /\ @.owner = o THEN @
       ELSE [state |-> "live", hash |-> c, owner |-> o, wall |-> now]]
  /\ changed' = (changed \/ tree' # tree)

\* A promotion that offers what it could not read.
PromotePutUnread ==
  LET p == loop.path
  IN  /\ loop.do = "put"
      /\ PutFile(p, disk[p].hash, loop.owner)
      /\ fresh' = fresh \ {p}
      /\ loop' = Visited
      /\ UNCHANGED <<now, disk, canChown, watcher, gone, swept, spent>>

\* The content is read and offered. It may have vanished, outgrown the limit,
\* or PutFile may fail: the path is then left to the next scan.
PromotePut ==
  LET p == loop.path
  IN  /\ loop.do = "put"
      /\ \/ /\ p \in OnDisk /\ disk[p].hash \notin TooLarge
            /\ PutFile(p, disk[p].hash, loop.owner)
            /\ fresh' = fresh \ {p}
            /\ UNCHANGED spent
         \/ /\ p \notin OnDisk \/ disk[p].hash \in TooLarge
            /\ UNCHANGED <<tree, changed, fresh, spent>>
         \/ /\ Spend("fault")
            /\ UNCHANGED <<tree, changed, fresh>>
      /\ loop' = Visited
      /\ UNCHANGED <<now, disk, canChown, watcher, gone, swept>>

\* deleteLocal: an event for a path where there is nothing. A Delete of what the
\* tree does not hold returns early.
DeleteLocal ==
  LET p == First(loop.todo)
  IN  /\ Promoting
      /\ loop.pc = "apply" /\ p \notin OnDisk
      /\ \/ /\ tree' = [tree EXCEPT ![p] =
                 IF @.state = "live"
                 THEN [@ EXCEPT !.state = "deleted", !.hash = NoHash, !.wall = now]
                 ELSE @]
            /\ changed' = (changed \/ tree' # tree)
            /\ UNCHANGED spent
         \/ /\ Spend("fault")
            /\ UNCHANGED <<tree, changed>>
      /\ loop' = Visited
      /\ UNCHANGED <<now, disk, canChown, watcher, fresh, gone, swept>>

\* The claims of a batch that are never released.
ReleasedNever(batch) == inflight

\* clearInflight of every path of the batch.
Released(batch) == inflight \ batch

\* The deferred end of applyEvents.
ApplyDone ==
  /\ loop.pc = "apply" /\ loop.do = "none" /\ loop.todo = {}
  /\ inflight' = Released(loop.batch)
  /\ loop' = At("select", {})
  /\ UNCHANGED <<now, tree, disk, canChown, changed, watching, queue, pending, out,
                 fresh, gone, swept, spent>>

---------------------------------------------------------------------------
(* render: the live rows, then the removal of what tombstones name. *)

Rendering(starting) ==
  [At("render", {}) EXCEPT
     !.starting = starting,
     !.entries = {[path |-> p, row |-> tree[p]] :
                  p \in {q \in Path : tree[q].state = "live"}}]

\* A scan that takes a live row without a file for a deletion.
ScanDoneDeletes ==
  /\ loop.pc = "scan" /\ loop.do = "none" /\ loop.todo = {}
  /\ tree' = [p \in Path |->
       IF tree[p].state = "live" /\ p \notin OnDisk
       THEN [tree[p] EXCEPT !.state = "deleted", !.hash = NoHash, !.wall = now]
       ELSE tree[p]]
  /\ loop' = Rendering(loop.starting)
  /\ UNCHANGED <<now, disk, canChown, changed, watcher, fresh, gone, swept, spent>>

\* scan is over: render follows, at start and on every tick.
ScanDone ==
  /\ loop.pc = "scan" /\ loop.do = "none" /\ loop.todo = {}
  /\ loop' = Rendering(loop.starting)
  /\ UNCHANGED <<now, tree, disk, canChown, changed, watcher, fresh, gone, swept, spent>>

Current == CHOOSE e \in loop.entries : \A o \in loop.entries : e.path <= o.path

Rendered == [loop EXCEPT !.entries = @ \ {Current}, !.do = "none"]

\* applyMeta of e: the chmod is an event of its own, and the first chown that
\* fails makes canChown false. owner is what the file had.
ApplyMeta(e, owner, hash, mtime) ==
  /\ disk' = [disk EXCEPT ![e.path] =
       [hash |-> hash, mtime |-> mtime,
        owner |-> IF canChown /\ Privileged THEN e.row.owner ELSE owner]]
  /\ canChown' = (canChown /\ Privileged)
  /\ queue' = Queued(e.path)

\* The isInflight test and readLocal. A readLocal or an applyMeta that fails leaves
\* the file to the next rendering.
RenderCheck ==
  LET e == Current
      file == disk[e.path]
  IN  /\ loop.pc = "render" /\ loop.do = "none" /\ loop.entries # {}
      /\ \/ /\ e.path \in inflight
            /\ loop' = Rendered
            /\ UNCHANGED <<disk, canChown, queue, fresh, spent>>
         \/ /\ e.path \notin inflight /\ Spend("fault")
            /\ loop' = Rendered
            /\ UNCHANGED <<disk, canChown, queue, fresh>>
         \/ /\ e.path \notin inflight /\ file.hash = e.row.hash
            /\ ApplyMeta(e, file.owner, file.hash, file.mtime)
            /\ fresh' = fresh \ {e.path}
            /\ loop' = Rendered
            /\ UNCHANGED spent
         \/ /\ e.path \notin inflight /\ file.hash # e.row.hash
            /\ loop' = [loop EXCEPT !.do = "write"]
            /\ UNCHANGED <<disk, canChown, queue, fresh, spent>>
      /\ UNCHANGED <<now, tree, changed, watching, pending, out, inflight, gone, swept>>

\* Content, writeAtomic (a new file renamed into place) and applyMeta. When one
\* fails before the rename the file is left as it is; when applyMeta fails it has
\* the owner it was created with.
RenderWrite ==
  LET e == Current
  IN  /\ loop.do = "write"
      /\ \/ /\ \/ ApplyMeta(e, Self, e.row.hash, now) /\ UNCHANGED spent
               \/ /\ disk' = [disk EXCEPT ![e.path] =
                       [hash |-> e.row.hash, mtime |-> now, owner |-> Self]]
                  /\ queue' = Queued(e.path)
                  /\ Spend("fault")
                  /\ UNCHANGED canChown
            /\ fresh' = fresh \ {e.path}
            /\ gone' = gone \ {e.path} /\ swept' = swept \ {e.path}
         \/ /\ Spend("fault")
            /\ UNCHANGED <<disk, canChown, queue, fresh, gone, swept>>
      /\ loop' = Rendered
      /\ UNCHANGED <<now, tree, changed, watching, pending, out, inflight>>

\* What removeTombstoned decides to remove.
doomed == {p \in OnDisk \ inflight : tree[p].state = "deleted"}

RenderDone ==
  /\ loop.pc = "render" /\ loop.do = "none" /\ loop.entries = {}
  /\ loop' = [At("sweep", doomed) EXCEPT !.starting = loop.starting]
  /\ UNCHANGED <<now, tree, disk, canChown, changed, watcher, fresh, gone, swept, spent>>

\* The deepest path that is left to remove. A Remove that fails leaves the file.
RemoveTombstoned ==
  /\ loop.pc = "sweep"
  /\ \E p \in loop.todo :
       /\ \A o \in loop.todo : o <= p
       /\ \/ /\ disk' = [disk EXCEPT ![p] = NoFile]
             /\ queue' = IF p \in OnDisk THEN Queued(p) ELSE queue
             /\ fresh' = fresh \ {p}
             /\ swept' = IF p \in OnDisk THEN swept \cup {p} ELSE swept
             /\ UNCHANGED spent
          \/ /\ Spend("fault")
             /\ UNCHANGED <<disk, queue, fresh, swept>>
       /\ loop' = [loop EXCEPT !.todo = @ \ {p}]
  /\ UNCHANGED <<now, tree, canChown, changed, watching, pending, out, inflight, gone>>

\* render is over. At start the watch begins here, or fails to.
SweepDone ==
  /\ loop.pc = "sweep" /\ loop.todo = {}
  /\ \/ watching' = (watching \/ loop.starting) /\ UNCHANGED spent
     \/ loop.starting /\ Spend("fault") /\ UNCHANGED watching
  /\ loop' = At("select", {})
  /\ UNCHANGED <<now, tree, disk, canChown, changed, queue, pending, out, inflight,
                 fresh, gone, swept>>

---------------------------------------------------------------------------
(* Run: the start, the select loop, and the end of the process. *)

\* A start that renders before it scans.
StartRenderFirst ==
  /\ loop.pc = "down"
  /\ canChown' = IsRoot
  /\ loop' = Rendering(TRUE)
  /\ UNCHANGED <<now, tree, disk, changed, watcher, fresh, gone, swept, spent>>

\* Open and Run up to the first scan: Open guesses canChown from the euid.
Start ==
  /\ loop.pc = "down"
  /\ canChown' = IsRoot
  /\ loop' = [At("scan", OnDisk) EXCEPT !.starting = TRUE]
  /\ UNCHANGED <<now, tree, disk, changed, watcher, fresh, gone, swept, spent>>

SelectChanged ==
  /\ loop.pc = "select" /\ changed
  /\ changed' = FALSE
  /\ loop' = Rendering(FALSE)
  /\ UNCHANGED <<now, tree, disk, canChown, watcher, fresh, gone, swept, spent>>

SelectEvents ==
  /\ loop.pc = "select" /\ out # {}
  /\ loop' = [At("apply", out) EXCEPT !.batch = out]
  /\ out' = {}
  /\ UNCHANGED <<now, tree, disk, canChown, changed, watching, queue, pending, inflight,
                 fresh, gone, swept, spent>>

SelectTick ==
  /\ loop.pc = "select"
  /\ loop' = At("scan", OnDisk)
  /\ UNCHANGED <<now, tree, disk, canChown, changed, watcher, fresh, gone, swept, spent>>

\* The process ends, wherever Run and pump stand.
Stop ==
  /\ loop.pc # "down"
  /\ Spend("stop")
  /\ loop' = At("down", {})
  /\ changed' = FALSE
  /\ watching' = FALSE /\ queue' = << >>
  /\ pending' = {} /\ out' = {} /\ inflight' = {}
  /\ gone' = {} /\ swept' = {}
  /\ UNCHANGED <<now, tree, disk, canChown, fresh>>

\* A step of the Run goroutine that is not a choice of select.
RunStep ==
  \/ Start
  \/ PromoteCheck \/ ScanMissing \/ PromotePut \/ DeleteLocal \/ ApplyDone
  \/ ScanDone \/ RenderCheck \/ RenderWrite \/ RenderDone
  \/ RemoveTombstoned \/ SweepDone

Next ==
  \/ RunStep \/ SelectChanged \/ SelectEvents \/ SelectTick
  \/ Deliver \/ Flush
  \/ LoseEvent \/ Stop \/ Tick
  \/ \E p \in Path : UserRemove(p) \/ PeerWrite(p)
  \/ \E p \in Path, c \in Content : UserEdit(p, c)

Spec == Init /\ [][Next]_vars

\* The goroutines are scheduled, the operator starts the daemon again, and
\* select, which chooses at random among the ready cases, takes each in the
\* end. Nothing is assumed of users, peers, failures or events getting lost.
FairSpec ==
  /\ Spec
  /\ WF_vars(RunStep) /\ WF_vars(Deliver) /\ WF_vars(Flush) /\ WF_vars(Tick)
  /\ SF_vars(SelectChanged) /\ SF_vars(SelectEvents) /\ SF_vars(SelectTick)

---------------------------------------------------------------------------
(* Properties. *)

\* A step of the Run goroutine: nobody else moves loop.
ByMirror == loop' # loop

\* "The later modification wins", for what a user wrote: the mirror replaces or
\* removes a file a user wrote and the tree has not been offered only when the
\* tree holds a version at least as new, or holds the path as deleted; never
\* because the tree does not know it.
NoUserFileClobbered ==
  [][\A p \in fresh : ByMirror /\ disk'[p].hash # disk[p].hash =>
       \/ tree[p].state = "deleted"
       \/ tree[p].state = "live" /\ tree[p].wall >= disk[p].mtime]_vars

\* What the mirror writes into the tree is some user's edit of that file, never
\* the echo of an earlier render.
PromotesOnlyEdits ==
  [][\A p \in Path : ByMirror /\ tree'[p].state = "live" /\ tree'[p].hash # tree[p].hash =>
       p \in fresh]_vars

\* "Deletions come only from an explicit filesystem event": the mirror deletes
\* from the tree only what was removed from the directory under this process, by a
\* user or by the mirror for a tombstone, and was not put back. A file that is
\* missing for any other reason (removed while the daemon was stopped, never
\* written, or impossible to write) comes back.
DeletesOnlyRemovals ==
  [][\A p \in Path : ByMirror /\ tree[p].state = "live" /\ tree'[p].state = "deleted" =>
       p \in gone \cup swept]_vars

\* The mirror does not delete on account of its own removals: what it deletes a
\* user removed.
NoEchoDeletes ==
  [][\A p \in Path : ByMirror /\ tree[p].state = "live" /\ tree'[p].state = "deleted" =>
       p \in gone]_vars

\* "A node that cannot set ownership must therefore not report ownership
\* either": for a file the tree knows, it leaves the owner alone.
OwnershipKept ==
  [][\A p \in Path : ByMirror /\ ~Privileged /\ tree[p].state = "live" =>
       tree'[p].owner = tree[p].owner]_vars

\* inflight "holds paths with a local filesystem event that has been seen but not
\* yet acted on".
ClaimHeld == pending \cup out \subseteq inflight

\* Disk and tree agree: live rows are on disk, deleted ones are not, and what is
\* on disk has been adopted unless it is too large.
InStep ==
  \A p \in Path :
    CASE tree[p].state = "live" -> disk[p].hash = tree[p].hash
      [] tree[p].state = "deleted" -> disk[p].hash = NoHash
      [] OTHER -> disk[p].hash \in TooLarge \cup {NoHash}

\* "The periodic full rescan is what makes this package correct": whatever
\* events are lost and whenever the daemon stops, once users and peers are
\* quiet the directory and the tree come to agree and stay so.
MirrorConverges == <>[]InStep
=============================================================================
