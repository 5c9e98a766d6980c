------------------------------ MODULE Daemon -------------------------------
(***************************************************************************)
(* One dcfs process (cmd/dcfs/serve.go) and its goroutines: the gossip     *)
(* callbacks that fill the event channel (internal/cluster), Service.Run,  *)
(* the pulls it starts and the commits that wake the mirror and announce   *)
(* themselves (internal/syncer), the mirror's loop as a subscriber, and    *)
(* how all of them stop. What a pull does to the tree is Replication's     *)
(* matter: here it reads a peer's feed position and commits, or fails.     *)
(***************************************************************************)
EXTENDS Integers, Sequences

CONSTANTS
  Peer,           \* the other nodes
  Addr,           \* API addresses
  NoAddr,         \* not an address: the peer is down, or its metadata unreadable
  Setup,          \* the deployments considered: a mirror and a mount or neither,
                  \* and the addresses that each peer may come up on
  EventBuffer,    \* capacity of the event channel
  LateCallbacks,  \* external: callbacks may run after memberlist's Shutdown
  MaxHead,        \* bound: feed positions of a peer
  MaxFeed,        \* bound: feed positions of this node while users write
  MaxFaults       \* bound: failures, and restarts of peers

ASSUME DaemonAssumption ==
  /\ NoAddr \notin Addr
  /\ Peer \cap {"none", "user", "mirror"} = {}
  /\ Setup \subseteq [projected : BOOLEAN, home : [Peer -> SUBSET Addr]]
  /\ EventBuffer \in Nat \ {0}
  /\ LateCallbacks \in BOOLEAN
  /\ MaxHead \in Nat /\ MaxFeed \in Nat /\ MaxFaults \in Nat

VARIABLES
  setup,      \* the deployment; never changes
  \* The world:
  peer,       \* peer[q]: its feed position and the address it listens on
  member,     \* member[q]: the address memberlist reports for q
  hints,      \* hints on their way: lost, repeated and reordered at will
  \* The syncer and the cluster of this process:
  events,     \* the event channel
  closed,     \* Leave has closed it
  run,        \* Service.Run: at its select, in the janitor, or returned
  pull,       \* pull[q]: the goroutine of triggerSync for q, and Service.syncing
  known,      \* known[q]: the bookmark, how far q's feed has been read
  lock,       \* who holds Service.write
  commit,     \* how far the holder's commit is
  feed,       \* this node's feed position
  \* The mirror's loop and the process:
  signal,     \* the subscriber's channel holds a wake-up
  mirror,     \* mirror.Run, from runServe's mirror.Open on
  looping,    \* its first scan and rendering are done
  seen,       \* the feed position of the last rendering
  mounted,    \* runServe is past mountTree
  api,        \* the peer API serves
  proc,       \* the process: up, stopping, left the cluster, exited, panicked
  faults      \* failures so far

world == <<setup, peer, member, hints>>
cluster == <<events, closed>>
syncer == <<run, pull, known>>
writer == <<lock, commit, feed>>
projection == <<signal, mirror, looping, seen>>
process == <<mounted, api, proc>>
vars == <<world, cluster, syncer, writer, projection, process, faults>>

NoPull == [pc |-> "none", addr |-> NoAddr, cursor |-> 0, more |-> FALSE]

Event == [kind : {"join", "leave", "hint"}, node : Peer, addr : Addr \cup {NoAddr}]

Init ==
  /\ setup \in Setup
  /\ peer = [q \in Peer |-> [head |-> 0, addr |-> NoAddr]]
  /\ member = [q \in Peer |-> NoAddr]
  /\ hints = {}
  /\ events = << >> /\ closed = FALSE
  /\ run = "select"
  /\ pull = [q \in Peer |-> NoPull]
  /\ known = [q \in Peer |-> 0]
  /\ lock = "none" /\ commit = "idle" /\ feed = 0
  /\ signal = FALSE
  /\ mirror = (IF setup.projected THEN "open" ELSE "returned")
  /\ looping = FALSE /\ seen = 0
  /\ mounted = ~setup.projected /\ api = TRUE /\ proc = "up" /\ faults = 0

\* Every variable keeps its type, and the event channel its capacity: emit runs on
\* memberlist's goroutines and neither blocks nor grows the queue (cluster.go:255).
TypeOK ==
  /\ setup \in Setup
  /\ peer \in [Peer -> [head : Nat, addr : Addr \cup {NoAddr}]]
  /\ member \in [Peer -> Addr \cup {NoAddr}]
  /\ hints \subseteq Event
  /\ events \in Seq(Event) /\ Len(events) <= EventBuffer
  /\ closed \in BOOLEAN /\ signal \in BOOLEAN /\ looping \in BOOLEAN
  /\ mounted \in BOOLEAN /\ api \in BOOLEAN
  /\ run \in {"select", "janitor", "returned"}
  /\ pull \in [Peer -> [pc : {"none", "digest", "page", "wait", "commit", "mark"},
                        addr : Addr \cup {NoAddr}, cursor : Nat, more : BOOLEAN]]
  /\ known \in [Peer -> Nat]
  /\ lock \in Peer \cup {"none", "user", "mirror"}
  /\ commit \in {"idle", "apply", "notify", "announce"}
  /\ feed \in Nat /\ seen \in Nat /\ faults \in 0..MaxFaults
  /\ mirror \in {"open", "scan", "write", "render", "draw", "select", "batch", "returned"}
  /\ proc \in {"up", "stopping", "left", "exited", "panicked"}

Alive == proc \in {"up", "stopping", "left"}

\* The context that every loop and every request carries is cancelled.
Cancelled == proc # "up"

Fault == faults < MaxFaults /\ faults' = faults + 1

---------------------------------------------------------------------------
(* The peers, and memberlist as it is used. What the peers do once this     *)
(* process is stopping is left out.                                        *)

\* A peer's users write; it announces the position and the address it has.
PeerWrites(q) ==
  /\ ~Cancelled /\ peer[q].addr # NoAddr /\ peer[q].head < MaxHead
  /\ peer' = [peer EXCEPT ![q].head = @ + 1]
  /\ hints' = hints \cup {[kind |-> "hint", node |-> q, addr |-> peer[q].addr]}
  /\ UNCHANGED <<setup, member, cluster, syncer, writer, projection, process, faults>>

PeerStops(q) ==
  /\ ~Cancelled /\ peer[q].addr # NoAddr
  /\ Fault
  /\ peer' = [peer EXCEPT ![q].addr = NoAddr]
  /\ UNCHANGED <<setup, member, hints, cluster, syncer, writer, projection, process>>

\* On an address of its own that nobody else uses at the time.
PeerStarts(q) ==
  /\ ~Cancelled /\ peer[q].addr = NoAddr
  /\ \E a \in setup.home[q] :
       /\ \A r \in Peer : peer[r].addr # a
       /\ peer' = [peer EXCEPT ![q].addr = a]
  /\ UNCHANGED <<setup, member, hints, cluster, syncer, writer, projection, process, faults>>

\* An emit that queues without looking at the capacity.
emitUnbounded(e) ==
  IF closed THEN proc' = "panicked" /\ UNCHANGED events
  ELSE events' = Append(events, e) /\ UNCHANGED proc

\* Cluster.emit: dropped when the channel is full; a send on a closed channel
\* ends the process, also in a select with a default.
emit(e) ==
  IF closed THEN proc' = "panicked" /\ UNCHANGED events
  ELSE /\ events' = IF Len(events) < EventBuffer THEN Append(events, e) ELSE events
       /\ UNCHANGED proc

\* Callbacks run while memberlist does.
Gossiping == Alive /\ (proc # "left" \/ LateCallbacks)

\* memberlist learns where q is, or that it is gone: NotifyJoin, NotifyUpdate or
\* NotifyLeave.
NotifyMember(q) ==
  /\ Gossiping
  /\ member[q] # peer[q].addr
  /\ member' = [member EXCEPT ![q] = peer[q].addr]
  /\ IF peer[q].addr = NoAddr
     THEN emit([kind |-> "leave", node |-> q, addr |-> member[q]])
     ELSE emit([kind |-> "join", node |-> q, addr |-> peer[q].addr])
  /\ UNCHANGED <<setup, peer, hints, closed, syncer, writer, projection, mounted, api,
                 faults>>

\* NotifyMsg: a hint arrives, late or again, or never.
NotifyMsg(h) ==
  /\ Gossiping
  /\ emit(h)
  /\ UNCHANGED <<world, closed, syncer, writer, projection, mounted, api, faults>>

---------------------------------------------------------------------------
(* Service.Run. *)

\* triggerSync: no address, or a pull of q under way, and nothing happens.
triggerSync(P, q, a) ==
  IF a = NoAddr \/ P[q].pc # "none" THEN P
  ELSE [P EXCEPT ![q] = [NoPull EXCEPT !.pc = "digest", !.addr = a]]

\* A syncAll that leaves everything to the hints.
syncNone(P) == P

\* syncAll over the members memberlist reports.
syncAll(P) == [q \in Peer |-> triggerSync(P, q, member[q])[q]]

\* An event: joins and hints start a pull, a leave does not.
RunEvent ==
  /\ run = "select" /\ Alive /\ events # << >>
  /\ events' = Tail(events)
  /\ pull' = IF Head(events).kind = "leave" THEN pull
             ELSE triggerSync(pull, Head(events).node, Head(events).addr)
  /\ UNCHANGED <<world, closed, run, known, writer, projection, process, faults>>

RunTick ==
  /\ run = "select" /\ Alive
  /\ pull' = syncAll(pull)
  /\ UNCHANGED <<world, cluster, run, known, writer, projection, process, faults>>

\* collect waits for Service.write, and the loop with it.
RunJanitor ==
  /\ run = "select" /\ Alive
  /\ run' = "janitor"
  /\ UNCHANGED <<world, cluster, pull, known, writer, projection, process, faults>>

Collect ==
  /\ run = "janitor" /\ Alive /\ lock = "none"
  /\ run' = "select"
  /\ UNCHANGED <<world, cluster, pull, known, writer, projection, process, faults>>

RunReturns ==
  /\ run = "select" /\ Alive /\ Cancelled
  /\ run' = "returned"
  /\ UNCHANGED <<world, cluster, pull, known, writer, projection, process, faults>>

---------------------------------------------------------------------------
(* Pulls. A page is a prefix of what follows the cursor; nothing in it is  *)
(* deferred.                                                               *)

\* The peers that answer at an address.
Listening(a) == {q \in Peer : peer[q].addr = a}

\* syncPeer up to the first page: the digest comes from whoever listens at the
\* address. Trees that agree only move the bookmark; a feed shorter than the
\* bookmark is read from the beginning.
PullDigest(q) ==
  /\ pull[q].pc = "digest" /\ ~Cancelled
  /\ \E r \in Listening(pull[q].addr) :
       \/ pull' = [pull EXCEPT ![q].pc = "mark", ![q].cursor = peer[r].head]
       \/ pull' = [pull EXCEPT ![q].pc = "page",
                               ![q].cursor = IF peer[r].head < known[q] THEN 0 ELSE known[q]]
  /\ UNCHANGED <<world, cluster, run, known, writer, projection, process, faults>>

\* The next page; an empty one ends the pull, and takes the guard back.
PullPage(q) ==
  /\ pull[q].pc = "page" /\ ~Cancelled
  /\ \E r \in Listening(pull[q].addr) :
       \/ /\ peer[r].head <= pull[q].cursor
          /\ pull' = [pull EXCEPT ![q] = NoPull]
       \/ \E k \in pull[q].cursor + 1 .. peer[r].head :
            pull' = [pull EXCEPT ![q].pc = "wait", ![q].cursor = k,
                                 ![q].more = (k < peer[r].head)]
  /\ UNCHANGED <<world, cluster, run, known, writer, projection, process, faults>>

\* applyRemote takes Service.write; it ends in a commit, or with nothing to store.
PullLock(q) ==
  /\ pull[q].pc = "wait" /\ Alive /\ lock = "none"
  /\ \/ /\ pull' = [pull EXCEPT ![q].pc = "commit"]
        /\ lock' = q /\ commit' = "apply"
     \/ /\ pull' = [pull EXCEPT ![q].pc = "mark"]
        /\ UNCHANGED <<lock, commit>>
  /\ UNCHANGED <<world, cluster, run, known, feed, projection, process, faults>>

\* SetPeerSeq, and the next page if there is one.
PullMark(q) ==
  /\ pull[q].pc = "mark" /\ ~Cancelled
  /\ known' = [known EXCEPT ![q] = pull[q].cursor]
  /\ pull' = IF pull[q].more THEN [pull EXCEPT ![q].pc = "page"]
             ELSE [pull EXCEPT ![q] = NoPull]
  /\ UNCHANGED <<world, cluster, run, writer, projection, process, faults>>

\* A call fails when nobody answers or the context is cancelled, and the pull is over.
PullStops(q) ==
  /\ Alive
  /\ \/ pull[q].pc \in {"digest", "page"} /\ (Listening(pull[q].addr) = {} \/ Cancelled)
     \/ pull[q].pc = "mark" /\ Cancelled
  /\ pull' = [pull EXCEPT ![q] = NoPull]
  /\ UNCHANGED <<world, cluster, run, known, writer, projection, process, faults>>

\* It may also fail in between: a lost answer, a refused signature, a failing store.
PullFails(q) ==
  /\ pull[q].pc \in {"digest", "page", "mark"} /\ Alive
  /\ Fault
  /\ pull' = [pull EXCEPT ![q] = NoPull]
  /\ UNCHANGED <<world, cluster, run, known, writer, projection, process>>

---------------------------------------------------------------------------
(* commit, under Service.write: Apply, then notify, then Announce.         *)

\* The caller of commit goes on, with the lock released.
Release(ok) ==
  /\ lock' = "none" /\ commit' = "idle"
  /\ pull' = [q \in Peer |-> IF lock # q THEN pull[q]
                             ELSE IF ok THEN [pull[q] EXCEPT !.pc = "mark"] ELSE NoPull]
  /\ mirror' = IF lock # "mirror" THEN mirror
               ELSE IF mirror = "batch" THEN "select" ELSE "scan"

\* A write through the mount, which stays until the process exits.
UserWrite ==
  /\ setup.projected /\ mounted /\ Alive /\ lock = "none" /\ feed < MaxFeed
  /\ lock' = "user" /\ commit' = "apply"
  /\ UNCHANGED <<world, cluster, syncer, feed, projection, process, faults>>

Apply ==
  /\ commit = "apply" /\ Alive
  /\ feed' = feed + 1 /\ commit' = "notify"
  /\ UNCHANGED <<world, cluster, syncer, lock, projection, process, faults>>

\* A failing Apply stores nothing and wakes nobody.
ApplyFails ==
  /\ commit = "apply" /\ Alive
  /\ (Cancelled /\ UNCHANGED faults) \/ Fault
  /\ Release(FALSE)
  /\ UNCHANGED <<world, cluster, run, known, feed, signal, looping, seen, process>>

\* A subscriber from the end of mirror.Run's first rendering on.
SubscribedLate == mirror # "returned" /\ looping

\* mirror.Run subscribes before its first scan, and unsubscribes as it returns.
Subscribed == mirror \notin {"open", "returned"}

\* A notify that waits for room in the channel.
notifyBlocking ==
  /\ commit = "notify" /\ Alive /\ ~(signal /\ Subscribed)
  /\ commit' = "announce" /\ signal' = Subscribed
  /\ UNCHANGED <<world, cluster, syncer, lock, feed, mirror, looping, seen, process, faults>>

\* notify: one pending wake-up is enough.
notify ==
  /\ commit = "notify" /\ Alive
  /\ commit' = "announce" /\ signal' = Subscribed
  /\ UNCHANGED <<world, cluster, syncer, lock, feed, mirror, looping, seen, process, faults>>

\* Announce queues a hint for the peers, and the caller unlocks.
Announce ==
  /\ commit = "announce" /\ Alive
  /\ Release(TRUE)
  /\ UNCHANGED <<world, cluster, run, known, feed, signal, looping, seen, process, faults>>

---------------------------------------------------------------------------
(* The mirror's loop, as a subscriber and as a writer.                     *)

Mirroring(pc) == mirror = pc /\ Alive

\* runServe opens the mirror and starts Run, which subscribes.
MirrorOpen ==
  /\ Mirroring("open")
  /\ mirror' = "scan"
  /\ UNCHANGED <<world, cluster, syncer, writer, signal, looping, seen, process, faults>>

\* Open fails and runServe returns at once: no Wait, no Leave.
MirrorOpenFails ==
  /\ Mirroring("open") /\ Fault
  /\ mirror' = "returned" /\ proc' = "exited"
  /\ UNCHANGED <<world, cluster, syncer, writer, signal, looping, seen, mounted, api>>

\* scan finds something to promote: PutFile waits for the lock and commits.
MirrorPromotes ==
  /\ Mirroring("scan") /\ lock = "none" /\ feed < MaxFeed
  /\ mirror' = "write"
  /\ lock' = "mirror" /\ commit' = "apply"
  /\ UNCHANGED <<world, cluster, syncer, feed, signal, looping, seen, process, faults>>

MirrorScanned ==
  /\ Mirroring("scan")
  /\ mirror' = "render"
  /\ UNCHANGED <<world, cluster, syncer, writer, signal, looping, seen, process, faults>>

\* render reads the tree...
MirrorReads ==
  /\ Mirroring("render") /\ ~Cancelled
  /\ seen' = feed
  /\ mirror' = "draw"
  /\ UNCHANGED <<world, cluster, syncer, writer, signal, looping, process, faults>>

\* ...and brings the directory up to it.
MirrorDraws ==
  /\ Mirroring("draw")
  /\ mirror' = "select" /\ looping' = TRUE
  /\ UNCHANGED <<world, cluster, syncer, writer, signal, seen, process, faults>>

\* A failing scan or render is logged and the loop goes on, as does a render over a
\* file it cannot write; a first scan or render that fails ends Run, and with it the
\* process. What a failing render has drawn counts for nothing.
MirrorFails ==
  /\ mirror \in {"scan", "render", "draw"} /\ Alive
  /\ (Cancelled /\ UNCHANGED faults) \/ Fault
  /\ seen' = IF mirror = "draw" THEN 0 ELSE seen
  /\ \/ /\ looping \/ mirror = "draw"
        /\ mirror' = (IF mirror = "scan" THEN "render" ELSE "select")
        /\ looping' = TRUE /\ UNCHANGED proc
     \/ /\ ~looping
        /\ mirror' = "returned" /\ proc' = (IF Cancelled THEN proc ELSE "stopping")
        /\ UNCHANGED looping
  /\ UNCHANGED <<world, cluster, syncer, writer, signal, mounted, api>>

\* The wake-up is taken before the tree is read.
MirrorWakes ==
  /\ Mirroring("select") /\ signal
  /\ signal' = FALSE /\ mirror' = "render"
  /\ UNCHANGED <<world, cluster, syncer, writer, looping, seen, process, faults>>

\* applyEvents: a batch of file events has something to promote. Nothing is rendered.
MirrorEvents ==
  /\ Mirroring("select") /\ lock = "none" /\ feed < MaxFeed
  /\ mirror' = "batch"
  /\ lock' = "mirror" /\ commit' = "apply"
  /\ UNCHANGED <<world, cluster, syncer, feed, signal, looping, seen, process, faults>>

\* The rescan ticker: scan, then render.
MirrorTick ==
  /\ Mirroring("select")
  /\ mirror' = "scan"
  /\ UNCHANGED <<world, cluster, syncer, writer, signal, looping, seen, process, faults>>

MirrorReturns ==
  /\ Mirroring("select") /\ Cancelled
  /\ mirror' = "returned"
  /\ UNCHANGED <<world, cluster, syncer, writer, signal, looping, seen, process, faults>>

---------------------------------------------------------------------------
(* The process.                                                            *)

\* mountTree, once the mirror runs.
MountTree ==
  /\ ~mounted /\ mirror # "open" /\ Alive
  /\ mounted' = TRUE
  /\ UNCHANGED <<world, cluster, syncer, writer, projection, api, proc, faults>>

\* mountTree fails and runServe returns at once, with the mirror running.
MountFails ==
  /\ ~mounted /\ mirror # "open" /\ Alive
  /\ Fault
  /\ proc' = "exited"
  /\ UNCHANGED <<world, cluster, syncer, writer, projection, mounted, api>>

\* A signal, or the peer API cannot listen: the group's context is cancelled,
\* wherever runServe is.
Stop ==
  /\ proc = "up"
  /\ proc' = "stopping"
  /\ api' \in BOOLEAN /\ (~api' => Fault) /\ (api' => UNCHANGED faults)
  /\ UNCHANGED <<world, cluster, syncer, writer, projection, mounted>>

\* Server.Serve gives its requests five seconds and returns.
ApiReturns ==
  /\ api /\ Alive /\ Cancelled
  /\ api' = FALSE
  /\ UNCHANGED <<world, cluster, syncer, writer, projection, mounted, proc, faults>>

\* group.Wait, then Leave: gossip is shut down and the channel closed. Pulls are
\* not waited for.
Leave ==
  /\ proc = "stopping" /\ mounted /\ run = "returned" /\ mirror = "returned" /\ ~api
  /\ proc' = "left" /\ closed' = TRUE
  /\ UNCHANGED <<world, events, syncer, writer, projection, mounted, api, faults>>

\* The deferred calls: unmount, close the mirror, close the store.
Exit ==
  /\ proc = "left"
  /\ proc' = "exited"
  /\ UNCHANGED <<world, cluster, syncer, writer, projection, mounted, api, faults>>

---------------------------------------------------------------------------
WorldStep ==
  \/ \E q \in Peer : PeerWrites(q) \/ PeerStops(q) \/ PeerStarts(q) \/ NotifyMember(q)
  \/ \E h \in hints : NotifyMsg(h)

RunStep == RunEvent \/ RunTick \/ RunJanitor \/ Collect \/ RunReturns

PullStep(q) ==
  \/ PullDigest(q) \/ PullPage(q) \/ PullLock(q) \/ PullMark(q) \/ PullStops(q)
  \/ PullFails(q)

CommitStep == UserWrite \/ Apply \/ ApplyFails \/ notify \/ Announce

MirrorStep ==
  \/ MirrorOpen \/ MirrorOpenFails \/ MirrorPromotes \/ MirrorScanned
  \/ MirrorReads \/ MirrorDraws \/ MirrorFails \/ MirrorWakes \/ MirrorEvents \/ MirrorTick
  \/ MirrorReturns

ProcessStep == MountTree \/ MountFails \/ Stop \/ ApiReturns \/ Leave \/ Exit

Next ==
  \/ WorldStep \/ RunStep \/ CommitStep \/ MirrorStep \/ ProcessStep
  \/ \E q \in Peer : PullStep(q)

Spec == Init /\ [][Next]_vars

\* Goroutines are scheduled and calls return (every request has a timeout); tickers tick
\* and a select takes the case of its ticker, and of the cancelled context, again and
\* again; memberlist gets to know where a peer is. Nothing is assumed of the hints, of
\* the events, of the wake-ups or of failures; Go's mutex does not starve a waiter, and a
\* scan walks a finite tree.
Fairness ==
  /\ \A q \in Peer :
       /\ WF_vars(PeerStarts(q)) /\ WF_vars(NotifyMember(q))
       /\ WF_vars(PullDigest(q)) /\ WF_vars(PullPage(q)) /\ WF_vars(PullLock(q))
       /\ WF_vars(PullMark(q)) /\ WF_vars(PullStops(q))
  /\ WF_vars(Apply \/ ApplyFails) /\ WF_vars(notify) /\ WF_vars(Announce)
  /\ SF_vars((RunTick /\ ~Cancelled) \/ RunReturns) /\ SF_vars(Collect)
  /\ WF_vars(MirrorOpen) /\ SF_vars(MirrorScanned) /\ WF_vars(MirrorReads)
  /\ WF_vars(MirrorDraws) /\ WF_vars(MirrorFails /\ Cancelled)
  /\ SF_vars((MirrorTick /\ ~Cancelled) \/ MirrorReturns)
  /\ WF_vars(MountTree) /\ WF_vars(ApiReturns) /\ WF_vars(Leave) /\ WF_vars(Exit)

FairSpec == Spec /\ Fairness

---------------------------------------------------------------------------
(* Properties. *)

\* "A subscriber that has one pending wake-up does not need a second": once the
\* mirror sits in its select with an empty channel and no commit is about to notify,
\* it has rendered every commit, unless a rendering has failed or the process is
\* stopping (syncer.go:126).
NoLostWakeup ==
  mirror = "select" /\ ~signal /\ commit # "notify" /\ faults = 0 /\ ~Cancelled =>
    seen = feed

\* "Nothing may depend on receiving" a hint: this node catches up with each peer's feed
\* again and again, whichever hints and events are lost and whichever addresses the
\* peer has moved over (antientropy.go:17).
ChangesNoticed == \A q \in Peer : []<>(known[q] >= peer[q].head \/ Cancelled)

\* What is stored reaches the disk even after a rendering that failed, because the
\* rescan renders too (mirror.go:244).
RendersLatest ==
  []<>((mirror = "select" /\ seen = feed) \/ ~setup.projected \/ Cancelled)

\* A process told to stop does, if only by the panic of a late callback: no goroutine
\* that group.Wait counts is left waiting for the lock or the channel of another
\* (serve.go:171).
Stops == proc = "stopping" ~> ~Alive

\* The process does not end in a panic: nothing is sent on the channel that Leave
\* has closed (cluster.go:249).
NoPanic == proc # "panicked"

\* What the order of the end (wait for the loops, shut gossip down, close the channel)
\* is worth: only a callback that memberlist makes after its Shutdown can panic, and
\* by then Run, the mirror and the API have returned and no promotion is half done.
\* What it interrupts is a pull or a write through the mount, which nobody waits for.
PanicsAtTheEnd ==
  closed \/ proc = "panicked" =>
    /\ proc = "panicked" => LateCallbacks
    /\ run = "returned" /\ mirror = "returned" /\ ~api
    /\ lock # "mirror"

\* The bookmark of a peer is a position of that peer's feed.
BookmarkOfPeer == \A q \in Peer : known[q] <= peer[q].head
===========================================================================
