---------------------------- MODULE DaemonProofs ----------------------------
(***************************************************************************)
(* What holds of one dcfs process for any number of peers and addresses,   *)
(* any channel capacity and any number of writes and failures.             *)
(***************************************************************************)
EXTENDS Daemon, TLAPS

\* Where a pull stands, and the goroutine of one.
Phase == {"none", "digest", "page", "wait", "commit", "mark"}
Task == [pc : Phase, addr : Addr \cup {NoAddr}, cursor : Nat, more : BOOLEAN]

---------------------------------------------------------------------------
(* Types. *)

\* A goroutine that is not there is a task.
LEMMA NoPullType == NoPull \in Task /\ NoPull.pc = "none" /\ NoPull.cursor = 0
  BY DEF NoPull, Task, Phase

\* Moving one pull on.
LEMMA TaskType ==
  ASSUME NEW t \in Task, NEW c \in Phase, NEW k \in Nat, NEW m \in BOOLEAN
  PROVE  /\ [t EXCEPT !.pc = c] \in Task
         /\ [t EXCEPT !.pc = c, !.cursor = k] \in Task
         /\ [t EXCEPT !.pc = c, !.cursor = k, !.more = m] \in Task
  BY DEF Task, Phase

\* triggerSync starts a pull or does nothing.
LEMMA TriggerType ==
  ASSUME NEW P \in [Peer -> Task], NEW q \in Peer, NEW a \in Addr \cup {NoAddr}
  PROVE  /\ triggerSync(P, q, a) \in [Peer -> Task]
         /\ \A r \in Peer : r # q => triggerSync(P, q, a)[r] = P[r]
         /\ \/ triggerSync(P, q, a)[q] = P[q]
            \/ /\ triggerSync(P, q, a)[q].pc = "digest" /\ a \in Addr
               /\ triggerSync(P, q, a)[q].addr = a
               /\ triggerSync(P, q, a)[q].cursor = 0
<1> DEFINE t == [NoPull EXCEPT !.pc = "digest", !.addr = a]
<1>1. t \in Task /\ t.pc = "digest" /\ t.addr = a /\ t.cursor = 0
  BY DEF NoPull, Task, Phase
<1> HIDE DEF t
<1>2. triggerSync(P, q, a) = P \/ (a # NoAddr /\ triggerSync(P, q, a) = [P EXCEPT ![q] = t])
  BY DEF triggerSync, t
<1> QED
  BY <1>1, <1>2

\* emit never grows the channel past its capacity.
LEMMA EmitType ==
  ASSUME NEW e \in Event, events \in Seq(Event), Len(events) <= EventBuffer, emit(e)
  PROVE  events' \in Seq(Event) /\ Len(events') <= EventBuffer
<1>1. CASE events' = events
  BY <1>1
<1>2. CASE events' = Append(events, e) /\ Len(events) < EventBuffer
  <2>1. events' \in Seq(Event) /\ Len(events') = Len(events) + 1 /\ Len(events) \in Nat
    BY <1>2
  <2> QED
    BY <1>2, <2>1, DaemonAssumption
<1> QED
  BY <1>1, <1>2 DEF emit

\* The peers and memberlist.
LEMMA WorldType == TypeOK /\ WorldStep => TypeOK'
<1> SUFFICES ASSUME TypeOK, WorldStep PROVE TypeOK'
  OBVIOUS
<1> USE DEF cluster, syncer, writer, projection, process, world
<1>1. ASSUME NEW q \in Peer, PeerWrites(q) PROVE TypeOK'
  <2>1. peer' \in [Peer -> [head : Nat, addr : Addr \cup {NoAddr}]]
    BY <1>1 DEF PeerWrites, TypeOK
  <2>2. hints' \subseteq Event
    BY <1>1 DEF PeerWrites, TypeOK, Event
  <2> QED
    BY <1>1, <2>1, <2>2 DEF PeerWrites, TypeOK
<1>2. ASSUME NEW q \in Peer, PeerStops(q) PROVE TypeOK'
  <2>1. peer' \in [Peer -> [head : Nat, addr : Addr \cup {NoAddr}]]
    BY <1>2 DEF PeerStops, TypeOK
  <2>2. faults' \in 0 .. MaxFaults
    BY <1>2, DaemonAssumption DEF PeerStops, Fault, TypeOK
  <2> QED
    BY <1>2, <2>1, <2>2 DEF PeerStops, TypeOK
<1>3. ASSUME NEW q \in Peer, PeerStarts(q) PROVE TypeOK'
  <2>1. setup.home[q] \subseteq Addr
    BY DaemonAssumption DEF TypeOK
  <2>2. peer' \in [Peer -> [head : Nat, addr : Addr \cup {NoAddr}]]
    <3>1. PICK a \in setup.home[q] : peer' = [peer EXCEPT ![q].addr = a]
      BY <1>3 DEF PeerStarts
    <3>2. a \in Addr \cup {NoAddr} /\ peer \in [Peer -> [head : Nat, addr : Addr \cup {NoAddr}]]
      BY <2>1 DEF TypeOK
    <3> QED
      BY <3>1, <3>2
  <2> QED
    BY <1>3, <2>2 DEF PeerStarts, TypeOK
<1>4. ASSUME NEW e \in Event, emit(e)
      PROVE  /\ events' \in Seq(Event) /\ Len(events') <= EventBuffer
             /\ proc' \in {"up", "stopping", "left", "exited", "panicked"}
  <2>1. proc' = "panicked" \/ proc' = proc
    BY <1>4 DEF emit
  <2> QED
    BY <1>4, <2>1, EmitType DEF TypeOK
<1>5. ASSUME NEW q \in Peer, NotifyMember(q) PROVE TypeOK'
  <2>1. peer[q].addr \in Addr \cup {NoAddr} /\ member[q] \in Addr \cup {NoAddr}
    BY DEF TypeOK
  <2>2. /\ [kind |-> "leave", node |-> q, addr |-> member[q]] \in Event
        /\ [kind |-> "join", node |-> q, addr |-> peer[q].addr] \in Event
    BY <2>1 DEF Event
  <2>3. \E e \in Event : emit(e)
    BY <1>5, <2>2 DEF NotifyMember
  <2>4. member' \in [Peer -> Addr \cup {NoAddr}]
    BY <1>5, <2>1 DEF NotifyMember, TypeOK
  <2> QED
    BY <1>4, <1>5, <2>3, <2>4 DEF NotifyMember, TypeOK
<1>6. ASSUME NEW h \in hints, NotifyMsg(h) PROVE TypeOK'
  <2>1. h \in Event /\ emit(h)
    BY <1>6 DEF TypeOK, NotifyMsg
  <2> QED
    BY <1>4, <1>6, <2>1 DEF NotifyMsg, TypeOK
<1> QED
  BY <1>1, <1>2, <1>3, <1>5, <1>6 DEF WorldStep

\* Service.Run.
LEMMA RunType == TypeOK /\ RunStep => TypeOK'
<1> SUFFICES ASSUME TypeOK, RunStep PROVE TypeOK'
  OBVIOUS
<1> USE DEF cluster, syncer, writer, projection, process, world
<1>1. pull \in [Peer -> Task] /\ member \in [Peer -> Addr \cup {NoAddr}]
  BY DEF TypeOK, Task, Phase
<1>2. CASE RunEvent
  <2>1. Head(events) \in Event /\ Tail(events) \in Seq(Event) /\ Len(events) \in Nat
        /\ Len(Tail(events)) = Len(events) - 1
    BY <1>2 DEF RunEvent, TypeOK
  <2>2. pull' \in [Peer -> Task]
    BY <1>1, <1>2, <2>1, TriggerType DEF RunEvent, Event
  <2>3. events' \in Seq(Event) /\ Len(events') <= EventBuffer
    BY <1>2, <2>1, DaemonAssumption DEF RunEvent, TypeOK
  <2> QED
    BY <1>2, <2>2, <2>3 DEF RunEvent, TypeOK, Task, Phase
<1>3. CASE RunTick
  <2>1. \A q \in Peer : triggerSync(pull, q, member[q])[q] \in Task
    BY <1>1, TriggerType
  <2>2. pull' \in [Peer -> Task]
    BY <1>3, <2>1 DEF RunTick, syncAll
  <2> QED
    BY <1>3, <2>2 DEF RunTick, TypeOK, Task, Phase
<1>4. CASE RunJanitor \/ Collect \/ RunReturns
  BY <1>4 DEF RunJanitor, Collect, RunReturns, TypeOK
<1> QED
  BY <1>2, <1>3, <1>4 DEF RunStep

\* Pulls.
LEMMA PullType == ASSUME TypeOK, NEW q \in Peer, PullStep(q) PROVE TypeOK'
<1> USE DEF cluster, syncer, writer, projection, process, world
<1>1. /\ pull \in [Peer -> Task] /\ pull[q] \in Task /\ known[q] \in Nat
      /\ \A r \in Peer : peer[r].head \in Nat
      /\ known \in [Peer -> Nat] /\ pull[q].cursor \in Nat
  BY DEF TypeOK, Task, Phase
<1>2. /\ \A c \in Phase : [pull EXCEPT ![q].pc = c] \in [Peer -> Task]
      /\ [pull EXCEPT ![q] = NoPull] \in [Peer -> Task]
  BY <1>1, NoPullType, TaskType
<1>3. ASSUME pull' \in [Peer -> Task], UNCHANGED <<world, cluster, run, projection, process>>,
             known' \in [Peer -> Nat], faults' \in 0 .. MaxFaults,
             lock' \in Peer \cup {"none", "user", "mirror"},
             commit' \in {"idle", "apply", "notify", "announce"}, feed' = feed
      PROVE  TypeOK'
  <2>1. /\ UNCHANGED <<setup, peer, member, hints, events, closed, run>>
        /\ UNCHANGED <<signal, mirror, looping, seen, mounted, api, proc>>
    BY <1>3
  <2>2. /\ closed' \in BOOLEAN /\ signal' \in BOOLEAN /\ looping' \in BOOLEAN
        /\ mounted' \in BOOLEAN /\ api' \in BOOLEAN
    BY <2>1, Zenon DEF TypeOK
  <2> QED
    BY <1>3, <2>1, <2>2 DEF TypeOK, Task, Phase
<1>4. CASE PullDigest(q)
  <2>1. PICK r \in Peer :
          \/ pull' = [pull EXCEPT ![q].pc = "mark", ![q].cursor = peer[r].head]
          \/ pull' = [pull EXCEPT ![q].pc = "page",
                        ![q].cursor = IF peer[r].head < known[q] THEN 0 ELSE known[q]]
    BY <1>4 DEF PullDigest, Listening
  <2>2. pull' \in [Peer -> Task]
    BY <1>1, <2>1 DEF Task, Phase
  <2> QED
    BY <1>3, <1>4, <2>2 DEF PullDigest, TypeOK
<1>5. CASE PullPage(q)
  <2>1. PICK r \in Peer :
          \/ pull' = [pull EXCEPT ![q] = NoPull]
          \/ \E k \in pull[q].cursor + 1 .. peer[r].head :
               pull' = [pull EXCEPT ![q].pc = "wait", ![q].cursor = k,
                                    ![q].more = (k < peer[r].head)]
    BY <1>5 DEF PullPage, Listening
  <2>2. ASSUME NEW k \in pull[q].cursor + 1 .. peer[r].head
        PROVE  [pull EXCEPT ![q].pc = "wait", ![q].cursor = k,
                            ![q].more = (k < peer[r].head)] \in [Peer -> Task]
    <3> DEFINE more == k < peer[r].head
    <3>1. k \in Nat /\ more \in BOOLEAN /\ "wait" \in Phase
      BY <1>1 DEF Phase
    <3> HIDE DEF more
    <3>2. [pull EXCEPT ![q].pc = "wait", ![q].cursor = k, ![q].more = more] \in [Peer -> Task]
      BY <1>1, <3>1, TaskType
    <3> QED
      BY <3>2 DEF more
  <2>3. pull' \in [Peer -> Task]
    <3>1. CASE pull' = [pull EXCEPT ![q] = NoPull]
      BY <1>2, <3>1
    <3>2. ASSUME NEW k \in pull[q].cursor + 1 .. peer[r].head,
                 pull' = [pull EXCEPT ![q].pc = "wait", ![q].cursor = k,
                                      ![q].more = (k < peer[r].head)]
          PROVE  pull' \in [Peer -> Task]
      BY <2>2, <3>2, Zenon
    <3> QED
      BY <2>1, <3>1, <3>2
  <2> QED
    BY <1>3, <1>5, <2>3 DEF PullPage, TypeOK
<1>6. CASE PullLock(q)
  <2>1. pull' \in [Peer -> Task]
    BY <1>2, <1>6 DEF PullLock, Phase
  <2> QED
    BY <1>3, <1>6, <2>1 DEF PullLock, TypeOK
<1>7. CASE PullMark(q)
  <2>1. pull' \in [Peer -> Task]
    BY <1>2, <1>7 DEF PullMark, Phase
  <2>2. known' \in [Peer -> Nat]
    BY <1>1, <1>7 DEF PullMark
  <2> QED
    BY <1>3, <1>7, <2>1, <2>2 DEF PullMark, TypeOK
<1>8. CASE PullStops(q)
  BY <1>2, <1>3, <1>8 DEF PullStops, TypeOK
<1>9. CASE PullFails(q)
  <2>1. faults' \in 0 .. MaxFaults
    BY <1>9, DaemonAssumption DEF PullFails, Fault, TypeOK
  <2> QED
    BY <1>2, <1>3, <1>9, <2>1 DEF PullFails, TypeOK
<1> QED
  BY <1>4, <1>5, <1>6, <1>7, <1>8, <1>9 DEF PullStep

\* commit and the unlock after it.
LEMMA CommitType == TypeOK /\ CommitStep => TypeOK'
<1> SUFFICES ASSUME TypeOK, CommitStep PROVE TypeOK'
  OBVIOUS
<1> USE DEF cluster, syncer, writer, projection, process, world
<1>1. pull \in [Peer -> Task]
  BY DEF TypeOK, Task, Phase
<1>2. ASSUME NEW ok, Release(ok)
      PROVE  /\ pull' \in [Peer -> Task] /\ lock' = "none" /\ commit' = "idle"
             /\ mirror' \in {mirror, "select", "scan"}
  <2>1. \A q \in Peer : NoPull \in Task /\ [pull[q] EXCEPT !.pc = "mark"] \in Task
    BY <1>1, NoPullType DEF Task, Phase
  <2> QED
    BY <1>1, <1>2, <2>1 DEF Release
<1>3. ASSUME NEW ok, Release(ok), faults' \in 0 .. MaxFaults,
             UNCHANGED <<world, cluster, run, known, feed, signal, looping, seen, process>>
      PROVE  TypeOK'
  <2>1. /\ pull' \in [Peer -> [pc : Phase, addr : Addr \cup {NoAddr},
                              cursor : Nat, more : BOOLEAN]]
        /\ lock' = "none" /\ commit' = "idle" /\ mirror' \in {mirror, "select", "scan"}
    BY <1>2, <1>3 DEF Task
  <2> QED
    BY <1>3, <2>1 DEF TypeOK, Phase
<1>4. CASE UserWrite
  BY <1>4 DEF UserWrite, TypeOK
<1>5. CASE Apply
  BY <1>5 DEF Apply, TypeOK
<1>6. CASE ApplyFails
  <2>1. faults' \in 0 .. MaxFaults
    BY <1>6, DaemonAssumption DEF ApplyFails, Fault, TypeOK
  <2> QED
    BY <1>3, <1>6, <2>1 DEF ApplyFails, TypeOK
<1>7. CASE notify
  BY <1>7 DEF notify, Subscribed, TypeOK
<1>8. CASE Announce
  BY <1>3, <1>8 DEF Announce, TypeOK
<1> QED
  BY <1>5, <1>6, <1>7, <1>8, <1>4 DEF CommitStep

\* The mirror's loop.
LEMMA MirrorType == TypeOK /\ MirrorStep => TypeOK'
<1> SUFFICES ASSUME TypeOK, MirrorStep PROVE TypeOK'
  OBVIOUS
<1> USE DEF cluster, syncer, writer, projection, process, world
<1>1. Fault => faults' \in 0 .. MaxFaults
  BY DaemonAssumption DEF Fault, TypeOK
<1>2. CASE MirrorOpen \/ MirrorScanned \/ MirrorTick \/ MirrorReturns
  BY <1>2 DEF MirrorOpen, MirrorScanned, MirrorTick, MirrorReturns, TypeOK
<1>3. CASE MirrorReads
  BY <1>3 DEF MirrorReads, TypeOK
<1>4. CASE MirrorDraws
  BY <1>4 DEF MirrorDraws, TypeOK
<1>5. CASE MirrorWakes
  <2>1. /\ signal' = FALSE /\ mirror' = "render"
        /\ UNCHANGED <<setup, peer, member, hints, events, closed, run, pull, known>>
        /\ UNCHANGED <<lock, commit, feed, looping, seen, mounted, api, proc, faults>>
    BY <1>5 DEF MirrorWakes
  <2>2. /\ closed' \in BOOLEAN /\ signal' \in BOOLEAN /\ looping' \in BOOLEAN
        /\ mounted' \in BOOLEAN /\ api' \in BOOLEAN
    BY <2>1, Zenon DEF TypeOK
  <2> QED
    BY <2>1, <2>2 DEF TypeOK
<1>6. CASE MirrorOpenFails
  BY <1>1, <1>6 DEF MirrorOpenFails, TypeOK
<1>7. CASE MirrorPromotes \/ MirrorEvents
  BY <1>7 DEF MirrorPromotes, MirrorEvents, TypeOK
<1>8. CASE MirrorFails
  <2>1. /\ faults' \in 0 .. MaxFaults /\ seen' \in Nat /\ looping' \in BOOLEAN
        /\ mirror' \in {"render", "select", "returned"}
        /\ proc' \in {"up", "stopping", "left", "exited", "panicked"}
    BY <1>1, <1>8 DEF MirrorFails, TypeOK
  <2> QED
    BY <1>8, <2>1 DEF MirrorFails, TypeOK
<1> QED
  BY <1>2, <1>6, <1>7, <1>8, <1>3, <1>4, <1>5 DEF MirrorStep

\* The start and the end of the process.
LEMMA ProcessType == TypeOK /\ ProcessStep => TypeOK'
<1> SUFFICES ASSUME TypeOK, ProcessStep PROVE TypeOK'
  OBVIOUS
<1> USE DEF cluster, syncer, writer, projection, process, world
<1>1. Fault => faults' \in 0 .. MaxFaults
  BY DaemonAssumption DEF Fault, TypeOK
<1>2. CASE Stop
  <2>1. api' \in BOOLEAN /\ faults' \in 0 .. MaxFaults
    BY <1>1, <1>2 DEF Stop, TypeOK
  <2> QED
    BY <1>2, <2>1 DEF Stop, TypeOK
<1>3. CASE ApiReturns
  <2>1. /\ api' \in BOOLEAN
        /\ UNCHANGED <<world, cluster, syncer, writer, projection, mounted, proc, faults>>
    BY <1>3 DEF ApiReturns
  <2> QED
    BY <2>1 DEF TypeOK
<1>4. CASE Leave
  BY <1>4 DEF Leave, TypeOK
<1>5. CASE Exit
  BY <1>5 DEF Exit, TypeOK
<1>6. CASE MountTree
  BY <1>6 DEF MountTree, TypeOK
<1>7. CASE MountFails
  BY <1>1, <1>7 DEF MountFails, TypeOK
<1> QED
  BY <1>2, <1>3, <1>4, <1>5, <1>6, <1>7 DEF ProcessStep

\* Every variable of the process keeps its type, and the event channel its
\* capacity, whatever the goroutines do to it: emit drops, it does not queue.
THEOREM DaemonTypeOK == Spec => []TypeOK
<1>1. Init => TypeOK
  <2> SUFFICES ASSUME Init PROVE TypeOK
    OBVIOUS
  <2>1. << >> \in Seq(Event) /\ Len(<< >>) <= EventBuffer
    BY DaemonAssumption
  <2>2. pull \in [Peer -> Task]
    BY NoPullType DEF Init
  <2>3. /\ peer \in [Peer -> [head : Nat, addr : Addr \cup {NoAddr}]]
        /\ member \in [Peer -> Addr \cup {NoAddr}] /\ known \in [Peer -> Nat]
        /\ mirror \in {"open", "returned"} /\ faults \in 0 .. MaxFaults
        /\ mounted \in BOOLEAN
    BY DaemonAssumption DEF Init
  <2> QED
    BY <2>1, <2>2, <2>3 DEF Init, TypeOK, Task, Phase
<1>2. TypeOK /\ [Next]_vars => TypeOK'
  <2>1. TypeOK /\ UNCHANGED vars => TypeOK'
    BY DEF TypeOK, vars, cluster, syncer, writer, projection, process, world
  <2> QED
    BY <2>1, WorldType, RunType, PullType, CommitType, MirrorType, ProcessType DEF Next
<1> QED
  BY <1>1, <1>2, PTL DEF Spec
---------------------------------------------------------------------------
(* The lock and the wake-up. *)

\* Service.write covers every commit, and whoever is at a commit holds it: a pull,
\* the mirror or a user.
OneWriter ==
  /\ lock = "none" <=> commit = "idle"
  /\ \A q \in Peer : pull[q].pc = "commit" <=> lock = q
  /\ lock = "mirror" <=> mirror \in {"write", "batch"}

\* NoLostWakeup is about the mirror at its select; a commit may come in while the
\* tree it has read is still being drawn, or while it promotes a batch itself.
\* From the moment the tree is read, what was read is current, or a wake-up is in
\* the channel, or a commit has yet to notify.
WakeInv ==
  faults = 0 /\ ~Cancelled /\ mirror \in {"draw", "select", "batch"} =>
    seen = feed \/ signal \/ commit = "notify"

\* The holder unlocks.
LEMMA ReleaseOwner ==
  ASSUME TypeOK, OneWriter, NEW ok, Release(ok)
  PROVE  OneWriter'
<1>1. /\ pull \in [Peer -> Task] /\ lock' = "none" /\ commit' = "idle"
      /\ \A q \in Peer : q \notin {"none", "user", "mirror"}
  BY DaemonAssumption DEF TypeOK, Release, Task, Phase
<1>2. ASSUME NEW q \in Peer PROVE pull'[q].pc # "commit"
  <2>1. pull'[q] = IF lock # q THEN pull[q]
                   ELSE IF ok THEN [pull[q] EXCEPT !.pc = "mark"] ELSE NoPull
    BY DEF Release
  <2>2. [pull[q] EXCEPT !.pc = "mark"].pc = "mark"
    BY <1>1 DEF Task
  <2> QED
    BY <2>1, <2>2, NoPullType DEF OneWriter
<1>3. mirror' \notin {"write", "batch"}
  BY DEF Release, OneWriter
<1> QED
  BY <1>1, <1>2, <1>3 DEF OneWriter

\* Starting pulls does not touch one that is at its commit.
LEMMA TriggerKeeps ==
  ASSUME TypeOK, RunStep
  PROVE  \A q \in Peer : pull'[q].pc = "commit" <=> pull[q].pc = "commit"
<1>1. pull \in [Peer -> Task] /\ member \in [Peer -> Addr \cup {NoAddr}]
  BY DEF TypeOK, Task, Phase
<1>2. ASSUME NEW q \in Peer, NEW a
      PROVE  \A r \in Peer :
               triggerSync(pull, q, a)[r].pc = "commit" <=> pull[r].pc = "commit"
  <2> DEFINE t == [NoPull EXCEPT !.pc = "digest", !.addr = a]
  <2>1. t.pc = "digest"
    BY DEF NoPull
  <2> HIDE DEF t
  <2>2. \/ triggerSync(pull, q, a) = pull
        \/ pull[q].pc = "none" /\ triggerSync(pull, q, a) = [pull EXCEPT ![q] = t]
    BY DEF triggerSync, t
  <2> QED
    BY <1>1, <2>1, <2>2
<1>3. CASE RunEvent
  <2>1. Head(events) \in Event
    BY <1>3 DEF RunEvent, TypeOK
  <2>2. Head(events).node \in Peer
    BY <2>1 DEF Event
  <2> QED
    BY <1>2, <1>3, <2>2 DEF RunEvent
<1>4. CASE RunTick
  <2>1. \A q \in Peer : pull'[q] = triggerSync(pull, q, member[q])[q]
    BY <1>4 DEF RunTick, syncAll
  <2> QED
    BY <1>2, <2>1
<1>5. CASE RunJanitor \/ Collect \/ RunReturns
  BY <1>5 DEF RunJanitor, Collect, RunReturns
<1> QED
  BY <1>3, <1>4, <1>5 DEF RunStep

\* The steps of a pull: it takes the lock, or it is not at its commit.
LEMMA PullOwner ==
  ASSUME TypeOK, OneWriter, NEW q \in Peer, PullStep(q)
  PROVE  OneWriter'
<1> USE DEF writer, projection, process
<1>1. pull \in [Peer -> Task] /\ pull[q] \in Task
      /\ q \notin {"none", "user", "mirror"}
  BY DaemonAssumption DEF TypeOK, Task, Phase
<1>2. CASE PullLock(q) /\ lock' = q
  <2>1. /\ lock = "none" /\ commit' = "apply" /\ mirror' = mirror
        /\ pull' = [pull EXCEPT ![q].pc = "commit"]
    BY <1>1, <1>2 DEF PullLock
  <2>2. pull'[q].pc = "commit" /\ \A r \in Peer : r # q => pull'[r] = pull[r]
    BY <1>1, <2>1 DEF Task
  <2> QED
    BY <1>1, <1>2, <2>1, <2>2, DaemonAssumption DEF OneWriter
<1>3. CASE ~(PullLock(q) /\ lock' = q)
  <2>1. lock' = lock /\ commit' = commit /\ mirror' = mirror
    BY <1>3 DEF PullStep, PullDigest, PullPage, PullLock, PullMark, PullStops, PullFails
  <2>2. pull[q].pc # "commit"
    BY DEF PullStep, PullDigest, PullPage, PullLock, PullMark, PullStops, PullFails
  <2>3. /\ \A r \in Peer : r # q => pull'[r] = pull[r]
        /\ pull'[q].pc # "commit"
    <3>1. CASE PullDigest(q)
      BY <1>1, <3>1 DEF PullDigest, Task
    <3>2. CASE PullPage(q)
      <4>1. \/ pull' = [pull EXCEPT ![q] = NoPull]
            \/ \E k, m : pull' = [pull EXCEPT ![q].pc = "wait", ![q].cursor = k,
                                              ![q].more = m]
        BY <3>2 DEF PullPage
      <4>2. CASE pull' = [pull EXCEPT ![q] = NoPull]
        BY <1>1, <4>2, NoPullType
      <4>3. ASSUME NEW k, NEW m,
                   pull' = [pull EXCEPT ![q].pc = "wait", ![q].cursor = k, ![q].more = m]
            PROVE  /\ \A r \in Peer : r # q => pull'[r] = pull[r]
                   /\ pull'[q].pc # "commit"
        BY <1>1, <4>3 DEF Task
      <4> QED
        BY <4>1, <4>2, <4>3
    <3>3. CASE PullLock(q)
      BY <1>1, <1>3, <3>3 DEF PullLock, Task
    <3>4. CASE PullMark(q)
      BY <1>1, <3>4, NoPullType DEF PullMark, Task
    <3>5. CASE PullStops(q) \/ PullFails(q)
      BY <1>1, <3>5, NoPullType DEF PullStops, PullFails
    <3> QED
      BY <3>1, <3>2, <3>3, <3>4, <3>5 DEF PullStep
  <2> QED
    BY <2>1, <2>2, <2>3 DEF OneWriter
<1> QED
  BY <1>2, <1>3

\* The mirror takes the lock for what it promotes, and only Release gives it back.
LEMMA MirrorOwner ==
  ASSUME TypeOK, OneWriter, MirrorStep
  PROVE  OneWriter'
<1> USE DEF writer, syncer
<1>1. \A q \in Peer : q \notin {"none", "user", "mirror"}
  BY DaemonAssumption
<1>2. CASE MirrorPromotes \/ MirrorEvents
  <2>1. /\ lock = "none" /\ lock' = "mirror" /\ commit' = "apply" /\ pull' = pull
        /\ mirror' \in {"write", "batch"}
    BY <1>2 DEF MirrorPromotes, MirrorEvents
  <2> QED
    BY <1>1, <2>1 DEF OneWriter
<1>3. CASE ~(MirrorPromotes \/ MirrorEvents)
  <2>1. /\ lock' = lock /\ commit' = commit /\ pull' = pull
        /\ mirror' \notin {"write", "batch"} /\ mirror \notin {"write", "batch"}
    BY <1>3 DEF MirrorStep, MirrorOpen, MirrorOpenFails, MirrorScanned, MirrorReads,
       MirrorDraws, MirrorFails, MirrorWakes, MirrorTick, MirrorReturns, Mirroring
  <2> QED
    BY <2>1 DEF OneWriter
<1> QED
  BY <1>2, <1>3

\* Every step leaves Service.write with one holder at most.
LEMMA OwnerStep == TypeOK /\ OneWriter /\ [Next]_vars => OneWriter'
<1> SUFFICES ASSUME TypeOK, OneWriter, [Next]_vars PROVE OneWriter'
  OBVIOUS
<1>1. CASE UNCHANGED <<lock, commit, pull, mirror>>
  BY <1>1 DEF OneWriter
<1>2. CASE WorldStep
  BY <1>1, <1>2 DEF WorldStep, PeerWrites, PeerStops, PeerStarts, NotifyMember,
     NotifyMsg, writer, projection, syncer
<1>3. CASE RunStep
  <2>1. lock' = lock /\ commit' = commit /\ mirror' = mirror
    BY <1>3 DEF RunStep, RunEvent, RunTick, RunJanitor, Collect, RunReturns,
       writer, projection
  <2> QED
    BY <1>3, <2>1, TriggerKeeps DEF OneWriter
<1>4. CASE CommitStep
  <2>1. CASE UserWrite
    BY <2>1, DaemonAssumption DEF UserWrite, OneWriter, projection, syncer
  <2>2. CASE Apply \/ notify
    <3>1. /\ lock' = lock /\ pull' = pull /\ mirror' = mirror
          /\ commit # "idle" /\ commit' # "idle"
      BY <2>2 DEF Apply, notify, projection, syncer
    <3> QED
      BY <3>1 DEF OneWriter
  <2>3. CASE ApplyFails \/ Announce
    BY <2>3, ReleaseOwner DEF ApplyFails, Announce
  <2> QED
    BY <1>4, <2>1, <2>2, <2>3 DEF CommitStep
<1>5. CASE ProcessStep
  BY <1>1, <1>5 DEF ProcessStep, MountTree, MountFails, Stop, ApiReturns, Leave, Exit,
     writer, projection, syncer
<1>6. CASE UNCHANGED vars
  BY <1>1, <1>6 DEF vars, writer, projection, syncer
<1> QED
  BY <1>2, <1>3, <1>4, <1>5, <1>6, PullOwner, MirrorOwner DEF Next

\* Every step leaves the mirror with what is current, or with a wake-up to come.
LEMMA WakeStep == TypeOK /\ OneWriter /\ WakeInv /\ [Next]_vars => WakeInv'
<1> SUFFICES ASSUME TypeOK, OneWriter, WakeInv, [Next]_vars PROVE WakeInv'
  OBVIOUS
<1> USE DEF Cancelled
<1>1. faults \in Nat /\ (Fault => faults' # 0)
  BY DaemonAssumption DEF TypeOK, Fault
<1>2. CASE /\ UNCHANGED <<projection, commit, feed>>
           /\ (proc' = proc \/ proc' # "up") /\ (faults' = faults \/ faults' # 0)
  BY <1>2 DEF WakeInv, projection
<1>3. CASE WorldStep
  <2>1. UNCHANGED <<projection, writer>> /\ (faults' = faults \/ Fault)
        /\ (proc' = proc \/ proc' = "panicked")
    BY <1>3 DEF WorldStep, PeerWrites, PeerStops, PeerStarts, NotifyMember,
       NotifyMsg, emit, process
  <2> QED
    BY <1>1, <1>2, <2>1 DEF writer
<1>4. CASE RunStep
  <2>1. UNCHANGED <<projection, writer, process, faults>>
    BY <1>4 DEF RunStep, RunEvent, RunTick, RunJanitor, Collect, RunReturns
  <2> QED
    BY <1>2, <2>1 DEF writer, process
<1>5. ASSUME NEW q \in Peer, PullStep(q) PROVE WakeInv'
  <2>1. CASE PullLock(q)
    <3>1. /\ UNCHANGED <<projection, feed, proc, faults>>
          /\ (lock = "none" /\ commit' = "apply") \/ commit' = commit
      BY <2>1 DEF PullLock, process
    <3>2. commit = "notify" => lock # "none"
      BY DEF OneWriter
    <3> QED
      BY <3>1, <3>2 DEF WakeInv, projection
  <2>2. CASE ~PullLock(q)
    <3>1. UNCHANGED <<projection, writer, process>> /\ (faults' = faults \/ Fault)
      BY <1>5, <2>2 DEF PullStep, PullDigest, PullPage, PullMark, PullStops, PullFails
    <3> QED
      BY <1>1, <1>2, <3>1 DEF writer, process
  <2> QED
    BY <2>1, <2>2
<1>6. CASE CommitStep
  <2>1. CASE UserWrite
    <3>1. UNCHANGED <<projection, feed, proc, faults>> /\ lock = "none"
      BY <2>1 DEF UserWrite, process
    <3>2. commit # "notify"
      BY <3>1 DEF OneWriter
    <3> QED
      BY <3>1, <3>2 DEF WakeInv, projection
  <2>2. CASE Apply
    BY <2>2 DEF Apply, WakeInv
  <2>3. CASE ApplyFails
    <3>1. faults' # 0 \/ proc' # "up"
      BY <1>1, <2>3 DEF ApplyFails, process
    <3> QED
      BY <3>1 DEF WakeInv
  <2>4. CASE notify
    BY <2>4 DEF notify, Subscribed, WakeInv
  <2>5. CASE Announce
    <3>1. /\ UNCHANGED <<feed, signal, seen, proc, faults>> /\ commit = "announce"
          /\ mirror' \in {"draw", "select", "batch"} =>
               mirror \in {"draw", "select", "batch"}
      BY <2>5 DEF Announce, Release, process
    <3> QED
      BY <3>1 DEF WakeInv
  <2> QED
    BY <1>6, <2>1, <2>2, <2>3, <2>4, <2>5 DEF CommitStep
<1>7. CASE MirrorStep
  <2>1. CASE \/ MirrorOpen \/ MirrorOpenFails \/ MirrorPromotes \/ MirrorScanned
             \/ MirrorWakes \/ MirrorTick \/ MirrorReturns
    <3>1. mirror' \notin {"draw", "select", "batch"}
      BY <2>1 DEF MirrorOpen, MirrorOpenFails, MirrorPromotes, MirrorScanned,
         MirrorWakes, MirrorTick, MirrorReturns
    <3> QED
      BY <3>1 DEF WakeInv
  <2>2. CASE MirrorReads
    BY <2>2 DEF MirrorReads, WakeInv, writer
  <2>3. CASE MirrorDraws
    BY <2>3 DEF MirrorDraws, Mirroring, WakeInv, writer, process
  <2>4. CASE MirrorEvents
    <3>1. /\ UNCHANGED <<feed, signal, seen, proc, faults>> /\ lock = "none"
          /\ mirror = "select"
      BY <2>4 DEF MirrorEvents, Mirroring, process
    <3>2. commit # "notify"
      BY <3>1 DEF OneWriter
    <3> QED
      BY <3>1, <3>2 DEF WakeInv
  <2>5. CASE MirrorFails
    <3>1. faults' # 0 \/ proc' # "up"
      BY <1>1, <2>5 DEF MirrorFails
    <3> QED
      BY <3>1 DEF WakeInv
  <2> QED
    BY <1>7, <2>1, <2>2, <2>3, <2>4, <2>5 DEF MirrorStep
<1>8. CASE ProcessStep
  <2>1. /\ UNCHANGED <<projection, writer>> /\ (proc' = proc \/ proc' # "up")
        /\ (faults' = faults \/ Fault)
    BY <1>8 DEF ProcessStep, MountTree, MountFails, Stop, ApiReturns, Leave, Exit
  <2> QED
    BY <1>1, <1>2, <2>1 DEF writer
<1>9. CASE UNCHANGED vars
  BY <1>2, <1>9 DEF vars, writer, process
<1> QED
  BY <1>3, <1>4, <1>5, <1>6, <1>7, <1>8, <1>9 DEF Next

\* One writer at a time, and no wake-up of the mirror is lost: when the mirror sits
\* in its select with an empty channel and nobody is about to notify, what it has
\* rendered is the whole tree, although a notify drops what finds the channel full
\* and commits go on while the mirror draws.
THEOREM DaemonNoLostWakeup == Spec => [](OneWriter /\ NoLostWakeup)
<1>1. Init => OneWriter /\ WakeInv
  <2> SUFFICES ASSUME Init PROVE OneWriter /\ WakeInv
    OBVIOUS
  <2>1. \A q \in Peer : pull[q].pc # "commit" /\ lock # q
    BY NoPullType, DaemonAssumption DEF Init
  <2>2. mirror \in {"open", "returned"}
    BY DEF Init
  <2> QED
    BY <2>1, <2>2 DEF Init, OneWriter, WakeInv
<1>2. WakeInv => NoLostWakeup
  BY DEF WakeInv, NoLostWakeup
<1> QED
  BY <1>1, <1>2, DaemonTypeOK, OwnerStep, WakeStep, PTL DEF Spec
---------------------------------------------------------------------------
(* The end of the process. *)

\* Leave closes the channel when every loop has returned, and the process does
\* nothing but exit, or panic, from then on.
EndInv ==
  /\ closed => /\ proc \in {"left", "exited", "panicked"}
               /\ run = "returned" /\ mirror = "returned" /\ ~api
  /\ proc = "panicked" => closed /\ LateCallbacks

\* Every step keeps the end an end: a commit that outlives Leave is not the mirror's.
LEMMA EndStep == OneWriter /\ EndInv /\ [Next]_vars => EndInv'
<1> SUFFICES ASSUME OneWriter, EndInv, [Next]_vars PROVE EndInv'
  OBVIOUS
<1> USE DEF EndInv, cluster, syncer, projection, process
<1>1. CASE UNCHANGED <<closed, proc, run, mirror, api>>
  BY <1>1
<1>2. CASE WorldStep
  <2>1. UNCHANGED <<closed, run, mirror, api>> /\ (proc' = proc \/ (Gossiping /\ closed))
    BY <1>2 DEF WorldStep, PeerWrites, PeerStops, PeerStarts, NotifyMember, NotifyMsg, emit
  <2>2. proc' = proc \/ proc' = "panicked"
    BY <1>2 DEF WorldStep, PeerWrites, PeerStops, PeerStarts, NotifyMember, NotifyMsg, emit
  <2> QED
    BY <2>1, <2>2 DEF Gossiping, Alive
<1>3. CASE RunStep
  BY <1>3 DEF RunStep, RunEvent, RunTick, RunJanitor, Collect, RunReturns
<1>4. ASSUME NEW q \in Peer, PullStep(q) PROVE EndInv'
  BY <1>1, <1>4 DEF PullStep, PullDigest, PullPage, PullLock, PullMark, PullStops, PullFails
<1>5. CASE CommitStep
  <2>1. UNCHANGED <<closed, proc, run, api>>
    BY <1>5 DEF CommitStep, UserWrite, Apply, ApplyFails, notify, Announce
  <2>2. closed => mirror' = mirror
    BY <1>5 DEF OneWriter, CommitStep, UserWrite, Apply, ApplyFails, notify, Announce, Release
  <2> QED
    BY <2>1, <2>2
<1>6. CASE MirrorStep
  <2>1. ~closed /\ closed' = closed
    BY <1>6 DEF MirrorStep, MirrorOpen, MirrorOpenFails, MirrorPromotes, MirrorScanned,
       MirrorReads, MirrorDraws, MirrorFails, MirrorWakes, MirrorEvents, MirrorTick,
       MirrorReturns, Mirroring
  <2>2. proc' = proc \/ proc' \in {"stopping", "exited"}
    BY <1>6 DEF MirrorStep, MirrorOpen, MirrorOpenFails, MirrorPromotes, MirrorScanned,
       MirrorReads, MirrorDraws, MirrorFails, MirrorWakes, MirrorEvents, MirrorTick,
       MirrorReturns
  <2> QED
    BY <2>1, <2>2
<1>7. CASE ProcessStep
  BY <1>7 DEF ProcessStep, MountTree, MountFails, Stop, ApiReturns, Leave, Exit
<1>8. CASE UNCHANGED vars
  BY <1>1, <1>8 DEF vars
<1> QED
  BY <1>2, <1>3, <1>4, <1>5, <1>6, <1>7, <1>8 DEF Next

\* Whatever memberlist does after its Shutdown, and however callbacks, commits and the
\* end interleave, the process panics at most after Run, the mirror and the API have
\* returned, with no promotion of the mirror half done; and it panics only if
\* memberlist does call back then.
THEOREM DaemonPanicsAtTheEnd == Spec => []PanicsAtTheEnd
<1>1. Init => EndInv
  BY DEF Init, EndInv
<1>2. OneWriter /\ EndInv => PanicsAtTheEnd
  BY DEF OneWriter, EndInv, PanicsAtTheEnd
<1>3. Spec => []OneWriter
  BY DaemonNoLostWakeup, PTL
<1> QED
  BY <1>1, <1>2, <1>3, EndStep, PTL DEF Spec

---------------------------------------------------------------------------
(* Bookmarks and addresses. *)

\* No two peers ever get the same address.
DisjointHomes ==
  \A s \in Setup : \A q, r \in Peer : q # r => s.home[q] \cap s.home[r] = {}

\* An address, if it is one, that q comes up on.
AtHome(q, a) == a = NoAddr \/ a \in setup.home[q]

\* An address is on its way to a pull for a while: in what memberlist knows, in a
\* hint, in an event, in the pull. All that time it is an address of that peer.
AddressesAtHome ==
  /\ \A q \in Peer : AtHome(q, peer[q].addr) /\ AtHome(q, member[q])
  /\ \A h \in hints : AtHome(h.node, h.addr)
  /\ \A i \in 1 .. Len(events) : AtHome(events[i].node, events[i].addr)
  /\ \A q \in Peer : pull[q].pc = "none" \/ pull[q].addr \in setup.home[q]

\* What a pull is about to record is a position of its peer's feed.
CursorsOfPeer == \A q \in Peer : pull[q].cursor <= peer[q].head

\* The inductive invariant behind BookmarkOfPeer.
HomeInv == TypeOK /\ AddressesAtHome /\ CursorsOfPeer /\ BookmarkOfPeer

\* With addresses of their own, only the peer itself listens at one of its addresses.
LEMMA OnlyPeerListens ==
  ASSUME DisjointHomes, HomeInv, NEW q \in Peer, NEW r \in Peer,
         peer[r].addr \in setup.home[q]
  PROVE  r = q
<1>1. setup \in Setup /\ setup.home[q] \subseteq Addr
  BY DaemonAssumption DEF HomeInv, TypeOK
<1>2. peer[r].addr \in setup.home[r]
  BY <1>1, DaemonAssumption DEF HomeInv, AddressesAtHome, AtHome
<1> QED
  BY <1>1, <1>2 DEF DisjointHomes

\* What emit queues is at home if what it is given is.
LEMMA EmitHome ==
  ASSUME HomeInv, NEW e \in Event, AtHome(e.node, e.addr), emit(e), setup' = setup
  PROVE  \A i \in 1 .. Len(events') : AtHome(events'[i].node, events'[i].addr)
<1>1. CASE events' = events
  BY <1>1 DEF HomeInv, AddressesAtHome, AtHome
<1>2. CASE events' = Append(events, e)
  <2>1. events \in Seq(Event)
    BY DEF HomeInv, TypeOK
  <2>2. /\ Len(events') = Len(events) + 1 /\ events'[Len(events) + 1] = e
        /\ \A i \in 1 .. Len(events) : events'[i] = events[i]
    BY <1>2, <2>1
  <2>3. Len(events) \in Nat
    BY <2>1
  <2> SUFFICES ASSUME NEW i \in 1 .. Len(events') PROVE AtHome(events'[i].node, events'[i].addr)
    OBVIOUS
  <2>4. i \in 1 .. Len(events) \/ i = Len(events) + 1
    BY <2>2, <2>3
  <2> QED
    BY <2>2, <2>4 DEF HomeInv, AddressesAtHome, AtHome
<1> QED
  BY <1>1, <1>2 DEF emit

\* What the peers and memberlist do.
LEMMA WorldHome ==
  ASSUME HomeInv, WorldStep
  PROVE  AddressesAtHome' /\ CursorsOfPeer' /\ BookmarkOfPeer'
<1> USE DEF cluster, syncer, world
<1>1. /\ peer \in [Peer -> [head : Nat, addr : Addr \cup {NoAddr}]]
      /\ member \in [Peer -> Addr \cup {NoAddr}] /\ hints \subseteq Event
      /\ \A q \in Peer : pull[q].cursor \in Nat /\ known[q] \in Nat
  BY DEF HomeInv, TypeOK
<1>2. setup' = setup /\ pull' = pull /\ known' = known
  BY DEF WorldStep, PeerWrites, PeerStops, PeerStarts, NotifyMember, NotifyMsg
<1> DEFINE Fine(q) == /\ peer'[q].head \in Nat /\ peer'[q].head >= peer[q].head
                      /\ AtHome(q, peer'[q].addr)
<1>3. \A q \in Peer : Fine(q)
  <2>1. \A q \in Peer : AtHome(q, peer[q].addr) /\ AtHome(q, NoAddr)
    BY DEF HomeInv, AddressesAtHome, AtHome
  <2>2. ASSUME NEW q \in Peer, PeerWrites(q)
        PROVE  \A r \in Peer : Fine(r)
    <3>1. \A r \in Peer : /\ peer'[r].head \in Nat /\ peer'[r].head >= peer[r].head
                          /\ peer'[r].addr = peer[r].addr
      BY <1>1, <2>2 DEF PeerWrites
    <3> QED
      BY <2>1, <3>1
  <2>3. ASSUME NEW q \in Peer, PeerStops(q) \/ PeerStarts(q)
        PROVE  \A r \in Peer : Fine(r)
    <3>1. \A r \in Peer : /\ peer'[r].head = peer[r].head
                          /\ peer'[r].addr = peer[r].addr \/ AtHome(r, peer'[r].addr)
      BY <1>1, <2>3 DEF PeerStops, PeerStarts, AtHome
    <3> QED
      BY <1>1, <2>1, <3>1
  <2>4. CASE peer' = peer
    BY <1>1, <2>1, <2>4
  <2> HIDE DEF Fine
  <2> QED
    BY <2>2, <2>3, <2>4 DEF WorldStep, NotifyMember, NotifyMsg
<1>4. CursorsOfPeer' /\ BookmarkOfPeer'
  BY <1>1, <1>2, <1>3 DEF HomeInv, CursorsOfPeer, BookmarkOfPeer
<1>5. \A q \in Peer : AtHome(q, member'[q])
  BY <1>1 DEF WorldStep, PeerWrites, PeerStops, PeerStarts, NotifyMember, NotifyMsg,
     HomeInv, AddressesAtHome, AtHome
<1>6. \A h \in hints' : AtHome(h.node, h.addr)
  <2>1. ASSUME NEW q \in Peer, PeerWrites(q) PROVE \A h \in hints' : AtHome(h.node, h.addr)
    <3>1. \A h \in hints' : h \in hints \/ (h.node = q /\ h.addr = peer[q].addr)
      BY <2>1 DEF PeerWrites
    <3> QED
      BY <3>1 DEF HomeInv, AddressesAtHome
  <2>2. CASE hints' = hints
    BY <2>2 DEF HomeInv, AddressesAtHome
  <2> QED
    BY <2>1, <2>2 DEF WorldStep, PeerStops, PeerStarts, NotifyMember, NotifyMsg
<1>7. \A i \in 1 .. Len(events') : AtHome(events'[i].node, events'[i].addr)
  <2>1. CASE events' = events
    BY <1>2, <2>1 DEF HomeInv, AddressesAtHome, AtHome
  <2>2. ASSUME NEW q \in Peer, NotifyMember(q)
        PROVE  \A i \in 1 .. Len(events') : AtHome(events'[i].node, events'[i].addr)
    <3> DEFINE leave == [kind |-> "leave", node |-> q, addr |-> member[q]]
               join == [kind |-> "join", node |-> q, addr |-> peer[q].addr]
    <3>1. leave \in Event /\ join \in Event
      BY <1>1 DEF Event
    <3>2. AtHome(leave.node, leave.addr) /\ AtHome(join.node, join.addr)
      BY DEF HomeInv, AddressesAtHome
    <3>3. emit(leave) \/ emit(join)
      BY <2>2 DEF NotifyMember
    <3> HIDE DEF leave, join
    <3> QED
      BY <1>2, <3>1, <3>2, <3>3, EmitHome
  <2>3. ASSUME NEW h \in hints, NotifyMsg(h)
        PROVE  \A i \in 1 .. Len(events') : AtHome(events'[i].node, events'[i].addr)
    <3>1. h \in Event /\ AtHome(h.node, h.addr) /\ emit(h)
      BY <1>1, <2>3 DEF NotifyMsg, HomeInv, AddressesAtHome
    <3> QED
      BY <1>2, <3>1, EmitHome
  <2> QED
    BY <2>1, <2>2, <2>3 DEF WorldStep, PeerWrites, PeerStops, PeerStarts
<1> QED
  BY <1>2, <1>3, <1>4, <1>5, <1>6, <1>7 DEF HomeInv, AddressesAtHome, AtHome

\* Run starts pulls with the addresses of members and of events.
LEMMA RunHome ==
  ASSUME HomeInv, RunStep
  PROVE  AddressesAtHome' /\ CursorsOfPeer' /\ BookmarkOfPeer'
<1> USE DEF cluster, syncer, world
<1>1. /\ pull \in [Peer -> Task] /\ member \in [Peer -> Addr \cup {NoAddr}]
      /\ events \in Seq(Event) /\ \A q \in Peer : peer[q].head \in Nat
      /\ setup \in Setup
  BY DEF HomeInv, TypeOK, Task, Phase
<1>2. /\ UNCHANGED <<setup, peer, member, hints, known>>
  BY DEF RunStep, RunEvent, RunTick, RunJanitor, Collect, RunReturns
<1>3. NoAddr \notin Addr
  BY DaemonAssumption
<1> DEFINE Fine(r, t) == t = pull[r] \/ (t.addr \in setup.home[r] /\ t.cursor = 0)
<1>4. ASSUME NEW q \in Peer, NEW a \in Addr \cup {NoAddr}, AtHome(q, a)
      PROVE  \A r \in Peer : Fine(r, triggerSync(pull, q, a)[r])
  BY <1>1, <1>3, <1>4, TriggerType DEF AtHome
<1>5. \A r \in Peer : Fine(r, pull'[r])
  <2>1. CASE pull' = pull
    BY <2>1
  <2> HIDE DEF Fine
  <2>2. CASE RunEvent
    <3>1. Len(events) \in Nat /\ Len(events) # 0 /\ Head(events) = events[1]
          /\ Head(events) \in Event
      BY <1>1, <2>2 DEF RunEvent
    <3>2. /\ Head(events).node \in Peer /\ Head(events).addr \in Addr \cup {NoAddr}
          /\ AtHome(Head(events).node, Head(events).addr)
      BY <3>1 DEF HomeInv, AddressesAtHome, Event
    <3>3. pull' = pull \/ pull' = triggerSync(pull, Head(events).node, Head(events).addr)
      BY <2>2 DEF RunEvent
    <3> QED
      BY <1>4, <2>1, <3>2, <3>3
  <2>3. CASE RunTick
    <3>1. \A r \in Peer : pull'[r] = triggerSync(pull, r, member[r])[r]
      BY <2>3 DEF RunTick, syncAll
    <3>2. \A r \in Peer : member[r] \in Addr \cup {NoAddr} /\ AtHome(r, member[r])
      BY <1>1 DEF HomeInv, AddressesAtHome
    <3> QED
      BY <1>4, <3>1, <3>2
  <2>4. CASE RunJanitor \/ Collect \/ RunReturns
    BY <2>4, <2>1 DEF RunJanitor, Collect, RunReturns
  <2> QED
    BY <2>2, <2>3, <2>4 DEF RunStep
<1>6. \A i \in 1 .. Len(events') : AtHome(events'[i].node, events'[i].addr)
  <2>1. CASE events' = events
    BY <2>1 DEF HomeInv, AddressesAtHome
  <2>2. CASE events' = Tail(events) /\ events # << >>
    <3>1. /\ Len(events) \in Nat /\ Len(events') = Len(events) - 1
          /\ \A i \in 1 .. Len(events') : events'[i] = events[i + 1]
      BY <1>1, <2>2
    <3>2. \A i \in 1 .. Len(events') : i + 1 \in 1 .. Len(events)
      BY <3>1
    <3> QED
      BY <3>1, <3>2 DEF HomeInv, AddressesAtHome
  <2> QED
    BY <2>1, <2>2 DEF RunStep, RunEvent, RunTick, RunJanitor, Collect, RunReturns
<1>7. CursorsOfPeer' /\ BookmarkOfPeer'
  BY <1>1, <1>2, <1>5 DEF HomeInv, CursorsOfPeer, BookmarkOfPeer
<1> QED
  BY <1>2, <1>5, <1>6, <1>7 DEF HomeInv, AddressesAtHome, AtHome

\* A pull reads the feed of its peer and of no other.
LEMMA PullHome ==
  ASSUME DisjointHomes, HomeInv, NEW q \in Peer, PullStep(q)
  PROVE  AddressesAtHome' /\ CursorsOfPeer' /\ BookmarkOfPeer'
<1> USE DEF cluster, syncer, world
<1>1. /\ pull \in [Peer -> Task] /\ pull[q] \in Task /\ known \in [Peer -> Nat]
      /\ \A r \in Peer : peer[r].head \in Nat
      /\ known[q] <= peer[q].head /\ pull[q].cursor <= peer[q].head
      /\ known[q] \in Nat /\ pull[q].cursor \in Nat
  BY DEF HomeInv, TypeOK, Task, Phase, CursorsOfPeer, BookmarkOfPeer
<1>2. UNCHANGED <<setup, peer, member, hints, events>>
  BY DEF PullStep, PullDigest, PullPage, PullLock, PullMark, PullStops, PullFails
<1>3. pull[q].pc # "none"
  BY DEF PullStep, PullDigest, PullPage, PullLock, PullMark, PullStops, PullFails
<1>4. \A r \in Listening(pull[q].addr) : r = q
  BY <1>3, OnlyPeerListens DEF Listening, HomeInv, AddressesAtHome
<1>5. /\ \A r \in Peer : r # q => pull'[r] = pull[r] /\ known'[r] = known[r]
      /\ known'[q] \in {known[q], pull[q].cursor}
      /\ \/ pull'[q] = NoPull
         \/ pull'[q].addr = pull[q].addr /\ pull'[q].cursor <= peer[q].head
  <2>1. CASE PullDigest(q)
    <3>1. /\ known' = known
          /\ \E c, k : /\ k = peer[q].head \/ k = 0 \/ k = known[q]
                       /\ pull' = [pull EXCEPT ![q].pc = c, ![q].cursor = k]
      BY <1>4, <2>1 DEF PullDigest
    <3>2. ASSUME NEW c, NEW k, k = peer[q].head \/ k = 0 \/ k = known[q],
                 pull' = [pull EXCEPT ![q].pc = c, ![q].cursor = k]
          PROVE  /\ \A r \in Peer : r # q => pull'[r] = pull[r]
                 /\ pull'[q].addr = pull[q].addr /\ pull'[q].cursor <= peer[q].head
      BY <1>1, <3>2 DEF Task
    <3> QED
      BY <3>1, <3>2
  <2>2. CASE PullPage(q)
    <3>1. /\ known' = known
          /\ \/ pull' = [pull EXCEPT ![q] = NoPull]
             \/ \E k \in pull[q].cursor + 1 .. peer[q].head : \E m :
                  pull' = [pull EXCEPT ![q].pc = "wait", ![q].cursor = k, ![q].more = m]
      BY <1>4, <2>2 DEF PullPage
    <3>2. ASSUME NEW k \in pull[q].cursor + 1 .. peer[q].head, NEW m,
                 pull' = [pull EXCEPT ![q].pc = "wait", ![q].cursor = k, ![q].more = m]
          PROVE  /\ \A r \in Peer : r # q => pull'[r] = pull[r]
                 /\ pull'[q].addr = pull[q].addr /\ pull'[q].cursor <= peer[q].head
      BY <1>1, <3>2 DEF Task
    <3>3. CASE pull' = [pull EXCEPT ![q] = NoPull]
      BY <1>1, <3>1, <3>3
    <3> QED
      BY <3>1, <3>2, <3>3
  <2>3. CASE PullLock(q)
    <3>1. known' = known /\ \E c : pull' = [pull EXCEPT ![q].pc = c]
      BY <2>3 DEF PullLock
    <3> QED
      BY <1>1, <3>1 DEF Task
  <2>4. CASE PullMark(q)
    <3>1. /\ known' = [known EXCEPT ![q] = pull[q].cursor]
          /\ \/ pull' = [pull EXCEPT ![q].pc = "page"]
             \/ pull' = [pull EXCEPT ![q] = NoPull]
      BY <2>4 DEF PullMark
    <3>2. known'[q] = pull[q].cursor /\ \A r \in Peer : r # q => known'[r] = known[r]
      BY <1>1, <3>1
    <3>3. CASE pull' = [pull EXCEPT ![q].pc = "page"]
      BY <1>1, <3>2, <3>3 DEF Task
    <3>4. CASE pull' = [pull EXCEPT ![q] = NoPull]
      BY <1>1, <3>2, <3>4
    <3> QED
      BY <3>1, <3>3, <3>4
  <2>5. CASE PullStops(q) \/ PullFails(q)
    BY <1>1, <2>5 DEF PullStops, PullFails
  <2> QED
    BY <2>1, <2>2, <2>3, <2>4, <2>5 DEF PullStep
<1>6. NoPull.cursor <= peer[q].head /\ NoPull.pc = "none"
  BY <1>1, NoPullType
<1>7. CursorsOfPeer' /\ BookmarkOfPeer'
  BY <1>1, <1>2, <1>5, <1>6 DEF HomeInv, CursorsOfPeer, BookmarkOfPeer
<1>8. \A r \in Peer : pull'[r].pc = "none" \/ pull'[r].addr \in setup.home[r]
  BY <1>3, <1>5, <1>6 DEF HomeInv, AddressesAtHome
<1> QED
  BY <1>2, <1>7, <1>8 DEF HomeInv, AddressesAtHome, AtHome

\* A commit ends, and the pull that made it goes on or is over.
LEMMA CommitHome ==
  ASSUME HomeInv, OneWriter, CommitStep
  PROVE  AddressesAtHome' /\ CursorsOfPeer' /\ BookmarkOfPeer'
<1> USE DEF cluster, syncer, world
<1>1. pull \in [Peer -> Task] /\ \A q \in Peer : peer[q].head \in Nat
  BY DEF HomeInv, TypeOK, Task, Phase
<1>2. UNCHANGED <<setup, peer, member, hints, events, known>>
  BY DEF CommitStep, UserWrite, Apply, ApplyFails, notify, Announce
<1>3. \A q \in Peer :
        \/ pull'[q] = pull[q] \/ pull'[q] = NoPull
        \/ lock = q /\ pull'[q] = [pull[q] EXCEPT !.pc = "mark"]
  BY DEF CommitStep, UserWrite, Apply, ApplyFails, notify, Announce, Release
<1>4. ASSUME NEW q \in Peer
      PROVE  /\ pull'[q].pc = "none" \/ pull'[q].addr \in setup.home[q]
             /\ pull'[q].cursor <= peer[q].head
  <2>1. /\ pull[q].cursor <= peer[q].head
        /\ pull[q].pc = "none" \/ pull[q].addr \in setup.home[q]
    BY DEF HomeInv, AddressesAtHome, CursorsOfPeer
  <2>2. CASE pull'[q] = NoPull
    BY <1>1, <2>2, NoPullType
  <2>3. CASE lock = q /\ pull'[q] = [pull[q] EXCEPT !.pc = "mark"]
    <3>1. pull[q].pc # "none"
      BY <2>3 DEF OneWriter
    <3>2. pull'[q].addr = pull[q].addr /\ pull'[q].cursor = pull[q].cursor
      BY <1>1, <2>3 DEF Task
    <3> QED
      BY <2>1, <3>1, <3>2
  <2> QED
    BY <1>3, <2>1, <2>2, <2>3
<1> QED
  BY <1>2, <1>4 DEF HomeInv, AddressesAtHome, AtHome, CursorsOfPeer, BookmarkOfPeer

\* The bookmark of a peer is a position of that peer's feed, however late the hints
\* and events are that name its address: as long as no two peers ever get the same
\* address. (MisdirectedPull.cfg shows what happens when they do.)
THEOREM DaemonBookmarkOfPeer ==
  ASSUME DisjointHomes
  PROVE  Spec => []BookmarkOfPeer
<1>1. Init => AddressesAtHome /\ CursorsOfPeer /\ BookmarkOfPeer
  <2> SUFFICES ASSUME Init PROVE AddressesAtHome /\ CursorsOfPeer /\ BookmarkOfPeer
    OBVIOUS
  <2>1. Len(<< >>) = 0 /\ \A q \in Peer : pull[q] = NoPull
    BY DEF Init
  <2> QED
    BY <2>1, NoPullType DEF Init, AddressesAtHome, AtHome, CursorsOfPeer, BookmarkOfPeer
<1>2. HomeInv /\ OneWriter /\ [Next]_vars =>
        AddressesAtHome' /\ CursorsOfPeer' /\ BookmarkOfPeer'
  <2> SUFFICES ASSUME HomeInv, OneWriter, [Next]_vars
               PROVE  AddressesAtHome' /\ CursorsOfPeer' /\ BookmarkOfPeer'
    OBVIOUS
  <2>1. CASE UNCHANGED <<setup, peer, member, hints, events, pull, known>>
    BY <2>1 DEF HomeInv, AddressesAtHome, AtHome, CursorsOfPeer, BookmarkOfPeer
  <2>2. CASE MirrorStep
    BY <2>1, <2>2 DEF MirrorStep, MirrorOpen, MirrorOpenFails, MirrorPromotes,
       MirrorScanned, MirrorReads, MirrorDraws, MirrorFails, MirrorWakes,
       MirrorEvents, MirrorTick, MirrorReturns, world, cluster, syncer
  <2>3. CASE ProcessStep
    BY <2>1, <2>3 DEF ProcessStep, MountTree, MountFails, Stop, ApiReturns, Leave, Exit,
       world, cluster, syncer
  <2>4. CASE UNCHANGED vars
    BY <2>1, <2>4 DEF vars, world, cluster, syncer
  <2> QED
    BY <2>2, <2>3, <2>4, WorldHome, RunHome, PullHome, CommitHome DEF Next
<1>3. Spec => []OneWriter
  BY DaemonNoLostWakeup, PTL
<1> QED
  BY <1>1, <1>2, <1>3, DaemonTypeOK, PTL DEF Spec, HomeInv
=============================================================================
