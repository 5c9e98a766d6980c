---------------------------- MODULE MirrorProofs ----------------------------
(***************************************************************************)
(* What holds of the directory mirror for any set of paths, contents and   *)
(* owners, any queue length and any number of users' and peers' changes.   *)
(***************************************************************************)
EXTENDS Mirror, TLAPS, SequenceTheorems, WellFoundedInduction

---------------------------------------------------------------------------
(* The visiting order. *)

\* A set of naturals has a least member: First of a set of paths is one of them.
LEMMA FirstVisited ==
  ASSUME NEW S, S \subseteq Path, S # {}
  PROVE  First(S) \in S /\ \A o \in S : First(S) <= o
<1>1. S \subseteq Nat
  BY MirrorAssumption
<1>2. PICK x \in S : \A y \in S : ~(<<y, x>> \in OpToRel(<, Nat))
  BY <1>1, NatLessThanWellFounded, WFMin, Zenon
<1>3. \A y \in S : ~(y < x)
  BY <1>1, <1>2 DEF OpToRel
<1>4. \A y \in S : x <= y
  BY <1>1, <1>3
<1> QED
  BY <1>4 DEF First

\* Current is an entry that is left to render.
LEMMA CurrentEntry ==
  ASSUME NEW E \in SUBSET [path : Path, row : Row], loop.entries = E, E # {}
  PROVE  Current \in E
<1> DEFINE S == {e.path : e \in E}
<1>1. S \subseteq Path /\ S # {}
  <2>1. \A e \in E : e.path \in Path
    OBVIOUS
  <2> QED
    BY <2>1
<1> HIDE DEF S
<1>2. First(S) \in S /\ \A o \in S : First(S) <= o
  BY <1>1, FirstVisited
<1> USE DEF S
<1>3. PICK e \in E : \A o \in E : e.path <= o.path
  BY <1>2
<1> QED
  BY <1>3 DEF Current

---------------------------------------------------------------------------
(* Types. *)

\* A fresh start of some part of Run, and a path it leaves.
LEMMA LoopType ==
  ASSUME NEW pc \in {"down", "scan", "render", "sweep", "select", "apply"},
         NEW todo \in SUBSET Path
  PROVE  /\ At(pc, todo) \in Loop
         /\ At(pc, todo).pc = pc /\ At(pc, todo).todo = todo
         /\ At(pc, todo).do = "none" /\ At(pc, todo).entries = {}
         /\ \A b \in BOOLEAN : [At(pc, todo) EXCEPT !.starting = b] \in Loop
         /\ \A B \in SUBSET Path : [At(pc, todo) EXCEPT !.batch = B] \in Loop
<1>1. AnyPath \in Path
  BY MirrorAssumption DEF AnyPath
<1> QED
  BY <1>1, MirrorAssumption DEF At, Loop

\* render begins with the live rows.
LEMMA RenderingType ==
  ASSUME tree \in [Path -> Row], NEW starting \in BOOLEAN
  PROVE  /\ Rendering(starting) \in Loop
         /\ Rendering(starting).pc = "render" /\ Rendering(starting).do = "none"
         /\ Rendering(starting).todo = {}
         /\ Rendering(starting).entries =
              {[path |-> p, row |-> tree[p]] : p \in {q \in Path : tree[q].state = "live"}}
<1> DEFINE E == {[path |-> p, row |-> tree[p]] : p \in {q \in Path : tree[q].state = "live"}}
<1>1. E \in SUBSET [path : Path, row : Row]
  OBVIOUS
<1>2. At("render", {}) \in Loop
  BY LoopType
<1>3. Rendering(starting) = [At("render", {}) EXCEPT !.starting = starting, !.entries = E]
  BY DEF Rendering
<1> HIDE DEF E
<1>4. /\ Rendering(starting) \in Loop
      /\ Rendering(starting).pc = At("render", {}).pc
      /\ Rendering(starting).do = At("render", {}).do
      /\ Rendering(starting).todo = At("render", {}).todo
      /\ Rendering(starting).entries = E
  BY <1>1, <1>2, <1>3 DEF Loop
<1>5. /\ At("render", {}).pc = "render" /\ At("render", {}).do = "none"
      /\ At("render", {}).todo = {}
  BY DEF At
<1> QED
  BY <1>4, <1>5 DEF E

\* What is left of a walk, and of a rendering.
LEMMA VisitType ==
  ASSUME loop \in Loop
  PROVE  /\ Visited \in Loop
         /\ Visited.pc = loop.pc /\ Visited.do = "none" /\ Visited.entries = loop.entries
         /\ Visited.starting = loop.starting
         /\ Visited.todo = loop.todo \ {First(loop.todo)}
         /\ Rendered \in Loop
         /\ Rendered.pc = loop.pc /\ Rendered.do = "none" /\ Rendered.todo = loop.todo
         /\ Rendered.entries = loop.entries \ {Current}
  BY DEF Loop, Visited, Rendered

\* An event more in the queue.
LEMMA QueuedType ==
  ASSUME queue \in Seq(Path), Len(queue) <= QueueCap, NEW p \in Path
  PROVE  /\ Queued(p) \in Seq(Path) /\ Len(Queued(p)) <= QueueCap
         /\ Queued(p) = queue \/ (watching /\ Queued(p) = Append(queue, p))
<1>1. CASE Queued(p) = queue
  BY <1>1
<1>2. CASE watching /\ Len(queue) < QueueCap /\ Queued(p) = Append(queue, p)
  BY <1>2, MirrorAssumption
<1> QED
  BY <1>1, <1>2, MirrorAssumption DEF Queued

\* A counter of environment events.
LEMMA SpendType ==
  ASSUME spent \in [EnvEvent -> Nat], NEW e \in EnvEvent, Spend(e)
  PROVE  spent' \in [EnvEvent -> Nat]
  BY DEF Spend

\* Users of the directory.
LEMMA UserType ==
  ASSUME TypeOK, NEW p \in Path,
         UserRemove(p) \/ \E c \in Content : UserEdit(p, c)
  PROVE  TypeOK'
<1>1. ASSUME NEW e \in {"edit", "remove"}, UserSpend(e) PROVE spent' \in [EnvEvent -> Nat]
  <2>1. Spend("offline") \/ Spend(e)
    BY <1>1 DEF UserSpend
  <2> QED
    BY <2>1, SpendType DEF TypeOK, EnvEvent
<1>2. queue' = Queued(p) /\ queue' \in Seq(Path) /\ Len(queue') <= QueueCap
  BY QueuedType DEF UserRemove, UserEdit, TypeOK
<1>3. CASE UserRemove(p)
  <2>1. NoFile \in File
    BY MirrorAssumption DEF NoFile, File
  <2>2. disk' \in [Path -> File] /\ spent' \in [EnvEvent -> Nat]
    BY <1>1, <1>3, <2>1 DEF UserRemove, TypeOK
  <2> QED
    BY <1>2, <1>3, <2>2 DEF UserRemove, TypeOK
<1>4. ASSUME NEW c \in Content, UserEdit(p, c) PROVE TypeOK'
  <2>1. [hash |-> c, owner |-> disk[p].owner, mtime |-> now] \in File
    BY DEF TypeOK, File
  <2>2. disk' \in [Path -> File] /\ spent' \in [EnvEvent -> Nat]
    BY <1>1, <1>4, <2>1 DEF UserEdit, TypeOK
  <2> QED
    BY <1>2, <1>4, <2>2 DEF UserEdit, TypeOK
<1> QED
  BY <1>3, <1>4

\* The syncer's row.
LEMMA PeerType == ASSUME TypeOK, NEW p \in Path, PeerWrite(p) PROVE TypeOK'
<1>1. PICK w \in tree[p].wall .. now, o \in Owner :
        \/ /\ Spend("put")
           /\ \E c \in Content : tree' = [tree EXCEPT ![p] =
                [state |-> "live", hash |-> c, owner |-> o, wall |-> w]]
        \/ /\ Spend("delete")
           /\ tree' = [tree EXCEPT ![p] =
                [state |-> "deleted", hash |-> NoHash, owner |-> o, wall |-> w]]
  BY DEF PeerWrite
<1>2. w \in Nat
  <2>1. tree[p].wall \in Nat /\ now \in Nat
    BY DEF TypeOK, Row
  <2> QED
    BY <2>1
<1>3. \A c \in Content : [state |-> "live", hash |-> c, owner |-> o, wall |-> w] \in Row
  BY <1>2 DEF Row
<1>4. [state |-> "deleted", hash |-> NoHash, owner |-> o, wall |-> w] \in Row
  BY <1>2 DEF Row
<1>5. tree' \in [Path -> Row]
  BY <1>1, <1>3, <1>4 DEF TypeOK
<1>6. spent' \in [EnvEvent -> Nat]
  BY <1>1, SpendType DEF TypeOK, EnvEvent
<1>7. \A q \in Path : tree'[q].state = "live" <=> tree'[q].hash \in Content
  BY <1>1, MirrorAssumption DEF TypeOK
<1> QED
  BY <1>5, <1>6, <1>7 DEF PeerWrite, TypeOK, watcher

\* pump.
LEMMA PumpType == TypeOK /\ (Deliver \/ Flush \/ LoseEvent) => TypeOK'
<1> SUFFICES ASSUME TypeOK, Deliver \/ Flush \/ LoseEvent PROVE TypeOK'
  OBVIOUS
<1>1. ASSUME queue # << >>
      PROVE  /\ Head(queue) \in Path /\ Tail(queue) \in Seq(Path)
             /\ Len(Tail(queue)) <= QueueCap
  <2>1. queue \in Seq(Path) /\ Len(queue) <= QueueCap
    BY DEF TypeOK
  <2>2. Head(queue) \in Path /\ Tail(queue) \in Seq(Path) /\ Len(Tail(queue)) = Len(queue) - 1
    BY <1>1, <2>1
  <2> QED
    BY <2>1, <2>2, MirrorAssumption
<1>2. CASE Deliver
  BY <1>1, <1>2 DEF Deliver, TypeOK
<1>3. CASE Flush
  BY <1>3 DEF Flush, TypeOK
<1>4. CASE LoseEvent
  BY <1>1, <1>4, SpendType DEF LoseEvent, TypeOK, EnvEvent
<1> QED
  BY <1>2, <1>3, <1>4

\* promote and deleteLocal.
LEMMA PromoteType ==
  TypeOK /\ (PromoteCheck \/ ScanMissing \/ PromotePut \/ DeleteLocal \/ ApplyDone) => TypeOK'
<1> SUFFICES ASSUME TypeOK,
                    PromoteCheck \/ ScanMissing \/ PromotePut \/ DeleteLocal \/ ApplyDone
             PROVE  TypeOK'
  OBVIOUS
<1> USE DEF watcher
<1>1. loop \in Loop /\ loop.todo \in SUBSET Path
  BY DEF TypeOK, Loop
<1>2. loop.todo # {} => First(loop.todo) \in loop.todo
  BY <1>1, FirstVisited
<1>3. Visited \in Loop /\ Visited.do = "none" /\ Visited.entries = loop.entries
  BY <1>1, VisitType
<1>4. Spend("fault") => spent' \in [EnvEvent -> Nat]
  BY SpendType DEF TypeOK, EnvEvent
<1>5. CASE PromoteCheck
  <2> DEFINE p == First(loop.todo)
  <2>1. PICK row \in {tree[p], NoRow} :
          /\ IF row = tree[p] THEN UNCHANGED spent ELSE Spend("fault")
          /\ \/ loop' = Visited
             \/ loop' = [loop EXCEPT !.do = "put", !.path = p, !.owner = ownershipFor(p, row)]
    BY <1>5 DEF PromoteCheck
  <2>2. loop.pc \in {"scan", "apply"} /\ p \in loop.todo
    BY <1>2, <1>5 DEF PromoteCheck, Promoting
  <2>3. row \in Row /\ disk[p] \in File
    <3>1. NoRow \in Row
      BY MirrorAssumption DEF Row, NoRow
    <3> QED
      BY <1>1, <2>2, <3>1 DEF TypeOK
  <2>4. ownershipFor(p, row) \in Owner
    BY <2>3 DEF ownershipFor, Row, File
  <2>5. spent' \in [EnvEvent -> Nat]
    BY <1>4, <2>1 DEF TypeOK
  <2>6. UNCHANGED <<now, tree, disk, canChown, changed, watcher, fresh, gone, swept>>
    BY <1>5 DEF PromoteCheck
  <2>7. CASE loop' = Visited
    BY <1>3, <2>5, <2>6, <2>7 DEF TypeOK
  <2>8. CASE loop' = [loop EXCEPT !.do = "put", !.path = p, !.owner = ownershipFor(p, row)]
    <3> HIDE DEF p
    <3>1. /\ loop' \in Loop /\ loop'.pc = loop.pc /\ loop'.do = "put"
          /\ loop'.path = p /\ loop'.todo = loop.todo /\ loop'.entries = loop.entries
      BY <1>1, <2>2, <2>4, <2>8 DEF Loop
    <3> QED
      BY <2>2, <2>5, <2>6, <3>1 DEF TypeOK
  <2> QED
    BY <2>1, <2>7, <2>8
<1>6. CASE ScanMissing
  BY <1>3, <1>6 DEF ScanMissing, TypeOK
<1>7. CASE PromotePut
  <2> DEFINE p == loop.path
  <2>1. p \in Path /\ loop.owner \in Owner
    BY <1>1 DEF Loop
  <2>2. [state |-> "live", hash |-> disk[p].hash, owner |-> loop.owner, wall |-> now] \in Row
    BY <2>1 DEF TypeOK, Row, File
  <2>3. tree' \in [Path -> Row] /\ changed' \in BOOLEAN
    BY <1>7, <2>1, <2>2 DEF PromotePut, PutFile, TypeOK
  <2>4. spent' \in [EnvEvent -> Nat] /\ fresh' \subseteq Path
    BY <1>4, <1>7 DEF PromotePut, TypeOK
  <2>5. \A q \in Path : tree'[q].state = "live" <=> tree'[q].hash \in Content
    <3>1. p \in OnDisk => disk[p].hash \in Content
      BY <2>1 DEF OnDisk, TypeOK, File
    <3>2. CASE p \in OnDisk /\ PutFile(p, disk[p].hash, loop.owner)
      BY <2>1, <3>1, <3>2 DEF PutFile, TypeOK
    <3>3. CASE tree' = tree
      BY <3>3 DEF TypeOK
    <3> QED
      BY <1>7, <3>2, <3>3 DEF PromotePut
  <2> QED
    BY <1>3, <1>7, <2>3, <2>4, <2>5 DEF PromotePut, TypeOK
<1>8. CASE DeleteLocal
  <2> DEFINE p == First(loop.todo)
  <2>1. p \in Path
    BY <1>1, <1>2, <1>8 DEF DeleteLocal, Promoting
  <2>2. [tree[p] EXCEPT !.state = "deleted", !.hash = NoHash, !.wall = now] \in Row
    BY <2>1 DEF TypeOK, Row
  <2>3. tree' \in [Path -> Row] /\ changed' \in BOOLEAN
    BY <1>8, <2>1, <2>2 DEF DeleteLocal, TypeOK
  <2>4. spent' \in [EnvEvent -> Nat]
    BY <1>4, <1>8 DEF DeleteLocal, TypeOK
  <2>5. \A q \in Path : tree'[q].state = "live" <=> tree'[q].hash \in Content
    <3>1. /\ [tree[p] EXCEPT !.state = "deleted", !.hash = NoHash, !.wall = now].state = "deleted"
          /\ [tree[p] EXCEPT !.state = "deleted", !.hash = NoHash, !.wall = now].hash = NoHash
      BY <2>1 DEF TypeOK, Row
    <3> QED
      BY <1>8, <2>1, <3>1, MirrorAssumption DEF DeleteLocal, TypeOK
  <2> QED
    BY <1>3, <1>8, <2>3, <2>4, <2>5 DEF DeleteLocal, TypeOK
<1>9. CASE ApplyDone
  <2>1. /\ At("select", {}) \in Loop /\ At("select", {}).do = "none"
        /\ At("select", {}).entries = {}
    BY LoopType
  <2> QED
    BY <1>9, <2>1 DEF ApplyDone, Released, TypeOK
<1> QED
  BY <1>5, <1>6, <1>7, <1>8, <1>9

\* render.
LEMMA RenderType ==
  TypeOK /\ (RenderCheck \/ RenderWrite \/ RenderDone \/ RemoveTombstoned \/ SweepDone)
    => TypeOK'
<1> SUFFICES ASSUME TypeOK,
                    RenderCheck \/ RenderWrite \/ RenderDone \/ RemoveTombstoned \/ SweepDone
             PROVE  TypeOK'
  OBVIOUS
<1> USE DEF watcher
<1>1. loop \in Loop /\ loop.entries \in SUBSET [path : Path, row : Row]
      /\ loop.todo \in SUBSET Path
  BY DEF TypeOK, Loop
<1>2. Spend("fault") => spent' \in [EnvEvent -> Nat]
  BY SpendType DEF TypeOK, EnvEvent
<1>3. Rendered \in Loop /\ Rendered.do = "none" /\ Rendered.entries \subseteq loop.entries
  BY <1>1, VisitType
<1>4. ASSUME NEW e \in [path : Path, row : Row], NEW owner \in Owner,
             NEW hash \in Content \cup {NoHash}, NEW mtime \in Nat,
             ApplyMeta(e, owner, hash, mtime)
      PROVE  /\ disk' \in [Path -> File] /\ canChown' \in BOOLEAN
             /\ queue' \in Seq(Path) /\ Len(queue') <= QueueCap
  <2>1. e.path \in Path /\ e.row.owner \in Owner
    BY DEF Row
  <2>2. [hash |-> hash, mtime |-> mtime,
         owner |-> IF canChown /\ Privileged THEN e.row.owner ELSE owner] \in File
    BY <2>1 DEF File
  <2>3. disk' \in [Path -> File]
    BY <1>4, <2>1, <2>2 DEF ApplyMeta, TypeOK
  <2>4. queue' \in Seq(Path) /\ Len(queue') <= QueueCap
    BY <1>4, <2>1, QueuedType DEF ApplyMeta, TypeOK
  <2> QED
    BY <1>4, <2>3, <2>4, MirrorAssumption DEF ApplyMeta, TypeOK
<1>5. CASE RenderCheck
  <2>1. loop.pc = "render" /\ loop.entries # {} /\ Current \in loop.entries
    BY <1>1, <1>5, CurrentEntry DEF RenderCheck
  <2>2. /\ [loop EXCEPT !.do = "write"] \in Loop
        /\ [loop EXCEPT !.do = "write"].do = "write"
        /\ [loop EXCEPT !.do = "write"].pc = loop.pc
        /\ [loop EXCEPT !.do = "write"].entries = loop.entries
    BY <1>1 DEF Loop
  <2>3. /\ disk[Current.path].owner \in Owner
        /\ disk[Current.path].hash \in Content \cup {NoHash}
        /\ disk[Current.path].mtime \in Nat
    BY <1>1, <2>1 DEF TypeOK, File
  <2>4. /\ disk' \in [Path -> File] /\ canChown' \in BOOLEAN
        /\ queue' \in Seq(Path) /\ Len(queue') <= QueueCap
    BY <1>1, <1>4, <1>5, <2>1, <2>3 DEF RenderCheck, TypeOK
  <2>5. /\ loop' \in Loop /\ loop'.entries \subseteq loop.entries
        /\ loop'.do = "put" => loop'.pc \in {"scan", "apply"} /\ loop'.path \in loop'.todo
        /\ loop'.do = "write" => loop'.pc = "render" /\ loop'.entries # {}
    BY <1>3, <1>5, <2>1, <2>2 DEF RenderCheck
  <2>6. fresh' \subseteq Path /\ spent' \in [EnvEvent -> Nat]
    BY <1>2, <1>5 DEF RenderCheck, TypeOK
  <2> QED
    BY <1>5, <2>4, <2>5, <2>6 DEF RenderCheck, TypeOK
<1>6. CASE RenderWrite
  <2>1. Current \in loop.entries
    BY <1>1, <1>6, CurrentEntry DEF RenderWrite, TypeOK
  <2>2. Current.row.hash \in Content \cup {NoHash} /\ now \in Nat /\ Self \in Owner
    BY <1>1, <2>1, MirrorAssumption DEF TypeOK, Row
  <2>3. /\ disk' \in [Path -> File] /\ canChown' \in BOOLEAN
        /\ queue' \in Seq(Path) /\ Len(queue') <= QueueCap
    <3>1. CASE ApplyMeta(Current, Self, Current.row.hash, now)
      BY <1>1, <1>4, <2>1, <2>2, <3>1
    <3>2. CASE /\ disk' = [disk EXCEPT ![Current.path] =
                    [hash |-> Current.row.hash, mtime |-> now, owner |-> Self]]
               /\ queue' = Queued(Current.path) /\ canChown' = canChown
      <4>1. [hash |-> Current.row.hash, mtime |-> now, owner |-> Self] \in File
        BY <2>2 DEF File
      <4> QED
        BY <1>1, <2>1, <3>2, <4>1, QueuedType DEF TypeOK
    <3>3. CASE UNCHANGED <<disk, canChown, queue>>
      BY <3>3 DEF TypeOK
    <3> QED
      BY <1>6, <3>1, <3>2, <3>3 DEF RenderWrite
  <2>4. /\ spent' \in [EnvEvent -> Nat] /\ fresh' \subseteq Path
        /\ gone' \subseteq Path /\ swept' \subseteq Path
    BY <1>2, <1>6 DEF RenderWrite, TypeOK
  <2> QED
    BY <1>3, <1>6, <2>3, <2>4 DEF RenderWrite, TypeOK
<1>7. CASE RenderDone
  <2>1. doomed \in SUBSET Path /\ loop.starting \in BOOLEAN
    BY <1>1 DEF doomed, OnDisk, Loop
  <2>2. loop' \in Loop
    BY <1>7, <2>1, LoopType DEF RenderDone
  <2>3. loop'.do = "none" /\ loop'.entries = {}
    BY <1>7 DEF RenderDone, At
  <2> QED
    BY <1>7, <2>2, <2>3 DEF RenderDone, TypeOK
<1>8. CASE RemoveTombstoned
  <2>1. PICK p \in loop.todo :
          /\ \/ /\ disk' = [disk EXCEPT ![p] = NoFile]
                /\ queue' = queue \/ queue' = Queued(p)
                /\ fresh' = fresh \ {p} /\ swept' \subseteq swept \cup {p}
                /\ UNCHANGED spent
             \/ Spend("fault") /\ UNCHANGED <<disk, queue, fresh, swept>>
          /\ loop' = [loop EXCEPT !.todo = @ \ {p}]
    BY <1>8 DEF RemoveTombstoned
  <2>2. NoFile \in File /\ p \in Path
    BY <1>1, MirrorAssumption DEF NoFile, File
  <2>3. /\ disk' \in [Path -> File] /\ fresh' \subseteq Path /\ swept' \subseteq Path
        /\ spent' \in [EnvEvent -> Nat]
    BY <1>2, <2>1, <2>2 DEF TypeOK
  <2>4. queue' \in Seq(Path) /\ Len(queue') <= QueueCap
    BY <2>1, <2>2, QueuedType DEF TypeOK
  <2>5. /\ loop' \in Loop /\ loop'.do = loop.do /\ loop'.pc = "sweep"
        /\ loop'.entries = loop.entries
    BY <1>1, <1>8, <2>1 DEF RemoveTombstoned, Loop
  <2>6. loop'.do = "none"
    BY <1>1, <1>8, <2>5 DEF RemoveTombstoned, TypeOK, Loop
  <2> QED
    BY <1>8, <2>3, <2>4, <2>5, <2>6 DEF RemoveTombstoned, TypeOK
<1>9. CASE SweepDone
  <2>1. /\ At("select", {}) \in Loop /\ At("select", {}).do = "none"
        /\ At("select", {}).entries = {}
    BY LoopType
  <2>2. watching' \in BOOLEAN /\ spent' \in [EnvEvent -> Nat]
    BY <1>1, <1>2, <1>9 DEF SweepDone, TypeOK, Loop
  <2> QED
    BY <1>9, <2>1, <2>2 DEF SweepDone, TypeOK
<1> QED
  BY <1>5, <1>6, <1>7, <1>8, <1>9

\* The start, the choices of Run, and the end.
LEMMA RunType ==
  TypeOK /\ (Start \/ ScanDone \/ SelectChanged \/ SelectEvents \/ SelectTick \/ Stop \/ Tick)
    => TypeOK'
<1> SUFFICES ASSUME TypeOK, Start \/ ScanDone \/ SelectChanged \/ SelectEvents \/ SelectTick
                            \/ Stop \/ Tick
             PROVE  TypeOK'
  OBVIOUS
<1> USE DEF watcher
<1>1. loop.starting \in BOOLEAN /\ OnDisk \in SUBSET Path /\ out \in SUBSET Path
  BY DEF TypeOK, Loop, OnDisk
<1>2. ASSUME NEW b \in BOOLEAN
      PROVE  /\ Rendering(b) \in Loop /\ Rendering(b).do = "none"
             /\ \A e \in Rendering(b).entries : e.row.hash \in Content
  BY RenderingType DEF TypeOK
<1>3. CASE Start
  <2>1. loop' \in Loop
    BY <1>1, <1>3, LoopType DEF Start
  <2>2. loop'.do = "none" /\ loop'.entries = {}
    BY <1>3 DEF Start, At
  <2> QED
    BY <1>3, <2>1, <2>2, MirrorAssumption DEF Start, TypeOK
<1>4. CASE ScanDone
  BY <1>1, <1>2, <1>4 DEF ScanDone, TypeOK
<1>5. CASE SelectChanged
  BY <1>2, <1>5 DEF SelectChanged, TypeOK
<1>6. CASE SelectEvents
  <2>1. loop' \in Loop
    BY <1>1, <1>6, LoopType DEF SelectEvents
  <2>2. loop'.do = "none" /\ loop'.entries = {}
    BY <1>6 DEF SelectEvents, At
  <2> QED
    BY <1>6, <2>1, <2>2 DEF SelectEvents, TypeOK
<1>7. CASE SelectTick
  <2>1. /\ At("scan", OnDisk) \in Loop /\ At("scan", OnDisk).do = "none"
        /\ At("scan", OnDisk).entries = {}
    BY <1>1, LoopType
  <2> QED
    BY <1>7, <2>1 DEF SelectTick, TypeOK
<1>8. CASE Stop
  <2>1. /\ At("down", {}) \in Loop /\ At("down", {}).do = "none"
        /\ At("down", {}).entries = {}
    BY LoopType
  <2>2. << >> \in Seq(Path) /\ Len(<< >>) <= QueueCap
    BY MirrorAssumption
  <2>3. spent' \in [EnvEvent -> Nat]
    BY <1>8, SpendType DEF Stop, TypeOK, EnvEvent
  <2> QED
    BY <1>8, <2>1, <2>2, <2>3 DEF Stop, TypeOK
<1>9. CASE Tick
  BY <1>9 DEF Tick, TypeOK
<1> QED
  BY <1>3, <1>4, <1>5, <1>6, <1>7, <1>8, <1>9

\* The types of the mirror's state: among them that a row has content exactly while
\* it is live, that a promotion under way is of a path the walk has not left, that a
\* write under way has its entry, and that the event queue never grows past
\* inotify's limit.
THEOREM MirrorTypeOK == Spec => []TypeOK
<1>1. Init => TypeOK
  <2> SUFFICES ASSUME Init PROVE TypeOK
    OBVIOUS
  <2>1. NoRow \in Row /\ NoFile \in File
    BY MirrorAssumption DEF NoRow, NoFile, Row, File
  <2>2. /\ At("down", {}) \in Loop /\ At("down", {}).do = "none"
        /\ At("down", {}).entries = {}
    BY LoopType
  <2>3. << >> \in Seq(Path) /\ Len(<< >>) <= QueueCap
    BY MirrorAssumption
  <2>4. \A p \in Path : tree[p].state = "live" <=> tree[p].hash \in Content
    BY MirrorAssumption DEF Init, NoRow
  <2> QED
    BY <2>1, <2>2, <2>3, <2>4, MirrorAssumption DEF Init, TypeOK
<1>2. TypeOK /\ [Next]_vars => TypeOK'
  <2> SUFFICES ASSUME TypeOK, [Next]_vars PROVE TypeOK'
    OBVIOUS
  <2>1. CASE UNCHANGED vars
    BY <2>1 DEF vars, watcher, TypeOK
  <2> QED
    BY <2>1, UserType, PeerType, PumpType, PromoteType, RenderType, RunType
    DEF Next, RunStep
<1> QED
  BY <1>1, <1>2, PTL DEF Spec

---------------------------------------------------------------------------
(* Deletions. *)

\* The paths that a queue of events names.
Paths(q) == {q[i] : i \in 1 .. Len(q)}

\* The paths whose events have been raised and not been dealt with.
Claimed == Paths(queue) \cup pending \cup out \cup {p \in loop.todo : loop.pc = "apply"}

\* A stopped process has no watch and no events.
StoppedQuiet ==
  loop.pc = "down" => ~watching /\ queue = << >> /\ pending = {} /\ out = {}

\* An event for a path where there is nothing goes back to a removal under this
\* process: a user's, or the mirror's own for a tombstone.
ClaimsExplained == \A p \in Claimed : p \in OnDisk \cup gone \cup swept

\* The inductive invariant behind DeletesOnlyRemovals.
RemovalInv == StoppedQuiet /\ ClaimsExplained

\* What a queue names after one event more or less.
LEMMA PathsOf ==
  ASSUME NEW q \in Seq(Path), NEW p \in Path
  PROVE  /\ Paths(Append(q, p)) = Paths(q) \cup {p}
         /\ Paths(<< >>) = {}
         /\ q # << >> => Head(q) \in Paths(q) /\ Paths(Tail(q)) \subseteq Paths(q)
<1>1. Paths(Append(q, p)) = Paths(q) \cup {p}
  <2>1. Len(Append(q, p)) = Len(q) + 1 /\ Len(q) \in Nat
    OBVIOUS
  <2>2. Append(q, p)[Len(q) + 1] = p /\ \A i \in 1 .. Len(q) : Append(q, p)[i] = q[i]
    OBVIOUS
  <2>3. 1 .. (Len(q) + 1) = (1 .. Len(q)) \cup {Len(q) + 1}
    BY <2>1
  <2> HIDE DEF Paths
  <2>4. Paths(Append(q, p)) \subseteq Paths(q) \cup {p}
    BY <2>1, <2>2, <2>3 DEF Paths
  <2>5. Paths(q) \subseteq Paths(Append(q, p)) /\ p \in Paths(Append(q, p))
    BY <2>1, <2>2, <2>3 DEF Paths
  <2> QED
    BY <2>4, <2>5
<1>2. ASSUME q # << >>
      PROVE  Head(q) \in Paths(q) /\ Paths(Tail(q)) \subseteq Paths(q)
  <2>1. Len(q) \in Nat /\ Len(q) >= 1 /\ Len(Tail(q)) = Len(q) - 1
    BY <1>2
  <2>2. Head(q) = q[1] /\ \A i \in 1 .. Len(Tail(q)) : Tail(q)[i] = q[i + 1]
    BY <1>2
  <2>3. \A i \in 1 .. Len(Tail(q)) : i + 1 \in 1 .. Len(q)
    BY <2>1
  <2> QED
    BY <2>1, <2>2, <2>3 DEF Paths
<1> QED
  BY <1>1, <1>2 DEF Paths

\* An event for p claims p at most, and nothing while there is no watch.
LEMMA QueuedPaths ==
  ASSUME TypeOK, NEW p \in Path
  PROVE  Paths(Queued(p)) \subseteq Paths(queue) \cup {p} /\ (~watching => Queued(p) = queue)
<1>1. queue \in Seq(Path) /\ Len(queue) <= QueueCap
  BY DEF TypeOK
<1>2. Queued(p) = queue \/ (watching /\ Queued(p) = Append(queue, p))
  BY <1>1, QueuedType
<1>3. Paths(Append(queue, p)) = Paths(queue) \cup {p}
  BY <1>1, PathsOf
<1> QED
  BY <1>2, <1>3

\* Claims are of paths.
LEMMA TypedClaims == TypeOK => Claimed \subseteq Path
<1> SUFFICES ASSUME TypeOK PROVE Claimed \subseteq Path
  OBVIOUS
<1>1. Paths(queue) \subseteq Path
  BY DEF TypeOK, Paths
<1> QED
  BY <1>1 DEF TypeOK, Claimed, Loop

\* Users, and the syncer.
LEMMA UserRemoval ==
  ASSUME TypeOK, RemovalInv, NEW p \in Path,
         UserRemove(p) \/ PeerWrite(p) \/ \E c \in Content : UserEdit(p, c)
  PROVE  RemovalInv'
<1> USE DEF RemovalInv, watcher
<1>1. CASE UserRemove(p)
  <2>1. queue' = Queued(p) /\ UNCHANGED <<loop, watching, pending, out, swept>>
    BY <1>1 DEF UserRemove
  <2>2. StoppedQuiet'
    BY <2>1, QueuedPaths DEF StoppedQuiet
  <2>3. \A q \in Path : q # p => disk'[q] = disk[q]
    BY <1>1 DEF UserRemove, TypeOK
  <2>4. Claimed' \subseteq Claimed \cup {p}
    BY <2>1, QueuedPaths DEF Claimed
  <2>5. ClaimsExplained'
    <3>1. CASE loop.pc = "down"
      <4>1. Paths(<< >>) = {}
        BY DEF Paths
      <4> QED
        BY <2>1, <2>2, <3>1, <4>1 DEF StoppedQuiet, ClaimsExplained, Claimed
    <3>2. CASE loop.pc # "down"
      <4>1. gone' = gone \cup {p}
        BY <1>1, <3>2 DEF UserRemove
      <4> QED
        BY <2>1, <2>3, <2>4, <4>1 DEF ClaimsExplained, OnDisk
    <3> QED
      BY <3>1, <3>2
  <2> QED
    BY <2>2, <2>5
<1>2. ASSUME NEW c \in Content, UserEdit(p, c) PROVE RemovalInv'
  <2>1. /\ queue' = Queued(p) /\ UNCHANGED <<loop, watching, pending, out>>
        /\ gone' = gone \ {p} /\ swept' = swept \ {p}
    BY <1>2 DEF UserEdit
  <2>2. StoppedQuiet'
    BY <2>1, QueuedPaths DEF StoppedQuiet
  <2>3. disk'[p].hash = c /\ \A q \in Path : q # p => disk'[q] = disk[q]
    BY <1>2 DEF UserEdit, TypeOK
  <2>4. Claimed' \subseteq Claimed \cup {p}
    BY <2>1, QueuedPaths DEF Claimed
  <2>5. ClaimsExplained'
    BY <2>1, <2>3, <2>4, MirrorAssumption DEF ClaimsExplained, OnDisk
  <2> QED
    BY <2>2, <2>5
<1>3. CASE PeerWrite(p)
  BY <1>3 DEF PeerWrite, StoppedQuiet, ClaimsExplained, Claimed, OnDisk
<1> QED
  BY <1>1, <1>2, <1>3

\* pump.
LEMMA PumpRemoval ==
  TypeOK /\ RemovalInv /\ (Deliver \/ Flush \/ LoseEvent) => RemovalInv'
<1> SUFFICES ASSUME TypeOK, RemovalInv, Deliver \/ Flush \/ LoseEvent PROVE RemovalInv'
  OBVIOUS
<1> USE DEF RemovalInv
<1>1. UNCHANGED <<disk, loop, watching, gone, swept>>
  BY DEF Deliver, Flush, LoseEvent
<1>2. StoppedQuiet'
  BY <1>1 DEF StoppedQuiet, Deliver, Flush, LoseEvent
<1>3. queue # << >> => Head(queue) \in Paths(queue) /\ Paths(Tail(queue)) \subseteq Paths(queue)
  BY MirrorAssumption, PathsOf DEF TypeOK
<1>4. Claimed' \subseteq Claimed
  BY <1>1, <1>3 DEF Claimed, Deliver, Flush, LoseEvent
<1>5. ClaimsExplained'
  BY <1>1, <1>4 DEF ClaimsExplained, OnDisk
<1> QED
  BY <1>2, <1>5

\* promote and deleteLocal: a path that is left is claimed no longer.
LEMMA PromoteRemoval ==
  ASSUME TypeOK, RemovalInv,
         PromoteCheck \/ ScanMissing \/ PromotePut \/ DeleteLocal \/ ApplyDone
  PROVE  RemovalInv'
<1> USE DEF RemovalInv, watcher
<1>1. loop \in Loop
  BY DEF TypeOK
<1>2. UNCHANGED <<disk, watching, queue, pending, out, gone, swept>>
  BY DEF PromoteCheck, ScanMissing, PromotePut, DeleteLocal, ApplyDone
<1>3. loop.pc \in {"scan", "apply"}
  BY DEF PromoteCheck, ScanMissing, PromotePut, DeleteLocal, ApplyDone, Promoting, TypeOK
<1>4. \/ loop'.pc = loop.pc /\ loop'.todo \subseteq loop.todo
      \/ loop'.pc = "select"
  <2>1. CASE loop' = Visited
    BY <1>1, <2>1, VisitType
  <2>2. ASSUME NEW p, NEW o, loop' = [loop EXCEPT !.do = "put", !.path = p, !.owner = o]
        PROVE  loop'.pc = loop.pc /\ loop'.todo = loop.todo
    BY <1>1, <2>2 DEF Loop
  <2>3. CASE loop' = At("select", {})
    BY <2>3, LoopType
  <2> QED
    BY <2>1, <2>2, <2>3 DEF PromoteCheck, ScanMissing, PromotePut, DeleteLocal, ApplyDone
<1>5. StoppedQuiet'
  BY <1>2, <1>3, <1>4 DEF StoppedQuiet
<1>6. Claimed' \subseteq Claimed
  BY <1>2, <1>4 DEF Claimed
<1> QED
  BY <1>2, <1>5, <1>6 DEF ClaimsExplained, OnDisk

\* render. What it writes is there; what it removes it has swept.
LEMMA RenderRemoval ==
  ASSUME TypeOK, RemovalInv,
         RenderCheck \/ RenderWrite \/ RenderDone \/ RemoveTombstoned \/ SweepDone
  PROVE  RemovalInv'
<1> USE DEF RemovalInv, watcher
<1>1. loop \in Loop /\ loop.entries \in SUBSET [path : Path, row : Row]
      /\ loop.todo \in SUBSET Path
  BY DEF TypeOK, Loop
<1>2. UNCHANGED <<pending, out>>
  BY DEF RenderCheck, RenderWrite, RenderDone, RemoveTombstoned, SweepDone
<1>3. CASE RenderCheck \/ RenderWrite
  <2> DEFINE e == Current
  <2>1. loop.pc = "render" /\ e \in loop.entries
    BY <1>1, <1>3, CurrentEntry DEF RenderCheck, RenderWrite, TypeOK
  <2>2. e.path \in Path /\ e.row.hash # NoHash
    BY <1>1, <2>1, MirrorAssumption DEF TypeOK
  <2>3. loop'.pc = "render"
    <3>1. CASE loop' = Rendered
      BY <1>1, <2>1, <3>1, VisitType
    <3>2. CASE loop' = [loop EXCEPT !.do = "write"]
      BY <1>1, <2>1, <3>2 DEF Loop
    <3> QED
      BY <1>3, <3>1, <3>2 DEF RenderCheck, RenderWrite
  <2>4. \/ UNCHANGED <<queue, disk, gone, swept>>
        \/ /\ queue' = Queued(e.path) /\ e.path \in OnDisk'
           /\ \A q \in Path : q # e.path => disk'[q] = disk[q]
           /\ gone \subseteq gone' \cup {e.path} /\ swept \subseteq swept' \cup {e.path}
    <3> HIDE DEF e
    <3>1. ASSUME NEW owner, NEW mtime, ApplyMeta(e, owner, e.row.hash, mtime)
          PROVE  /\ queue' = Queued(e.path) /\ e.path \in OnDisk'
                 /\ \A q \in Path : q # e.path => disk'[q] = disk[q]
      BY <2>2, <3>1 DEF ApplyMeta, TypeOK, OnDisk
    <3>2. ASSUME NEW file, disk' = [disk EXCEPT ![e.path] = file], file.hash = e.row.hash
          PROVE  e.path \in OnDisk' /\ \A q \in Path : q # e.path => disk'[q] = disk[q]
      BY <2>2, <3>2 DEF TypeOK, OnDisk
    <3> USE DEF e
    <3>3. CASE RenderCheck
      BY <3>1, <3>3 DEF RenderCheck
    <3>4. CASE RenderWrite
      <4>1. CASE UNCHANGED <<disk, queue, gone, swept>>
        BY <4>1
      <4>2. CASE ApplyMeta(e, Self, e.row.hash, now)
                 /\ gone' = gone \ {e.path} /\ swept' = swept \ {e.path}
        BY <3>1, <4>2
      <4>3. CASE /\ disk' = [disk EXCEPT ![e.path] =
                      [hash |-> e.row.hash, mtime |-> now, owner |-> Self]]
                 /\ queue' = Queued(e.path)
                 /\ gone' = gone \ {e.path} /\ swept' = swept \ {e.path}
        BY <3>2, <4>3
      <4> QED
        BY <3>4, <4>1, <4>2, <4>3 DEF RenderWrite
    <3> QED
      BY <1>3, <3>3, <3>4
  <2>5. StoppedQuiet'
    BY <2>3 DEF StoppedQuiet
  <2> HIDE DEF e
  <2>6. CASE UNCHANGED <<queue, disk, gone, swept>>
    <3>1. Claimed' \subseteq Claimed
      BY <1>2, <2>3, <2>6 DEF Claimed
    <3> QED
      BY <2>5, <2>6, <3>1 DEF ClaimsExplained, OnDisk
  <2>7. CASE /\ queue' = Queued(e.path) /\ e.path \in OnDisk'
             /\ \A q \in Path : q # e.path => disk'[q] = disk[q]
             /\ gone \subseteq gone' \cup {e.path} /\ swept \subseteq swept' \cup {e.path}
    <3>1. Claimed' \subseteq Claimed \cup {e.path}
      BY <1>2, <2>2, <2>3, <2>7, QueuedPaths DEF Claimed
    <3>2. OnDisk \subseteq OnDisk' \cup {e.path}
      BY <2>7 DEF OnDisk
    <3> QED
      BY <2>5, <2>7, <3>1, <3>2 DEF ClaimsExplained
  <2> QED
    BY <2>4, <2>6, <2>7
<1>4. CASE RenderDone \/ SweepDone
  <2>1. loop'.pc \in {"sweep", "select"} /\ UNCHANGED <<disk, queue, gone, swept>>
    BY <1>4 DEF RenderDone, SweepDone, At
  <2>2. Claimed' \subseteq Claimed
    BY <1>2, <2>1 DEF Claimed
  <2> QED
    BY <2>1, <2>2 DEF StoppedQuiet, ClaimsExplained, OnDisk
<1>5. CASE RemoveTombstoned
  <2>1. PICK p \in loop.todo :
          /\ \/ /\ disk' = [disk EXCEPT ![p] = NoFile]
                /\ queue' = IF p \in OnDisk THEN Queued(p) ELSE queue
                /\ swept' = IF p \in OnDisk THEN swept \cup {p} ELSE swept
             \/ UNCHANGED <<disk, queue, swept>>
          /\ loop' = [loop EXCEPT !.todo = @ \ {p}]
    BY <1>5 DEF RemoveTombstoned
  <2>2. p \in Path /\ gone' = gone
    BY <1>1, <1>5 DEF RemoveTombstoned
  <2>3. loop'.pc = "sweep"
    BY <1>1, <1>5, <2>1 DEF RemoveTombstoned, Loop
  <2>4. StoppedQuiet'
    BY <2>3 DEF StoppedQuiet
  <2>5. CASE UNCHANGED <<disk, queue, swept>>
    <3>1. Claimed' \subseteq Claimed
      BY <1>2, <2>3, <2>5 DEF Claimed
    <3> QED
      BY <2>2, <2>4, <2>5, <3>1 DEF ClaimsExplained, OnDisk
  <2>6. CASE p \in OnDisk /\ disk' = [disk EXCEPT ![p] = NoFile]
             /\ queue' = Queued(p) /\ swept' = swept \cup {p}
    <3>1. Claimed' \subseteq Claimed \cup {p}
      BY <1>2, <2>2, <2>3, <2>6, QueuedPaths DEF Claimed
    <3>2. OnDisk \subseteq OnDisk' \cup {p}
      BY <2>6 DEF OnDisk, TypeOK
    <3> QED
      BY <2>2, <2>4, <2>6, <3>1, <3>2 DEF ClaimsExplained
  <2>7. CASE p \notin OnDisk /\ disk' = [disk EXCEPT ![p] = NoFile]
             /\ UNCHANGED <<queue, swept>>
    <3>1. Claimed' \subseteq Claimed
      BY <1>2, <2>3, <2>7 DEF Claimed
    <3>2. OnDisk \subseteq OnDisk'
      BY <2>7 DEF OnDisk, TypeOK
    <3> QED
      BY <2>2, <2>4, <2>7, <3>1, <3>2 DEF ClaimsExplained
  <2> QED
    BY <2>1, <2>5, <2>6, <2>7
<1> QED
  BY <1>3, <1>4, <1>5

\* The start, the choices of Run, and the end.
LEMMA RunRemoval ==
  ASSUME TypeOK, RemovalInv,
         Start \/ ScanDone \/ SelectChanged \/ SelectEvents \/ SelectTick \/ Stop \/ Tick
  PROVE  RemovalInv'
<1> USE DEF RemovalInv, watcher
<1>1. ASSUME NEW b \in BOOLEAN PROVE Rendering(b).pc = "render"
  BY RenderingType DEF TypeOK
<1>2. CASE Stop
  <2>1. loop'.pc = "down"
    BY <1>2 DEF Stop, At
  <2>2. ~watching' /\ queue' = << >> /\ pending' = {} /\ out' = {}
    BY <1>2 DEF Stop
  <2>3. Paths(<< >>) = {}
    BY DEF Paths
  <2> QED
    BY <2>1, <2>2, <2>3 DEF StoppedQuiet, ClaimsExplained, Claimed
<1>3. CASE Tick
  BY <1>3 DEF Tick, StoppedQuiet, ClaimsExplained, Claimed, OnDisk
<1>4. CASE Start \/ ScanDone \/ SelectChanged \/ SelectEvents \/ SelectTick
  <2>1. UNCHANGED <<disk, gone, swept, queue, pending>>
    BY <1>4 DEF Start, ScanDone, SelectChanged, SelectEvents, SelectTick
  <2>2. /\ loop'.pc \in {"scan", "render", "apply"}
        /\ \/ loop'.pc # "apply" /\ out' = out
           \/ loop'.todo = out /\ out' = {}
    <3>1. CASE Start
      BY <3>1 DEF Start, At
    <3>2. CASE ScanDone
      BY <1>1, <3>2 DEF ScanDone, TypeOK, Loop
    <3>3. CASE SelectChanged
      BY <1>1, <3>3 DEF SelectChanged
    <3>4. CASE SelectEvents
      BY <3>4 DEF SelectEvents, At
    <3>5. CASE SelectTick
      BY <3>5 DEF SelectTick, At
    <3> QED
      BY <1>4, <3>1, <3>2, <3>3, <3>4, <3>5
  <2>3. Claimed' \subseteq Claimed
    BY <2>1, <2>2 DEF Claimed
  <2> QED
    BY <2>1, <2>2, <2>3 DEF StoppedQuiet, ClaimsExplained, OnDisk
<1> QED
  BY <1>2, <1>3, <1>4

\* Only deleteLocal deletes, and only where there is nothing.
LEMMA DeletesWhatIsClaimed ==
  ASSUME TypeOK, [Next]_vars, ByMirror, NEW p \in Path,
         tree[p].state = "live", tree'[p].state = "deleted"
  PROVE  p \in Claimed /\ p \notin OnDisk
<1>1. loop' # loop /\ tree' # tree
  BY DEF ByMirror
<1>2. CASE PromotePut
  BY <1>2 DEF PromotePut, PutFile, TypeOK
<1>3. CASE DeleteLocal
  <2>1. First(loop.todo) \in loop.todo /\ loop.pc = "apply"
    BY <1>3, FirstVisited DEF DeleteLocal, Promoting, TypeOK, Loop
  <2>2. p = First(loop.todo)
    BY <1>3 DEF DeleteLocal, TypeOK
  <2> QED
    BY <1>3, <2>1, <2>2 DEF DeleteLocal, Claimed
<1> QED
  BY <1>1, <1>2, <1>3
  DEF Next, RunStep, vars, Start, PromoteCheck, ScanMissing, ApplyDone, ScanDone, RenderCheck,
      RenderWrite, RenderDone, RemoveTombstoned, SweepDone, SelectChanged, SelectEvents,
      SelectTick, Deliver, Flush, LoseEvent, Stop, Tick, UserRemove, PeerWrite, UserEdit

\* Events whose removals have been explained stay so.
LEMMA MirrorRemovals == Spec => []RemovalInv
<1>1. Init => RemovalInv
  <2> SUFFICES ASSUME Init PROVE RemovalInv
    OBVIOUS
  <2>1. loop.pc = "down" /\ Paths(<< >>) = {}
    BY DEF Init, At, Paths
  <2> QED
    BY <2>1 DEF Init, RemovalInv, StoppedQuiet, ClaimsExplained, Claimed
<1>2. TypeOK /\ RemovalInv /\ [Next]_vars => RemovalInv'
  <2> SUFFICES ASSUME TypeOK, RemovalInv, [Next]_vars PROVE RemovalInv'
    OBVIOUS
  <2>1. CASE UNCHANGED vars
    BY <2>1 DEF vars, watcher, RemovalInv, StoppedQuiet, ClaimsExplained, Claimed, OnDisk
  <2>2. CASE Next
    BY <2>2, UserRemoval, PumpRemoval, PromoteRemoval, RenderRemoval, RunRemoval
    DEF Next, RunStep
  <2> QED
    BY <2>1, <2>2
<1> QED
  BY <1>1, <1>2, MirrorTypeOK, PTL DEF Spec

\* The mirror deletes from the tree only what was removed from the directory under
\* this process, by a user or by its own sweep, and was not put back: never a file
\* that is missing because it went while the daemon was stopped, was never written
\* or could not be, whatever is lost, fails or stops in between.
THEOREM MirrorDeletesOnlyRemovals == Spec => DeletesOnlyRemovals
<1>1. TypeOK /\ RemovalInv /\ [Next]_vars =>
        [\A p \in Path : ByMirror /\ tree[p].state = "live" /\ tree'[p].state = "deleted" =>
           p \in gone \cup swept]_vars
  BY DeletesWhatIsClaimed DEF RemovalInv, ClaimsExplained
<1> QED
  BY <1>1, MirrorTypeOK, MirrorRemovals, PTL DEF Spec, DeletesOnlyRemovals

\* No path is created again once it is deleted, which only a peer does: promote
\* offers no file over a tombstone that it has read.
StaysDeleted ==
  \A p \in Path : tree[p].state = "deleted" => tree'[p].state = "deleted"

\* What a sweep has removed, or is about to remove, is deleted.
SweepsDeleted ==
  /\ \A p \in swept : tree[p].state = "deleted"
  /\ loop.pc = "sweep" => \A p \in loop.todo : tree[p].state = "deleted"

\* A sweep is of what is deleted, and only a sweep sweeps.
LEMMA SweepStep ==
  ASSUME TypeOK, SweepsDeleted, StaysDeleted, Next
  PROVE  SweepsDeleted'
<1> USE DEF watcher
<1>1. /\ loop \in Loop /\ loop.todo \subseteq Path /\ swept \subseteq Path
  BY DEF TypeOK, Loop
<1>2. \A p \in Path : tree[p].state = "deleted" => tree'[p].state = "deleted"
  BY DEF StaysDeleted
<1>3. CASE RemoveTombstoned
  <2>1. PICK p \in loop.todo : /\ swept' \subseteq swept \cup {p}
                               /\ loop' = [loop EXCEPT !.todo = @ \ {p}]
    BY <1>3 DEF RemoveTombstoned
  <2>2. loop.pc = "sweep" /\ tree' = tree /\ loop'.todo \subseteq loop.todo
    BY <1>1, <1>3, <2>1 DEF RemoveTombstoned, Loop
  <2> QED
    BY <2>1, <2>2 DEF SweepsDeleted
<1>4. CASE RenderDone
  <2>1. loop'.todo = doomed /\ UNCHANGED <<tree, swept>>
    BY <1>4 DEF RenderDone, At
  <2> QED
    BY <2>1 DEF SweepsDeleted, doomed
<1>5. CASE swept' \subseteq swept /\ (loop' = loop \/ loop'.pc # "sweep")
  BY <1>1, <1>2, <1>5 DEF SweepsDeleted
<1>6. CASE PromoteCheck \/ ScanMissing \/ PromotePut \/ DeleteLocal
  <2>1. loop.pc \in {"scan", "apply"} /\ swept' = swept
    BY <1>6 DEF PromoteCheck, ScanMissing, PromotePut, DeleteLocal, Promoting, TypeOK
  <2>2. CASE loop' = Visited
    BY <1>1, <1>5, <2>1, <2>2, VisitType
  <2>3. ASSUME NEW p, NEW o, loop' = [loop EXCEPT !.do = "put", !.path = p, !.owner = o]
        PROVE  loop'.pc = loop.pc
    BY <1>1, <2>3 DEF Loop
  <2> QED
    BY <1>5, <1>6, <2>1, <2>2, <2>3 DEF PromoteCheck, ScanMissing, PromotePut, DeleteLocal
<1>7. CASE RenderCheck \/ RenderWrite
  <2>1. loop.pc = "render" /\ swept' \subseteq swept
    BY <1>7 DEF RenderCheck, RenderWrite, TypeOK
  <2>2. CASE loop' = Rendered
    BY <1>1, <1>5, <2>1, <2>2, VisitType
  <2>3. CASE loop' = [loop EXCEPT !.do = "write"]
    BY <1>1, <1>5, <2>1, <2>3 DEF Loop
  <2> QED
    BY <1>7, <2>2, <2>3 DEF RenderCheck, RenderWrite
<1>8. CASE ScanDone \/ SelectChanged
  <2>1. \A b \in BOOLEAN : Rendering(b).pc = "render"
    BY RenderingType DEF TypeOK
  <2> QED
    BY <1>1, <1>5, <1>8, <2>1 DEF ScanDone, SelectChanged, Loop
<1>9. CASE Start \/ ApplyDone \/ SweepDone \/ SelectEvents \/ SelectTick \/ Stop
  BY <1>5, <1>9 DEF Start, ApplyDone, SweepDone, SelectEvents, SelectTick, Stop, At
<1>10. CASE Deliver \/ Flush \/ LoseEvent \/ Tick
  BY <1>5, <1>10 DEF Deliver, Flush, LoseEvent, Tick
<1>11. ASSUME NEW p \in Path,
              UserRemove(p) \/ PeerWrite(p) \/ \E c \in Content : UserEdit(p, c)
       PROVE  SweepsDeleted'
  BY <1>5, <1>11 DEF UserRemove, PeerWrite, UserEdit
<1> QED
  BY <1>3, <1>4, <1>6, <1>7, <1>8, <1>9, <1>10, <1>11 DEF Next, RunStep

\* As long as no peer creates a deleted path again, the mirror deletes only what a
\* user removed: its own removals are of what is deleted already, and their events
\* delete nothing. RemovalEcho.cfg shows what happens when a peer does.
THEOREM MirrorNoEchoDeletes == Spec /\ [][StaysDeleted]_vars => NoEchoDeletes
<1>1. Init => SweepsDeleted
  BY DEF Init, SweepsDeleted, At
<1>2. TypeOK /\ SweepsDeleted /\ [Next]_vars /\ [StaysDeleted]_vars => SweepsDeleted'
  <2> SUFFICES ASSUME TypeOK, SweepsDeleted, [Next]_vars, [StaysDeleted]_vars
               PROVE  SweepsDeleted'
    OBVIOUS
  <2>1. CASE UNCHANGED vars
    BY <2>1 DEF vars, SweepsDeleted
  <2> QED
    BY <2>1, SweepStep
<1>3. TypeOK /\ RemovalInv /\ SweepsDeleted /\ [Next]_vars =>
        [\A p \in Path : ByMirror /\ tree[p].state = "live" /\ tree'[p].state = "deleted" =>
           p \in gone]_vars
  BY DeletesWhatIsClaimed DEF RemovalInv, ClaimsExplained, SweepsDeleted
<1> QED
  BY <1>1, <1>2, <1>3, MirrorTypeOK, MirrorRemovals, PTL DEF Spec, NoEchoDeletes

---------------------------------------------------------------------------
(* Users' files. *)

\* Users write files only while the daemon is stopped.
EditsWhenDown == \A p \in Path, c \in Content : UserEdit(p, c) => loop.pc = "down"

\* What users write is within the size limit.
FilesFit == \A p \in fresh : disk[p].hash \notin TooLarge

\* PutFile does not fail the mirror.
OffersSucceed == PromotePut => UNCHANGED spent

\* The tree holds a version of p at least as new as the file, or p as deleted.
Settled(p) ==
  \/ tree[p].state = "deleted"
  \/ tree[p].state = "live" /\ tree[p].wall >= disk[p].mtime

\* The path that is offered is the one that the walk is at.
OffersFirst == loop.do = "put" => loop.path = First(loop.todo)

\* A user's file is on disk, and while the daemon runs it is still to be scanned
\* or the tree has outdone it.
FreshInv ==
  /\ OffersFirst
  /\ fresh \subseteq OnDisk
  /\ \A p \in fresh :
       loop.pc = "down" \/ (loop.pc = "scan" /\ p \in loop.todo) \/ Settled(p)

\* A user's file is on disk only if it is a path, and is in a state of the walk.
LEMMA UserFresh ==
  ASSUME TypeOK, FreshInv, StaysDeleted, EditsWhenDown, NEW p \in Path,
         UserRemove(p) \/ PeerWrite(p) \/ \E c \in Content : UserEdit(p, c)
  PROVE  FreshInv'
<1> USE DEF FreshInv, OffersFirst
<1>1. loop' = loop
  BY DEF UserRemove, PeerWrite, UserEdit
<1>2. CASE UserRemove(p)
  <2>1. fresh' = fresh \ {p} /\ tree' = tree /\ \A q \in Path : q # p => disk'[q] = disk[q]
    BY <1>2 DEF UserRemove, TypeOK
  <2> QED
    BY <1>1, <2>1 DEF OnDisk, Settled, TypeOK
<1>3. ASSUME NEW c \in Content, UserEdit(p, c) PROVE FreshInv'
  <2>1. loop.pc = "down"
    BY <1>3 DEF EditsWhenDown
  <2>2. /\ fresh' = fresh \cup {p} /\ disk'[p].hash = c
        /\ \A q \in Path : q # p => disk'[q] = disk[q]
    BY <1>3 DEF UserEdit, TypeOK
  <2> QED
    BY <1>1, <2>1, <2>2, MirrorAssumption DEF OnDisk
<1>4. CASE PeerWrite(p)
  <2>1. UNCHANGED <<disk, fresh>>
    BY <1>4 DEF PeerWrite
  <2>2. ASSUME NEW q \in Path, Settled(q) PROVE Settled(q)'
    <3>1. tree[q].state = "deleted" => tree'[q].state = "deleted"
      BY DEF StaysDeleted
    <3>2. CASE tree'[q] = tree[q]
      BY <2>1, <2>2, <3>2 DEF Settled
    <3>3. CASE q = p /\ tree'[p].state = "deleted"
      BY <3>3 DEF Settled
    <3>4. CASE /\ q = p /\ tree'[p].state = "live"
               /\ tree'[p].wall \in tree[p].wall .. now
      <4>1. /\ tree[p].wall \in Nat /\ now \in Nat /\ disk[p].mtime \in Nat
        BY DEF TypeOK, Row, File
      <4> QED
        BY <2>1, <2>2, <3>1, <3>4, <4>1 DEF Settled
    <3> QED
      BY <1>4, <3>2, <3>3, <3>4 DEF PeerWrite, TypeOK
  <2> QED
    BY <1>1, <2>1, <2>2 DEF OnDisk, TypeOK
<1> QED
  BY <1>2, <1>3, <1>4

\* promote: a file that is not offered has been outdone, one that is offered and
\* taken is no longer fresh.
LEMMA PromoteFresh ==
  ASSUME TypeOK, FreshInv, FilesFit, StaysDeleted, OffersSucceed,
         PromoteCheck \/ ScanMissing \/ PromotePut \/ DeleteLocal \/ ApplyDone
  PROVE  FreshInv'
<1> USE DEF FreshInv, OffersFirst, watcher
<1>1. loop \in Loop /\ loop.todo \in SUBSET Path /\ fresh \subseteq Path
  BY DEF TypeOK, Loop
<1>2. loop.todo # {} => First(loop.todo) \in loop.todo
  BY <1>1, FirstVisited
<1>3. /\ Visited.pc = loop.pc /\ Visited.do = "none"
      /\ Visited.todo = loop.todo \ {First(loop.todo)}
  BY <1>1, VisitType
<1>4. disk' = disk
  BY DEF PromoteCheck, ScanMissing, PromotePut, DeleteLocal, ApplyDone
<1>5. CASE PromoteCheck
  <2> DEFINE p == First(loop.todo)
  <2>1. UNCHANGED <<tree, fresh>> /\ p \in OnDisk /\ p \in loop.todo
    BY <1>2, <1>5 DEF PromoteCheck, Promoting
  <2>2. PICK row \in {tree[p], NoRow} :
          loop' = IF diskIsNewer(row, disk[p].mtime) /\ disk[p].hash \notin TooLarge
                  THEN [loop EXCEPT !.do = "put", !.path = p, !.owner = ownershipFor(p, row)]
                  ELSE Visited
    BY <1>5 DEF PromoteCheck
  <2>3. CASE loop' = Visited /\ ~(diskIsNewer(row, disk[p].mtime) /\ disk[p].hash \notin TooLarge)
    <3>1. p \in fresh => Settled(p)
      <4> SUFFICES ASSUME p \in fresh PROVE Settled(p)
        OBVIOUS
      <4>1. ~diskIsNewer(row, disk[p].mtime)
        BY <2>3 DEF FilesFit
      <4>2. row = tree[p]
        BY <2>2, <4>1 DEF diskIsNewer, NoRow
      <4>3. tree[p] \in Row /\ disk[p] \in File
        BY <1>1 DEF TypeOK
      <4> QED
        BY <4>1, <4>2, <4>3 DEF diskIsNewer, Settled, Row, File
    <3> QED
      BY <1>1, <1>3, <1>4, <2>1, <2>3, <3>1 DEF OnDisk, Settled
  <2>4. CASE loop' = [loop EXCEPT !.do = "put", !.path = p, !.owner = ownershipFor(p, row)]
    <3> HIDE DEF p
    <3>1. loop'.pc = loop.pc /\ loop'.todo = loop.todo /\ loop'.path = p
      BY <1>1, <2>4 DEF Loop
    <3> USE DEF p
    <3> QED
      BY <1>1, <1>4, <2>1, <3>1 DEF OnDisk, Settled
  <2> QED
    BY <2>2, <2>3, <2>4
<1>6. CASE ScanMissing
  <2>1. UNCHANGED <<tree, fresh>> /\ First(loop.todo) \notin OnDisk /\ loop' = Visited
    BY <1>6 DEF ScanMissing
  <2> QED
    BY <1>1, <1>3, <1>4, <2>1 DEF OnDisk, Settled
<1>7. CASE PromotePut
  <2> DEFINE p == loop.path
  <2>1. p = First(loop.todo) /\ p \in loop.todo /\ loop' = Visited /\ spent' = spent
    BY <1>7 DEF PromotePut, TypeOK, OffersSucceed
  <2>2. ~Spend("fault")
    BY <2>1 DEF Spend, TypeOK, EnvEvent
  <2>3. /\ fresh' \subseteq fresh /\ (p \in fresh => p \notin fresh')
        /\ \A q \in Path : q # p => tree'[q] = tree[q]
    <3>1. CASE fresh' = fresh \ {p} /\ PutFile(p, disk[p].hash, loop.owner)
      BY <3>1 DEF PutFile, TypeOK
    <3>2. CASE /\ p \notin OnDisk \/ disk[p].hash \in TooLarge
               /\ UNCHANGED <<tree, fresh>>
      BY <3>2 DEF FilesFit
    <3> QED
      BY <1>7, <2>2, <3>1, <3>2 DEF PromotePut
  <2> QED
    BY <1>1, <1>3, <1>4, <2>1, <2>3 DEF OnDisk, Settled
<1>8. CASE DeleteLocal
  <2> DEFINE p == First(loop.todo)
  <2>1. fresh' = fresh /\ p \notin OnDisk /\ loop.pc = "apply" /\ loop' = Visited
    BY <1>8 DEF DeleteLocal
  <2>2. \A q \in Path : q # p => tree'[q] = tree[q]
    BY <1>8 DEF DeleteLocal, TypeOK
  <2> QED
    BY <1>1, <1>3, <1>4, <2>1, <2>2 DEF OnDisk, Settled
<1>9. CASE ApplyDone
  <2>1. UNCHANGED <<tree, fresh>> /\ loop.pc = "apply" /\ loop'.do = "none" /\ loop'.pc = "select"
    BY <1>9 DEF ApplyDone, At
  <2> QED
    BY <1>1, <1>4, <2>1 DEF OnDisk, Settled
<1> QED
  BY <1>5, <1>6, <1>7, <1>8, <1>9

\* render: what it replaces or removes is no longer fresh.
LEMMA RenderFresh ==
  ASSUME TypeOK, FreshInv,
         RenderCheck \/ RenderWrite \/ RenderDone \/ RemoveTombstoned \/ SweepDone
  PROVE  FreshInv'
<1> USE DEF FreshInv, OffersFirst, watcher
<1>1. loop \in Loop /\ fresh \subseteq Path
  BY DEF TypeOK, Loop
<1>2. tree' = tree /\ loop.pc \in {"render", "sweep"}
  BY DEF RenderCheck, RenderWrite, RenderDone, RemoveTombstoned, SweepDone, TypeOK
<1>3. loop'.do # "put" /\ loop'.pc # "down"
  <2>1. CASE loop' = Rendered
    BY <1>1, <1>2, <2>1, VisitType
  <2>2. CASE loop' = [loop EXCEPT !.do = "write"]
    BY <1>1, <1>2, <2>2 DEF Loop
  <2>3. CASE RenderDone \/ SweepDone
    BY <2>3 DEF RenderDone, SweepDone, At
  <2>4. CASE RemoveTombstoned
    BY <1>1, <2>4 DEF RemoveTombstoned, Loop, TypeOK
  <2> QED
    BY <2>1, <2>2, <2>3, <2>4 DEF RenderCheck, RenderWrite
<1>4. fresh' \subseteq fresh /\ \A q \in fresh' : disk'[q] = disk[q]
  <2>1. CASE UNCHANGED <<disk, fresh>>
    BY <2>1
  <2>2. ASSUME NEW e, NEW owner, NEW hash, NEW mtime, ApplyMeta(e, owner, hash, mtime),
               fresh' = fresh \ {e.path}
        PROVE  fresh' \subseteq fresh /\ \A q \in fresh' : disk'[q] = disk[q]
    BY <1>1, <2>2 DEF ApplyMeta, TypeOK
  <2>3. CASE RemoveTombstoned
    <3>1. PICK p \in loop.todo :
            \/ disk' = [disk EXCEPT ![p] = NoFile] /\ fresh' = fresh \ {p}
            \/ UNCHANGED <<disk, fresh>>
      BY <2>3 DEF RemoveTombstoned
    <3> QED
      BY <1>1, <3>1 DEF TypeOK
  <2>4. ASSUME NEW e, NEW file, disk' = [disk EXCEPT ![e.path] = file],
               fresh' = fresh \ {e.path}
        PROVE  fresh' \subseteq fresh /\ \A q \in fresh' : disk'[q] = disk[q]
    BY <1>1, <2>4 DEF TypeOK
  <2> QED
    BY <2>1, <2>2, <2>3, <2>4 DEF RenderCheck, RenderWrite, RenderDone, SweepDone
<1> QED
  BY <1>1, <1>2, <1>3, <1>4 DEF OnDisk, Settled

\* The start, the choices of Run, pump, time, and the end.
LEMMA RunFresh ==
  ASSUME TypeOK, FreshInv,
         \/ Start \/ ScanDone \/ SelectChanged \/ SelectEvents \/ SelectTick \/ Stop \/ Tick
         \/ Deliver \/ Flush \/ LoseEvent
  PROVE  FreshInv'
<1> USE DEF FreshInv, OffersFirst, watcher
<1>1. UNCHANGED <<tree, disk, fresh>> /\ fresh \subseteq Path
  BY DEF Start, ScanDone, SelectChanged, SelectEvents, SelectTick, Stop, Tick, Deliver,
     Flush, LoseEvent, TypeOK
<1>2. ASSUME NEW b \in BOOLEAN PROVE Rendering(b).pc = "render" /\ Rendering(b).do = "none"
  BY RenderingType DEF TypeOK
<1>3. CASE Start
  <2>1. loop'.pc = "scan" /\ loop'.todo = OnDisk /\ loop'.do = "none"
    BY <1>3 DEF Start, At
  <2> QED
    BY <1>1, <2>1 DEF OnDisk
<1>4. CASE Stop
  <2>1. loop'.pc = "down" /\ loop'.do = "none"
    BY <1>4 DEF Stop, At
  <2> QED
    BY <1>1, <2>1 DEF OnDisk
<1>5. CASE loop' = loop
  BY <1>1, <1>5 DEF OnDisk, Settled
<1>6. CASE ScanDone \/ SelectChanged \/ SelectEvents \/ SelectTick
  <2>1. \A p \in fresh : Settled(p)
    BY <1>6 DEF ScanDone, SelectChanged, SelectEvents, SelectTick
  <2>2. loop'.do = "none"
    <3>1. CASE ScanDone \/ SelectChanged
      BY <1>2, <3>1 DEF ScanDone, SelectChanged, TypeOK, Loop
    <3>2. CASE SelectEvents \/ SelectTick
      BY <3>2 DEF SelectEvents, SelectTick, At
    <3> QED
      BY <1>6, <3>1, <3>2
  <2> QED
    BY <1>1, <2>1, <2>2 DEF OnDisk, Settled
<1> QED
  BY <1>3, <1>4, <1>5, <1>6 DEF Tick, Deliver, Flush, LoseEvent

\* Only render changes what is in a file, and only after the scan.
LEMMA RenderReplaces ==
  ASSUME TypeOK, FreshInv, [Next]_vars, ByMirror, NEW p \in fresh,
         disk'[p].hash # disk[p].hash
  PROVE  Settled(p)
<1>1. loop' # loop /\ disk' # disk
  BY DEF ByMirror
<1>2. CASE RenderCheck \/ RenderWrite \/ RemoveTombstoned
  <2>1. loop.pc \in {"render", "sweep"}
    BY <1>2 DEF RenderCheck, RenderWrite, RemoveTombstoned, TypeOK
  <2> QED
    BY <2>1 DEF FreshInv
<1> QED
  BY <1>1, <1>2
  DEF Next, RunStep, vars, watcher, Start, PromoteCheck, ScanMissing, PromotePut, DeleteLocal,
      ApplyDone, ScanDone, RenderDone, SweepDone, SelectChanged, SelectEvents,
      SelectTick, Deliver, Flush, LoseEvent, Stop, Tick, UserRemove, PeerWrite, UserEdit

\* The mirror replaces or removes a file that a user wrote while the daemon was
\* stopped only for a version at least as new or a deletion, whatever peers write,
\* users remove and events get lost, and wherever the process ends. Each hypothesis
\* is needed: EditOverwritten.cfg, OversizedEdit.cfg, OfferFails.cfg and
\* CreatedAgain.cfg each drop one.
THEOREM MirrorKeepsOfflineEdits ==
  Spec /\ [][StaysDeleted /\ EditsWhenDown /\ OffersSucceed]_vars /\ []FilesFit
    => NoUserFileClobbered
<1> DEFINE Quiet == StaysDeleted /\ EditsWhenDown /\ OffersSucceed
<1>1. Init => FreshInv
  BY DEF Init, FreshInv, OffersFirst, At
<1>2. TypeOK /\ FreshInv /\ FilesFit /\ [Next]_vars /\ [Quiet]_vars => FreshInv'
  <2> SUFFICES ASSUME TypeOK, FreshInv, FilesFit, [Next]_vars, [Quiet]_vars PROVE FreshInv'
    OBVIOUS
  <2>1. CASE UNCHANGED vars
    BY <2>1 DEF vars, watcher, FreshInv, OffersFirst, Settled, OnDisk
  <2>2. CASE Quiet /\ Next
    BY <2>2, UserFresh, PromoteFresh, RenderFresh, RunFresh DEF Next, RunStep
  <2> QED
    BY <2>1, <2>2
<1>3. TypeOK /\ FreshInv /\ [Next]_vars =>
        [\A p \in fresh : ByMirror /\ disk'[p].hash # disk[p].hash =>
           \/ tree[p].state = "deleted"
           \/ tree[p].state = "live" /\ tree[p].wall >= disk[p].mtime]_vars
  BY RenderReplaces DEF Settled
<1> QED
  BY <1>1, <1>2, <1>3, MirrorTypeOK, PTL DEF Spec, NoUserFileClobbered
=============================================================================
