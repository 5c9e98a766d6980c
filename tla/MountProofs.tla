---------------------------- MODULE MountProofs ----------------------------
(***************************************************************************)
(* The mount, for any number of descriptors, names, contents, nodes,       *)
(* writes and failures. Its calls and buffers are proved about on top of   *)
(* what ReplicationProofs, VersionProofs and RefinementProofs prove of any *)
(* step of the cluster: a call that writes is an Operation of the mounted  *)
(* node.                                                                   *)
(***************************************************************************)
EXTENDS Mount, RefinementProofs

---------------------------------------------------------------------------
(* The invariant. *)

\* Files have content, directories and tombstones have none.
Proper(m) == m.hash \in Content <=> m.kind = "file" /\ ~m.deleted

\* An entry that n may store: proper, and within n's size limit.
Fine(n, m) == Proper(m) /\ m.hash \notin TooLarge[n]

\* What a node stores or is about to store is fine; what it has been sent and
\* has not looked at is proper.
EntriesFine ==
  \A n \in Node :
    /\ \A m \in rows[n] : Fine(n, m)
    /\ \A q \in Node : /\ \A m \in pull[n][q].batch : Fine(n, m)
                       /\ \A m \in pull[n][q].page : Proper(m)

\* The handle of an open descriptor, whose buffer fits.
OpenFile ==
  [open : {TRUE}, path : Path, buf : Content \ TooLarge[Mounted], attr : Attr,
   dirty : BOOLEAN, seen : Sights, expects : Content, saved : Content]

\* When the buffer is clean and current the tree has accepted it, unless the kernel
\* truncates at open and the tree is not told (TruncateUnsaved.cfg).
Settled(r) ==
  ~AtomicTrunc /\ ~r.dirty /\ r.buf = r.expects => r.saved = r.expects

\* What a descriptor may be.
FileState == {Closed} \cup {r \in OpenFile : Settled(r)}

\* Every descriptor is one of these.
HandlesOK == handle \in [Handle -> FileState]

\* The rows a Lookup finds.
LiveRow == {m \in Meta : ~m.deleted /\ Proper(m)}

\* The calls in progress, each with its operands.
MakeCall == [op : {"create", "mkdir"}, path : Path, attr : Attr]
RemoveCall == [op : {"remove"}, row : LiveRow]
RenameCall == [op : {"copy", "delete"}, row : LiveRow, to : Path, ver : Version,
               seen : Sights]
TruncateCall == [op : {"truncate"}, row : LiveRow, attr : Attr, content : Content,
                 fh : Handle \cup {"none"}]
AttrCall == [op : {"attr"}, row : LiveRow, attr : Attr]

\* No call or one of them.
CallState ==
  {NoCall} \cup MakeCall \cup RemoveCall \cup RenameCall \cup TruncateCall
    \cup AttrCall

\* The call in progress has the operands of its kind.
CallOK == call \in CallState

\* BuffersFit and SuccessMeansStored are about buffers; an Open fills one from the
\* tree, and what the tree holds rests on what every pull prepares.
MountInv == SafetyInv /\ EntriesFine /\ HandlesOK /\ CallOK

\* A tombstone is not collected between the two writes of a rename to its path.
TombstoneOutlivesRename ==
  call.op = "delete" =>
    \A m \in Expired(rows[Mounted], physical(Mounted) - TombstoneTTL) :
      m.path # call.to

\* Between the two writes of a rename the copy, or something newer, is there.
CopyKept ==
  call.op = "delete" =>
    \E m \in rows[Mounted] :
      /\ m.path = call.to
      /\ (m.ver = call.ver /\ m.hash = call.row.hash) \/ After(m.ver, call.ver)

---------------------------------------------------------------------------
(* Entries, in any step of the cluster. *)

\* The empty hash is within every limit, and Mounted is a node.
LEMMA Limits ==
  /\ NoHash \notin Content /\ Mounted \in Node
  /\ \A n \in Node : TooLarge[n] \subseteq Content /\ NoHash \notin TooLarge[n]
  BY StoreAssumption, ReplicationAssumption, MountAssumption

\* Being fine is a matter of the write, not of the feed position.
LEMMA FineSame ==
  ASSUME NEW n, NEW a, NEW b, Same(a, b)
  PROVE  (Proper(b) => Proper(a)) /\ (Fine(n, b) => Fine(n, a))
  BY DEF Same, Proper, Fine

\* An operation writes a fine row.
LEMMA WritableFine ==
  ASSUME EntriesFine, NEW n \in Node, NEW m \in Meta, Writable(n, m)
  PROVE  Fine(n, m)
<1>1. \A cur \in Live(rows[n]) : Fine(n, cur)
  BY DEF EntriesFine, Live
<1> QED
  BY <1>1, Limits DEF Writable, Fine, Proper, Meta

\* The local operations, users' and the mount's.
LEMMA OperationFine ==
  ASSUME TypeOK, EntriesFine, NEW n \in Node,
         UserWrite(n) \/ \E seen \in Sights : Operation(n, seen)
  PROVE  EntriesFine'
<1>1. PICK seen : Operation(n, seen)
  BY UserOperates
<1>2. PICK m \in Meta : LocalWrite(n, m, seen) /\ Writable(n, m)
  BY <1>1, OperationRow
<1>3. Fine(n, m)
  BY <1>2, WritableFine
<1>4. /\ pull' = pull /\ \A i \in Node : i # n => rows'[i] = rows[i]
      /\ \/ rows'[n] = rows[n]
         \/ rows'[n] = Upsert(rows[n], AppendRow({}, 0, m), head[n])
  BY <1>2, LocalWriteEffect
<1>5. rows[n] \in SUBSET Meta /\ head[n] \in Nat
  BY Parts
<1>6. /\ AppendRow({}, 0, m) \in SUBSET Meta
      /\ \A b \in AppendRow({}, 0, m) : Same(b, m)
  BY AppendRowFacts, AppendRowSame
<1>7. \A e \in rows'[n] : e \in rows[n] \/ \E b \in AppendRow({}, 0, m) : Same(e, b)
  BY <1>4, <1>5, <1>6, UpsertSame
<1>8. \A e \in rows'[n] : Fine(n, e)
  BY <1>3, <1>6, <1>7, FineSame DEF EntriesFine
<1> QED
  BY <1>4, <1>8 DEF EntriesFine

\* A step of one pull that stores nothing.
LEMMA SetPullFine ==
  ASSUME TypeOK, EntriesFine, NEW n \in Node, NEW q \in Node, NEW r \in Pull,
         SetPull(n, q, r), rows' = rows,
         \A m \in r.batch : Fine(n, m), \A m \in r.page : Proper(m)
  PROVE  EntriesFine'
<1>1. /\ pull'[n][q] = r
      /\ \A i, j \in Node : i # n \/ j # q => pull'[i][j] = pull[i][j]
  BY SetPullType
<1> QED
  BY <1>1 DEF EntriesFine

\* The steps of a pull other than applying entries and committing.
LEMMA FetchFine ==
  ASSUME TypeOK, EntriesFine, NEW n \in Node, NEW q \in Node,
         \/ FetchDigest(n, q) \/ CompareDigest(n, q) \/ FetchPage(n, q)
         \/ LockWrite(n, q) \/ RecordBookmark(n, q) \/ AbortPull(n, q)
  PROVE  EntriesFine'
<1>1. PICK r \in Pull : /\ SetPull(n, q, r) /\ rows' = rows
                       /\ r.page \subseteq pull[n][q].page \cup rows[q]
                       /\ r.batch \subseteq pull[n][q].batch
  BY FetchEffect
<1>2. (\A m \in r.batch : Fine(n, m)) /\ (\A m \in r.page : Proper(m))
  BY <1>1 DEF EntriesFine, Fine
<1> QED
  BY <1>1, <1>2, SetPullFine

\* What applyRemote adds to its batch has passed validate, or was stored before.
LEMMA ApplyFine ==
  ASSUME TypeOK, EntriesFine, NEW n \in Node, NEW q \in Node, ApplyEntry(n, q)
  PROVE  EntriesFine'
<1>1. PICK m \in pull[n][q].page, r \in Pull :
           /\ m \in Meta /\ SetPull(n, q, r) /\ rows' = rows
           /\ r.page = pull[n][q].page \ {m}
           /\ \A b \in r.batch : b \in pull[n][q].batch \/ Prepared(n, m, b)
  BY ApplyEffect
<1>2. ASSUME NEW b \in r.batch PROVE Fine(n, b)
  <2>1. CASE b \in pull[n][q].batch
    BY <2>1 DEF EntriesFine
  <2>2. CASE Prepared(n, m, b) /\ Same(b, m)
    <3>1. Fine(n, m)
      BY <2>2 DEF Prepared, Refused, Valid, Fine, EntriesFine
    <3> QED
      BY <2>2, <3>1, FineSame
  <2>3. CASE Decision(n, m) = "conflict" /\ Same(b, CopyFor(n, m))
    <3>1. m \in Meta /\ Decision(n, m) = "conflict"
      BY <1>1, <2>3
    <3>2. /\ Get(rows[n], m.path) \in rows[n]
          /\ CopyFor(n, m).kind = Get(rows[n], m.path).kind
          /\ CopyFor(n, m).hash = Get(rows[n], m.path).hash
          /\ CopyFor(n, m).deleted = Get(rows[n], m.path).deleted
      BY <3>1, CopyFacts
    <3>3. Fine(n, CopyFor(n, m))
      BY <3>2 DEF EntriesFine, Fine, Proper
    <3> QED
      BY <2>3, <3>3, FineSame
  <2> QED
    BY <1>1, <2>1, <2>2, <2>3 DEF Prepared
<1>3. \A e \in r.page : Proper(e)
  BY <1>1 DEF EntriesFine
<1> QED
  BY <1>1, <1>2, <1>3, SetPullFine

\* A commit stores what was prepared.
LEMMA CommitFine ==
  ASSUME TypeOK, EntriesFine, NEW n \in Node, NEW q \in Node, CommitPage(n, q)
  PROVE  EntriesFine'
<1> DEFINE r0 == pull[n][q]
           r == [r0 EXCEPT !.pc = "mark", !.batch = {}, !.count = 0]
<1>1. /\ r0 \in Pull /\ rows[n] \in SUBSET Meta /\ head[n] \in Nat
      /\ rows \in [Node -> SUBSET Meta]
  BY Parts DEF TypeOK
<1>2. r \in Pull /\ r.page = r0.page /\ r.batch = {} /\ r0.batch \in SUBSET Meta
  BY <1>1 DEF Pull
<1>3. SetPull(n, q, r)
  BY DEF CommitPage
<1>4. /\ rows'[n] = Upsert(rows[n], r0.batch, head[n])
      /\ \A i \in Node : i # n => rows'[i] = rows[i]
  BY <1>1 DEF CommitPage
<1> HIDE DEF r
<1>5. /\ pull'[n][q] = r
      /\ \A i, j \in Node : i # n \/ j # q => pull'[i][j] = pull[i][j]
  BY <1>2, <1>3, SetPullType
<1>6. \A e \in rows'[n] : e \in rows[n] \/ \E b \in r0.batch : Same(e, b)
  BY <1>1, <1>2, <1>4, UpsertSame
<1>7. \A e \in rows'[n] : Fine(n, e)
  BY <1>6, FineSame DEF EntriesFine
<1> QED
  BY <1>2, <1>4, <1>5, <1>7 DEF EntriesFine

\* Every step of the cluster and every operation keeps entries fine.
LEMMA EntriesStep ==
  ASSUME TypeOK, EntriesFine, Step
  PROVE  EntriesFine'
<1>1. CASE UNCHANGED <<rows, pull>>
  BY <1>1 DEF EntriesFine
<1>2. ASSUME NEW n \in Writer, UserWrite(n) PROVE EntriesFine'
  BY <1>2, OperationFine, ReplicationAssumption
<1>3. ASSUME NEW n \in Node, NEW q \in Peers(n),
             PullStep(n, q) \/ LockWrite(n, q) \/ AbortPull(n, q)
      PROVE  EntriesFine'
  <2>1. q \in Node
    BY DEF Peers
  <2> QED
    BY <1>3, <2>1, FetchFine, ApplyFine, CommitFine DEF PullStep
<1>4. ASSUME NEW n \in Node, Collect(n) \/ Restart(n) \/ Wipe(n)
      PROVE  EntriesFine'
  <2>1. /\ rows \in [Node -> SUBSET Meta] /\ pull \in [Node -> [Node -> Pull]]
    BY DEF TypeOK
  <2>2. \A i \in Node : rows'[i] \subseteq rows[i]
    BY <1>4, <2>1 DEF Collect, Restart, Wipe, store
  <2>3. \A i, j \in Node : pull'[i][j] = pull[i][j] \/ pull'[i][j] = Idle
    BY <1>4, <2>1 DEF Collect, Restart, Wipe
  <2>4. Idle.page = {} /\ Idle.batch = {}
    BY DEF Idle
  <2> QED
    BY <2>2, <2>3, <2>4 DEF EntriesFine
<1>5. ASSUME NEW n \in Node, NEW seen \in Sights, Operation(n, seen)
      PROVE  EntriesFine'
  BY <1>5, OperationFine
<1> QED
  BY <1>1, <1>2, <1>3, <1>4, <1>5 DEF Next, Step, Tick, store, vars

---------------------------------------------------------------------------
(* The state of the mount. *)

\* A call in progress has the operands of its kind.
LEMMA CallParts ==
  ASSUME CallOK
  PROVE  /\ call.op \in {"create", "mkdir"} => call \in MakeCall
         /\ call.op = "remove" => call \in RemoveCall
         /\ call.op \in {"copy", "delete"} => call \in RenameCall
         /\ call.op = "truncate" => call \in TruncateCall
         /\ call.op = "attr" => call \in AttrCall
  BY DEF CallOK, CallState, NoCall, MakeCall, RemoveCall, RenameCall,
         TruncateCall, AttrCall

\* What Lookup finds can be opened, renamed and removed.
LEMMA AtFacts ==
  ASSUME MountInv, NEW p, NEW m \in At(p)
  PROVE  /\ m \in LiveRow /\ m \in Meta /\ m \in rows[Mounted] /\ m.path = p
         /\ ~m.deleted /\ m.hash \notin TooLarge[Mounted]
         /\ m.kind = "file" => m.hash \in Content
         /\ {m.hash} \in Sights
<1>1. m \in rows[Mounted] /\ m.path = p /\ ~m.deleted
  BY DEF At, Live
<1>2. rows[Mounted] \in SUBSET Meta
  BY Limits, Parts DEF MountInv, SafetyInv
<1>3. Fine(Mounted, m) /\ m \in Meta
  BY <1>1, <1>2, Limits DEF MountInv, EntriesFine
<1>4. m.hash \in Content \cup {NoHash}
  BY <1>3 DEF Meta
<1> QED
  BY <1>1, <1>3, <1>4 DEF Fine, Proper, LiveRow, Sights

\* The names of the mount are paths.
LEMMA NamesType ==
  ASSUME MountInv
  PROVE  Names \subseteq Path
  BY Limits, UserPathsType DEF Names, MountInv, SafetyInv

\* An open descriptor has a file behind it.
LEMMA HandleParts ==
  ASSUME HandlesOK, NEW h \in Handle
  PROVE  /\ handle[h] \in FileState
         /\ handle[h].open => handle[h] \in OpenFile /\ Settled(handle[h])
  BY DEF HandlesOK, FileState, Closed

\* A step that replaces one handle.
LEMMA SetHandle ==
  ASSUME HandlesOK, NEW h \in Handle, NEW r \in FileState,
         handle' = [handle EXCEPT ![h] = r]
  PROVE  HandlesOK'
  BY DEF HandlesOK

\* A handle on content that fits, and that the tree has.
LEMMA OpenHandleType ==
  ASSUME NEW p \in Path, NEW c \in Content, c \notin TooLarge[Mounted],
         NEW a \in Attr, NEW seen \in Sights, NEW saved \in Content,
         AtomicTrunc \/ saved = c
  PROVE  OpenHandle(p, c, a, seen, c, saved) \in FileState
<1> DEFINE r == OpenHandle(p, c, a, seen, c, saved)
<1>1. r \in OpenFile /\ r.saved = saved /\ r.expects = c
  BY DEF OpenHandle, OpenFile
<1> QED
  BY <1>1 DEF Settled, FileState

---------------------------------------------------------------------------
(* Open files. *)

\* A write stays within the limit.
LEMMA WriteKeeps ==
  ASSUME MountInv, NEW h \in Handle, NEW c \in Content, Write(h, c)
  PROVE  HandlesOK' /\ CallOK' /\ UNCHANGED vars
<1>1. handle[h] \in OpenFile /\ HandlesOK
  BY HandleParts DEF MountInv, Write
<1>2. PICK b \in Content :
        /\ b \notin TooLarge[Mounted]
        /\ handle' = [handle EXCEPT ![h].buf = b, ![h].expects = c, ![h].dirty = TRUE]
  BY DEF Write
<1> DEFINE r == [handle[h] EXCEPT !.buf = b, !.expects = c, !.dirty = TRUE]
<1>3. handle' = [handle EXCEPT ![h] = r]
  BY <1>1, <1>2 DEF HandlesOK
<1>4. r \in OpenFile /\ r.dirty
  BY <1>1, <1>2 DEF OpenFile
<1>5. r \in FileState
  BY <1>4 DEF FileState, Settled
<1> HIDE DEF r
<1> QED
  BY <1>1, <1>3, <1>5, SetHandle DEF Write, MountInv, CallOK

\* An Open takes what the tree has, or nothing.
LEMMA OpenKeeps ==
  ASSUME MountInv, NEW h \in Handle, NEW p \in Names, Open(h, p)
  PROVE  HandlesOK' /\ CallOK' /\ UNCHANGED vars
<1>1. PICK m \in At(p), trunc \in {FALSE, AtomicTrunc} :
        /\ m.kind = "file"
        /\ handle' = [handle EXCEPT ![h] =
                        OpenHandle(p, IF trunc THEN Empty ELSE m.hash, m.attr,
                                   {m.hash}, IF trunc THEN Empty ELSE m.hash, m.hash)]
  BY DEF Open
<1>2. /\ m \in Meta /\ m.hash \in Content /\ m.hash \notin TooLarge[Mounted]
      /\ {m.hash} \in Sights /\ m.attr \in Attr /\ p \in Path
  BY <1>1, AtFacts, NamesType DEF Meta
<1> DEFINE c == IF trunc THEN Empty ELSE m.hash
<1>3. Empty \in Content /\ Empty \notin TooLarge[Mounted]
  BY Limits, MountAssumption
<1>4. c \in Content /\ c \notin TooLarge[Mounted]
  BY <1>2, <1>3
<1>5. AtomicTrunc \/ m.hash = c
  <2>1. ASSUME ~AtomicTrunc PROVE ~trunc
    <3>1. AtomicTrunc = FALSE
      BY <2>1, MountAssumption
    <3> QED
      BY <3>1
  <2> QED
    BY <2>1
<1> HIDE DEF c
<1>6. OpenHandle(p, c, m.attr, {m.hash}, c, m.hash) \in FileState
  BY <1>2, <1>4, <1>5, OpenHandleType
<1>7. handle' = [handle EXCEPT ![h] = OpenHandle(p, c, m.attr, {m.hash}, c, m.hash)]
  BY <1>1 DEF c
<1>8. HandlesOK'
  BY <1>6, <1>7, SetHandle DEF MountInv
<1> QED
  BY <1>8 DEF Open, MountInv, CallOK

\* A flush keeps the buffer: it is clean and saved, or as it was.
LEMMA AfterFlushType ==
  ASSUME NEW r \in OpenFile, Settled(r), NEW ok \in BOOLEAN
  PROVE  AfterFlush(r, ok) \in FileState
<1>1. CASE ok
  <2> DEFINE f == [r EXCEPT !.dirty = FALSE, !.seen = {r.buf}, !.saved = r.buf]
  <2>1. {r.buf} \in Sights /\ r.buf \in Content
    BY DEF OpenFile, Sights
  <2>2. f \in OpenFile /\ f.saved = r.buf /\ f.buf = r.buf
    BY <2>1 DEF OpenFile
  <2>3. f \in FileState
    BY <2>2 DEF FileState, Settled
  <2> QED
    BY <1>1, <2>3 DEF AfterFlush
<1>2. CASE ~ok
  BY <1>2 DEF AfterFlush, FileState
<1> QED
  BY <1>1, <1>2

\* A close writes the buffer, or nothing.
LEMMA FlushKeeps ==
  ASSUME MountInv, NEW h \in Handle, Flush(h)
  PROVE  /\ HandlesOK' /\ CallOK'
         /\ UNCHANGED vars \/ \E seen \in Sights : Operation(Mounted, seen)
<1>1. handle[h] \in OpenFile /\ Settled(handle[h])
  BY HandleParts DEF MountInv, Flush
<1>2. PICK r \in {AfterFlush(handle[h], ok) : ok \in BOOLEAN} \cup {Closed} :
        handle' = [handle EXCEPT ![h] = r]
  BY DEF Flush
<1>3. r \in FileState
  BY <1>1, <1>2, AfterFlushType DEF FileState
<1>4. HandlesOK'
  BY <1>2, <1>3, SetHandle DEF MountInv
<1>5. \/ UNCHANGED vars
      \/ PutFile(Mounted, handle[h].path, handle[h].buf, handle[h].attr, handle[h].seen)
  BY DEF Flush, MountPutFile, TreeWrite
<1>6. /\ handle[h].path \in Path /\ handle[h].buf \in Content
      /\ handle[h].attr \in Attr /\ handle[h].seen \in Sights
  BY <1>1 DEF OpenFile
<1>7. CallOK'
  BY DEF Flush, MountInv, CallOK
<1> QED
  BY <1>4, <1>5, <1>6, <1>7 DEF Operation

---------------------------------------------------------------------------
(* Calls about names and attributes. *)

\* The start of a call reads the tree and writes nothing.
LEMMA BeginKeeps ==
  ASSUME MountInv, NEW p \in Names,
         \/ \E op \in {"create", "mkdir"}, a \in Attr : BeginMake(op, p, a)
         \/ BeginRemove(p)
         \/ \E to \in Names : BeginRename(p, to)
         \/ \E h \in Handle \cup {"none"} : BeginSetattr(p, h)
  PROVE  HandlesOK' /\ CallOK' /\ UNCHANGED vars /\ call'.op # "delete"
<1>1. p \in Path /\ \A to \in Names : to \in Path
  BY NamesType
<1>2. HandlesOK' /\ UNCHANGED vars
  BY DEF BeginMake, BeginRemove, BeginRename, BeginSetattr, Begin, MountInv, HandlesOK
<1>3. CASE \E op \in {"create", "mkdir"}, a \in Attr : BeginMake(op, p, a)
  <2>1. call' \in MakeCall
    BY <1>1, <1>3 DEF BeginMake, Begin, MakeCall
  <2>2. call'.op # "delete"
    BY <1>3 DEF BeginMake, Begin
  <2> QED
    BY <1>2, <2>1, <2>2 DEF CallOK, CallState
<1>4. CASE BeginRemove(p)
  <2>1. PICK m \in At(p) : call' = [op |-> "remove", row |-> m]
    BY <1>4 DEF BeginRemove, Begin
  <2>2. call' \in RemoveCall /\ call'.op # "delete"
    BY <2>1, AtFacts DEF RemoveCall
  <2> QED
    BY <1>2, <2>2 DEF CallOK, CallState
<1>5. ASSUME NEW to \in Names, BeginRename(p, to)
      PROVE  CallOK' /\ call'.op # "delete"
  <2> DEFINE seen == IF Exchange THEN {} ELSE {HashAt(rows[Mounted], to)}
  <2>1. PICK m \in At(p) :
          call' = [op |-> "copy", row |-> m, to |-> to, ver |-> m.ver, seen |-> seen]
    BY <1>5 DEF BeginRename, Begin
  <2>2. seen \in Sights
    <3>1. rows[Mounted] \in SUBSET Meta
      BY Limits, Parts DEF MountInv, SafetyInv
    <3> QED
      BY <3>1, HashAtType DEF Sights
  <2> HIDE DEF seen
  <2>3. m \in LiveRow /\ m.ver \in Version /\ to \in Path
    BY <1>1, AtFacts, VersionParts
  <2>4. call' \in RenameCall /\ call'.op # "delete"
    BY <2>1, <2>2, <2>3 DEF RenameCall
  <2> QED
    BY <2>4 DEF CallOK, CallState
<1>6. ASSUME NEW h \in Handle \cup {"none"}, BeginSetattr(p, h)
      PROVE  CallOK' /\ call'.op # "delete"
  <2>1. PICK m \in At(p), a \in Attr :
          \/ /\ m.kind = "file"
             /\ \E c \in Resized[m.hash] :
                  call' = [op |-> "truncate", row |-> m, attr |-> a, content |-> c, fh |-> h]
          \/ call' = [op |-> "attr", row |-> m, attr |-> a]
    BY <1>6 DEF BeginSetattr, Begin
  <2>2. m \in LiveRow /\ (m.kind = "file" => m.hash \in Content)
    BY AtFacts
  <2>3. m.kind = "file" => Resized[m.hash] \subseteq Content
    BY <2>2, MountAssumption
  <2>4. call' \in TruncateCall \cup AttrCall /\ call'.op # "delete"
    BY <2>1, <2>2, <2>3 DEF TruncateCall, AttrCall
  <2> QED
    BY <2>4 DEF CallOK, CallState
<1> QED
  BY <1>2, <1>3, <1>4, <1>5, <1>6

\* What a call's write is to the cluster: nothing, or an operation.
Operates == UNCHANGED vars \/ \E seen \in Sights : Operation(Mounted, seen)

\* PutFile, PutDir and the rest with proper operands.
LEMMA OperatesWith ==
  ASSUME MountInv, NEW seen \in Sights,
         \/ \E p \in Path, c \in Content, a \in Attr : PutFile(Mounted, p, c, a, seen)
         \/ \E p \in Path, a \in Attr : PutDir(Mounted, p, a, seen)
         \/ \E p \in Path, a \in Attr : \E cur \in At(p) :
              SetAttr(Mounted, cur, a) /\ seen = {}
         \/ \E p \in Path : \E cur \in At(p) : Delete(Mounted, cur, seen)
  PROVE  Operates
<1>1. \A p : At(p) \subseteq rows[Mounted]
  BY DEF At, Live
<1> QED
  BY <1>1 DEF Operates, Operation

\* A call that is over.
LEMMA DoneKeeps ==
  ASSUME Done
  PROVE  CallOK' /\ call'.op # "delete"
  BY DEF Done, CallOK, CallState, NoCall

\* Create.
LEMMA CreateKeeps ==
  ASSUME MountInv, Create
  PROVE  HandlesOK' /\ CallOK' /\ Operates /\ call'.op # "delete"
<1>1. call \in MakeCall /\ HandlesOK
  BY CallParts DEF Create, MountInv
<1>2. /\ call.path \in Path /\ call.attr \in Attr /\ {} \in Sights /\ {Empty} \in Sights
      /\ Empty \in Content /\ Empty \notin TooLarge[Mounted]
  BY <1>1, Limits, MountAssumption DEF MakeCall, Sights
<1>3. UNCHANGED vars \/ PutFile(Mounted, call.path, Empty, call.attr, {})
  BY DEF Create, MountPutFile, TreeWrite
<1>4. Operates
  BY <1>2, <1>3, OperatesWith DEF Operates
<1>5. \/ handle' = handle
      \/ \E h \in Handle : handle' = [handle EXCEPT ![h] =
           OpenHandle(call.path, Empty, call.attr, {Empty}, Empty, Empty)]
  BY DEF Create, MountPutFile, TreeWrite
<1>6. OpenHandle(call.path, Empty, call.attr, {Empty}, Empty, Empty) \in FileState
  BY <1>2, OpenHandleType
<1>7. HandlesOK'
  BY <1>1, <1>5, <1>6, SetHandle DEF HandlesOK
<1>8. Done
  BY DEF Create
<1> QED
  BY <1>4, <1>7, <1>8, DoneKeeps

\* Mkdir, Unlink and Rmdir, the second half of Rename, and Setattr of attributes.
LEMMA LastWriteKeeps ==
  ASSUME MountInv, Mkdir \/ Remove \/ SetattrMode
  PROVE  HandlesOK' /\ CallOK' /\ Operates /\ call'.op # "delete"
<1>1. Done /\ HandlesOK'
  BY DEF Mkdir, Remove, SetattrMode, MountInv, HandlesOK
<1>2. CASE Mkdir
  <2>1. call.path \in Path /\ call.attr \in Attr /\ {} \in Sights
    BY <1>2, CallParts DEF Mkdir, MountInv, MakeCall, Sights
  <2>2. UNCHANGED vars \/ PutDir(Mounted, call.path, call.attr, {})
    BY <1>2 DEF Mkdir, TreeWrite
  <2> QED
    BY <1>1, <2>1, <2>2, OperatesWith, DoneKeeps DEF Operates
<1>3. CASE Remove
  <2>1. call.row \in LiveRow
    BY <1>3, CallParts DEF Remove, MountInv, RemoveCall, RenameCall
  <2>2. call.row.path \in Path /\ {call.row.hash} \in Sights
    BY <2>1 DEF LiveRow, Meta, Sights
  <2>3. UNCHANGED vars \/ \E cur \in At(call.row.path) :
                            Delete(Mounted, cur, {call.row.hash})
    BY <1>3 DEF Remove, MountDelete, TreeWrite
  <2> QED
    BY <1>1, <2>2, <2>3, OperatesWith, DoneKeeps DEF Operates
<1>4. CASE SetattrMode
  <2>1. call.row \in LiveRow /\ call.attr \in Attr
    BY <1>4, CallParts DEF SetattrMode, MountInv, AttrCall
  <2>2. call.row.path \in Path /\ {} \in Sights
    BY <2>1 DEF LiveRow, Meta, Sights
  <2>3. UNCHANGED vars \/ \E cur \in At(call.row.path) :
                            SetAttr(Mounted, cur, call.attr)
    BY <1>4 DEF SetattrMode, TreeWrite
  <2> QED
    BY <1>1, <2>1, <2>2, <2>3, OperatesWith, DoneKeeps DEF Operates
<1> QED
  BY <1>2, <1>3, <1>4

\* The first half of Rename.
LEMMA RenameCopyOperates ==
  ASSUME MountInv, RenameCopy
  PROVE  HandlesOK' /\ Operates
<1>1. call \in RenameCall /\ HandlesOK'
  BY CallParts DEF RenameCopy, MountInv, HandlesOK
<1>2. /\ call.row \in LiveRow /\ call.to \in Path /\ call.seen \in Sights
      /\ call.row.attr \in Attr
  BY <1>1 DEF RenameCall, LiveRow, Meta
<1>3. call.row.kind = "file" => call.row.hash \in Content
  BY <1>2 DEF LiveRow, Proper
<1>4. \/ UNCHANGED vars
      \/ PutDir(Mounted, call.to, call.row.attr, call.seen)
      \/ /\ call.row.kind = "file"
         /\ PutFile(Mounted, call.to, call.row.hash, call.row.attr, call.seen)
  BY DEF RenameCopy, MountPutFile, TreeWrite
<1> QED
  BY <1>1, <1>2, <1>3, <1>4, OperatesWith DEF Operates

\* Setattr of a size.
LEMMA SetattrSizeKeeps ==
  ASSUME MountInv, SetattrSize
  PROVE  HandlesOK' /\ CallOK' /\ Operates /\ call'.op # "delete"
<1>1. call \in TruncateCall /\ HandlesOK
  BY CallParts DEF SetattrSize, MountInv
<1>2. /\ call.row \in LiveRow /\ call.attr \in Attr /\ call.content \in Content
      /\ call.row.path \in Path /\ call.row.attr \in Attr /\ {call.row.hash} \in Sights
  BY <1>1 DEF TruncateCall, LiveRow, Meta, Sights
<1>3. UNCHANGED vars \/ PutFile(Mounted, call.row.path, call.content,
                               call.row.attr, {call.row.hash})
  BY DEF SetattrSize, MountPutFile, TreeWrite
<1>4. Operates
  BY <1>2, <1>3, OperatesWith DEF Operates
<1>5. Truncated \/ (Done /\ UNCHANGED handle)
  BY DEF SetattrSize, MountPutFile, TreeWrite
<1>6. CASE Truncated
  <2>1. call' \in {NoCall} \cup AttrCall /\ call'.op # "delete"
    BY <1>2, <1>6 DEF Truncated, AttrCall, NoCall
  <2>2. HandlesOK'
    <3>1. CASE ~(call.fh \in Handle /\ handle[call.fh].open)
      BY <1>1, <1>6, <3>1 DEF Truncated, HandlesOK
    <3>2. CASE call.fh \in Handle /\ handle[call.fh].open
      <4> DEFINE h == call.fh
                 r == [handle[h] EXCEPT !.expects = call.content, !.saved = call.content]
      <4>1. handle[h] \in OpenFile
        BY <1>1, <3>2, HandleParts
      <4>2. r \in OpenFile /\ r.saved = r.expects
        BY <1>2, <4>1 DEF OpenFile
      <4>3. r \in FileState
        BY <4>2 DEF FileState, Settled
      <4>4. handle' = [handle EXCEPT ![h] = r]
        BY <1>1, <1>6, <3>2 DEF Truncated, HandlesOK
      <4> HIDE DEF r
      <4> QED
        BY <1>1, <3>2, <4>3, <4>4, SetHandle
    <3> QED
      BY <3>1, <3>2
  <2> QED
    BY <1>4, <2>1, <2>2 DEF CallOK, CallState
<1>7. CASE Done /\ UNCHANGED handle
  BY <1>1, <1>4, <1>7, DoneKeeps DEF HandlesOK
<1> QED
  BY <1>5, <1>6, <1>7

---------------------------------------------------------------------------
(* What a write leaves at its path. *)

\* The one row of a path.
LEMMA GetIs ==
  ASSUME SafetyInv, NEW n \in Node, NEW a \in rows[n]
  PROVE  Have(rows[n], a.path) /\ Get(rows[n], a.path) = a
<1>1. Have(rows[n], a.path)
  BY DEF Have
<1>2. Get(rows[n], a.path) \in rows[n] /\ Get(rows[n], a.path).path = a.path
  BY <1>1, GetFacts
<1> QED
  BY <1>1, <1>2 DEF SafetyInv, FeedWellFormed, FeedOK

\* A commit leaves the row that was written.
LEMMA WroteRow ==
  ASSUME SafetyInv, SafetyInv', NEW n \in Node, NEW m \in Meta, NEW seen,
         LocalWrite(n, m, seen), head'[n] = head[n] + 1
  PROVE  /\ Have(rows'[n], m.path) /\ Get(rows'[n], m.path) \in rows'[n]
         /\ Get(rows'[n], m.path).path = m.path
         /\ Get(rows'[n], m.path).hash = m.hash
<1>1. /\ rows \in [Node -> SUBSET Meta] /\ head \in [Node -> Nat]
      /\ head[n] \in Nat /\ rows[n] \in SUBSET Meta
  BY Parts DEF SafetyInv, TypeOK
<1>2. head'[n] # head[n]
  BY <1>1
<1>3. rows'[n] = Upsert(rows[n], AppendRow({}, 0, m), head[n])
  BY <1>1, <1>2 DEF LocalWrite, CommitLocal
<1> DEFINE b == [m EXCEPT !.seq = 0 + 1]
           a == [b EXCEPT !.seq = head[n] + b.seq]
<1>4. b \in AppendRow({}, 0, m)
  BY DEF AppendRow
<1>5. b \in Meta /\ b.path = m.path /\ b.hash = m.hash /\ b.seq \in Nat
  BY RestampType DEF Meta
<1>6. a \in rows'[n]
  BY <1>3, <1>4 DEF Upsert
<1> HIDE DEF b
<1>7. a.path = m.path /\ a.hash = m.hash
  BY <1>1, <1>5, RestampType
<1> HIDE DEF a
<1>8. /\ Have(rows'[n], a.path) /\ Get(rows'[n], a.path) \in rows'[n]
      /\ Get(rows'[n], a.path).path = a.path
  <2>1. Have(rows'[n], a.path)
    BY <1>6 DEF Have
  <2> QED
    BY <2>1, GetFacts
<1>9. Get(rows'[n], a.path) = a
  BY <1>6, <1>8 DEF SafetyInv, FeedWellFormed, FeedOK
<1> QED
  BY <1>7, <1>8, <1>9

\* The rows the four operations leave, when they commit.
LEMMA OperationLeaves ==
  ASSUME SafetyInv, SafetyInv', Wrote, NEW p \in Path, NEW seen
  PROVE  /\ \A c \in Content, a \in Attr : PutFile(Mounted, p, c, a, seen) =>
              /\ Have(rows'[Mounted], p) /\ Get(rows'[Mounted], p) \in rows'[Mounted]
              /\ Get(rows'[Mounted], p).path = p /\ Get(rows'[Mounted], p).hash = c
         /\ \A a \in Attr : PutDir(Mounted, p, a, seen) =>
              /\ Have(rows'[Mounted], p) /\ Get(rows'[Mounted], p) \in rows'[Mounted]
              /\ Get(rows'[Mounted], p).path = p /\ Get(rows'[Mounted], p).hash = NoHash
         /\ \A a \in Attr : \A cur \in At(p) : SetAttr(Mounted, cur, a) =>
              Have(rows'[Mounted], p) /\ Get(rows'[Mounted], p).hash = cur.hash
<1>1. /\ TypeOK /\ Mounted \in Node /\ rows[Mounted] \in SUBSET Meta
      /\ Stamp(Mounted) \in Version /\ head'[Mounted] = head[Mounted] + 1
  BY Limits, Parts, StampType DEF SafetyInv, Wrote
<1>2. ASSUME NEW c \in Content, NEW a \in Attr, PutFile(Mounted, p, c, a, seen)
      PROVE  /\ Have(rows'[Mounted], p) /\ Get(rows'[Mounted], p) \in rows'[Mounted]
             /\ Get(rows'[Mounted], p).path = p /\ Get(rows'[Mounted], p).hash = c
  <2> DEFINE m == [path |-> p, kind |-> "file", hash |-> c,
                   prev |-> HashAt(rows[Mounted], p), attr |-> a, ver |-> Stamp(Mounted),
                   deleted |-> FALSE, deletedAt |-> 0, seq |-> 0]
  <2>1. m \in Meta /\ m.path = p /\ m.hash = c
    BY <1>1, HashAtType DEF Meta
  <2>2. LocalWrite(Mounted, m, seen)
    BY <1>2 DEF PutFile
  <2> HIDE DEF m
  <2> QED
    BY <1>1, <2>1, <2>2, WroteRow
<1>3. ASSUME NEW a \in Attr, PutDir(Mounted, p, a, seen)
      PROVE  /\ Have(rows'[Mounted], p) /\ Get(rows'[Mounted], p) \in rows'[Mounted]
             /\ Get(rows'[Mounted], p).path = p /\ Get(rows'[Mounted], p).hash = NoHash
  <2> DEFINE m == [path |-> p, kind |-> "dir", hash |-> NoHash,
                   prev |-> NoHash, attr |-> a, ver |-> Stamp(Mounted),
                   deleted |-> FALSE, deletedAt |-> 0, seq |-> 0]
  <2>1. m \in Meta /\ m.path = p /\ m.hash = NoHash
    BY <1>1 DEF Meta
  <2>2. LocalWrite(Mounted, m, seen)
    BY <1>3 DEF PutDir
  <2> HIDE DEF m
  <2> QED
    BY <1>1, <2>1, <2>2, WroteRow
<1>4. ASSUME NEW a \in Attr, NEW cur \in At(p), SetAttr(Mounted, cur, a)
      PROVE  Have(rows'[Mounted], p) /\ Get(rows'[Mounted], p).hash = cur.hash
  <2> DEFINE m == [cur EXCEPT !.attr = a, !.prev = cur.hash,
                              !.ver = Stamp(Mounted), !.seq = 0]
  <2>1. cur \in Meta /\ cur.path = p
    BY <1>1 DEF At, Live
  <2>2. m \in Meta
    BY <1>1, <2>1 DEF Meta
  <2>3. m.path = p /\ m.hash = cur.hash
    BY <2>1 DEF Meta
  <2>4. LocalWrite(Mounted, m, {})
    BY <1>4 DEF SetAttr
  <2> HIDE DEF m
  <2> QED
    BY <1>1, <2>2, <2>3, <2>4, WroteRow
<1> QED
  BY <1>2, <1>3, <1>4

\* When the first half of Rename succeeds the copy is at the new name, with the
\* version the call remembers, and has the content of the old name.
LEMMA CopyLands ==
  ASSUME MountInv, SafetyInv', RenameCopy, call' # NoCall
  PROVE  /\ call \in RenameCall
         /\ call' = [call EXCEPT !.op = "delete", !.ver = CopyVersion(call.to)]
         /\ Get(rows'[Mounted], call.to) \in rows'[Mounted]
         /\ Get(rows'[Mounted], call.to).path = call.to
         /\ Get(rows'[Mounted], call.to).hash = call.row.hash
<1> DEFINE g == Get(rows'[Mounted], call.to)
           ok == call' = [call EXCEPT !.op = "delete", !.ver = CopyVersion(call.to)]
<1>1. call \in RenameCall /\ SafetyInv /\ Mounted \in Node
  BY CallParts, Limits DEF RenameCopy, MountInv
<1>2. /\ call.row \in Meta /\ Proper(call.row) /\ ~call.row.deleted
      /\ call.to \in Path /\ call.row.attr \in Attr
  BY <1>1 DEF RenameCall, LiveRow, Meta
<1>3. /\ call.row.kind = "dir" => call.row.hash = NoHash
      /\ call.row.kind = "file" => call.row.hash \in Content
  BY <1>2 DEF Proper, Meta
<1>4. ~Done
  BY DEF Done
<1>5. /\ ok
      /\ \/ /\ call.row.kind = "dir"
            /\ \/ PutDir(Mounted, call.to, call.row.attr, call.seen) /\ Wrote
               \/ HasDir(Mounted, call.to, call.row.attr) /\ UNCHANGED vars
         \/ /\ call.row.kind = "file"
            /\ \/ PutFile(Mounted, call.to, call.row.hash, call.row.attr, call.seen) /\ Wrote
               \/ HasFile(Mounted, call.to, call.row.hash, call.row.attr) /\ UNCHANGED vars
  BY <1>4 DEF RenameCopy, MountPutFile, TreeWrite
<1>6. CASE call.row.kind = "dir" /\ PutDir(Mounted, call.to, call.row.attr, call.seen) /\ Wrote
  BY <1>1, <1>2, <1>3, <1>5, <1>6, OperationLeaves
<1>7. CASE /\ call.row.kind = "file" /\ Wrote
           /\ PutFile(Mounted, call.to, call.row.hash, call.row.attr, call.seen)
  BY <1>1, <1>2, <1>3, <1>5, <1>7, OperationLeaves
<1>8. CASE /\ UNCHANGED vars
           /\ \/ call.row.kind = "dir" /\ HasDir(Mounted, call.to, call.row.attr)
              \/ /\ call.row.kind = "file"
                 /\ HasFile(Mounted, call.to, call.row.hash, call.row.attr)
  <2>1. PICK cur \in Live(rows[Mounted]) :
          /\ cur.path = call.to /\ cur.kind = call.row.kind
          /\ call.row.kind = "file" => cur.hash = call.row.hash
    BY <1>8 DEF HasDir, HasFile
  <2>2. cur \in rows[Mounted] /\ rows' = rows
    BY <1>8 DEF Live, vars
  <2>3. g = cur
    BY <1>1, <2>1, <2>2, GetIs
  <2>4. cur \in Meta /\ Proper(cur)
    BY <1>1, <2>2, Parts DEF SafetyInv, MountInv, EntriesFine, Fine
  <2>5. cur.hash = call.row.hash
    BY <1>2, <1>3, <2>1, <2>4 DEF Proper, Meta
  <2> QED
    BY <1>1, <1>5, <2>1, <2>2, <2>3, <2>5
<1> QED
  BY <1>5, <1>6, <1>7, <1>8

---------------------------------------------------------------------------
(* Every step of the mount. *)

\* What a step of the mount or beside it is to the cluster.
Moved == Operates \/ ClusterStep \/ Restart(Mounted)

\* A step leaves proper handles and, unless it is the first half of a rename,
\* starts no deletion.
LEMMA MountSteps ==
  ASSUME MountInv, [MountNext]_allVars
  PROVE  /\ Moved /\ HandlesOK'
         /\ ~RenameCopy => CallOK' /\ (call' = call \/ call'.op # "delete")
<1>1. HandlesOK /\ CallOK
  BY DEF MountInv
<1>2. CASE UNCHANGED allVars
  BY <1>1, <1>2 DEF allVars, mountVars, Moved, Operates, HandlesOK, CallOK
<1>3. CASE ClusterStep /\ UNCHANGED mountVars
  BY <1>1, <1>3 DEF Moved, mountVars, HandlesOK, CallOK
<1>4. ASSUME NEW h \in Handle,
             \/ \E c \in Content : Write(h, c)
             \/ \E p \in Names : Open(h, p)
             \/ Flush(h)
      PROVE  Moved /\ HandlesOK' /\ CallOK' /\ call' = call
  <2>1. HandlesOK' /\ CallOK' /\ Operates
    BY <1>4, WriteKeeps, OpenKeeps, FlushKeeps DEF Operates
  <2>2. call' = call
    BY <1>4 DEF Write, Open, Flush
  <2> QED
    BY <2>1, <2>2 DEF Moved
<1>5. ASSUME NEW p \in Names,
             \/ \E op \in {"create", "mkdir"}, a \in Attr : BeginMake(op, p, a)
             \/ BeginRemove(p)
             \/ \E to \in Names : BeginRename(p, to)
             \/ \E h \in Handle \cup {"none"} : BeginSetattr(p, h)
      PROVE  Moved /\ HandlesOK' /\ CallOK' /\ call'.op # "delete"
  <2>1. HandlesOK' /\ CallOK' /\ UNCHANGED vars /\ call'.op # "delete"
    BY <1>5, BeginKeeps
  <2> QED
    BY <2>1 DEF Moved, Operates
<1>6. CASE Create \/ Mkdir \/ Remove \/ SetattrSize \/ SetattrMode
  BY <1>6, CreateKeeps, LastWriteKeeps, SetattrSizeKeeps DEF Moved
<1>7. CASE RenameCopy
  BY <1>7, RenameCopyOperates DEF Moved
<1>8. CASE MountLost
  <2>1. Moved
    BY <1>8 DEF MountLost, Moved
  <2>2. HandlesOK'
    BY <1>8 DEF MountLost, HandlesOK, FileState
  <2>3. CallOK' /\ call'.op # "delete"
    BY <1>8, DoneKeeps DEF MountLost, Done
  <2> QED
    BY <2>1, <2>2, <2>3
<1> QED
  BY <1>2, <1>3, <1>4, <1>5, <1>6, <1>7, <1>8 DEF MountNext, MountStep

\* Every step is a step of the cluster.
LEMMA MovedIsStep ==
  ASSUME Moved
  PROVE  Step
  BY Limits DEF Moved, Operates, ClusterStep, Next, Step

\* Every step keeps the invariant.
LEMMA MountKeeps ==
  ASSUME MountInv, [MountNext]_allVars
  PROVE  MountInv'
<1>1. Step /\ HandlesOK' /\ (~RenameCopy => CallOK')
  BY MountSteps, MovedIsStep
<1>2. SafetyInv' /\ EntriesFine'
  BY <1>1, SafetyStep, EntriesStep DEF MountInv, SafetyInv
<1>3. CASE RenameCopy /\ call' # NoCall
  <2> DEFINE g == Get(rows'[Mounted], call.to)
  <2>1. /\ call \in RenameCall /\ g \in rows'[Mounted]
        /\ call' = [call EXCEPT !.op = "delete", !.ver = CopyVersion(call.to)]
    BY <1>2, <1>3, CopyLands
  <2>2. rows' \in [Node -> SUBSET Meta]
    BY <1>2 DEF SafetyInv, TypeOK
  <2>3. g.ver \in Version
    BY <2>1, <2>2, Limits, VersionParts
  <2>4. call' = [call EXCEPT !.op = "delete", !.ver = g.ver]
    BY <2>1 DEF CopyVersion
  <2> HIDE DEF g
  <2>5. call' \in RenameCall
    BY <2>1, <2>3, <2>4 DEF RenameCall
  <2> QED
    BY <1>1, <1>2, <2>5 DEF MountInv, CallOK, CallState
<1>4. CASE call' = NoCall
  BY <1>1, <1>2, <1>4, DoneKeeps DEF MountInv, Done
<1> QED
  BY <1>1, <1>2, <1>3, <1>4 DEF MountInv

\* The tree the mount comes up over: one file, everywhere.
LEMMA ReplicatedFacts ==
  ASSUME NEW w \in Writer, NEW x \in Name, NEW c \in Content, NEW a \in Attr,
         Replicated(w, UserPath(x), c, a),
         \A n \in Node : c \notin TooLarge[n]
  PROVE  /\ SafetyInv /\ EntriesFine /\ BookmarkInv
         /\ CountersHaveRoom => VersionInv /\ IdentityInv
<1> DEFINE t == Now(ZeroTime, Wall[w][1])
           m == [path |-> UserPath(x), kind |-> "file", hash |-> c, prev |-> NoHash,
                 attr |-> a, ver |-> [hlc |-> t, origin |-> w],
                 deleted |-> FALSE, deletedAt |-> 0, seq |-> 1]
<1>1. w \in Node /\ 1 \in 1 .. MaxTime /\ \A n \in Node : Wall[n][1] \in Nat
  BY ReplicationAssumption
<1>2. ZeroTime \in Timestamp
  BY HLCAssumption DEF ZeroTime, Timestamp
<1>3. t \in Timestamp
  BY <1>1, <1>2, NowFacts
<1> HIDE DEF t
<1>4. \A n \in Node : Observe(ZeroTime, Wall[n][1], t) \in Timestamp
  BY <1>1, <1>2, <1>3, ObserveFacts
<1>5. /\ m \in Meta /\ m.path = UserPath(x) /\ m.hash = c /\ m.seq = 1
      /\ m.kind = "file" /\ ~m.deleted /\ m.ver.hlc = t /\ m.ver.origin = w
  BY <1>1, <1>3 DEF Meta, Version, UserPath, Path
<1> HIDE DEF m
<1>6. /\ now = 1 /\ rows = [n \in Node |-> {m}] /\ head = [n \in Node |-> 1]
      /\ blobs = [n \in Node |-> {c}]
      /\ mark = [n \in Node |-> [q \in Node |-> IF <<n, q>> \in Link THEN 1 ELSE 0]]
      /\ last = [n \in Node |-> IF n = w THEN t ELSE Observe(ZeroTime, Wall[n][1], t)]
      /\ pull = [n \in Node |-> [q \in Node |-> Idle]]
      /\ written = {c} /\ over = {} /\ spent = [e \in EnvEvent |-> 0]
  BY DEF Replicated, m, t
<1>7. Idle \in Pull /\ Idle.batch = {} /\ Idle.page = {} /\ Idle.pc # "apply"
  BY IdleType DEF Idle
<1>8. TypeOK
  BY <1>1, <1>3, <1>4, <1>5, <1>6, <1>7 DEF TypeOK
<1>9. PullsOK
  BY <1>6, <1>7, NoBatchOK DEF PullsOK
<1>10. FeedWellFormed /\ ContentHeld
  BY <1>5, <1>6 DEF FeedWellFormed, FeedOK, ContentHeld, Live
<1>11. SafetyInv
  BY <1>8, <1>9, <1>10 DEF SafetyInv
<1>12. EntriesFine
  BY <1>5, <1>6, <1>7 DEF EntriesFine, Fine, Proper
<1>13. \A e \in Known : e = m
  BY <1>6, <1>7, KnownMember
<1>14. ASSUME CountersHaveRoom PROVE VersionInv /\ IdentityInv
  <2>1. last[w] = t /\ t.ctr \in Nat /\ CounterMod \in Nat
    BY <1>1, <1>3, <1>6, HLCAssumption DEF Timestamp
  <2>2. t.ctr + 2 < CounterMod
    BY <1>1, <1>14, <2>1 DEF CountersHaveRoom
  <2>3. Roomy
    BY <1>5, <1>13, <2>2 DEF Roomy
  <2>4. ASSUME NEW n \in Node PROVE Compare(last[n], t) >= 0
    <3>1. CASE n = w
      BY <1>3, <2>1, <3>1, CompareFacts
    <3>2. CASE n # w
      <4> DEFINE o == Observe(ZeroTime, Wall[n][1], t)
      <4>1. last[n] = o /\ o \in Timestamp
        BY <1>4, <1>6, <3>2
      <4>2. /\ o.wall = ZeroTime.wall => ZeroTime.ctr + 1 < CounterMod
            /\ o.wall = t.wall => t.ctr + 1 < CounterMod
        BY <2>1, <2>2 DEF ZeroTime
      <4>3. Compare(o, t) > 0
        BY <1>1, <1>2, <1>3, <4>2, ObserveFacts
      <4>4. Compare(o, t) >= 0
        BY <1>3, <4>1, <4>3, CompareFacts
      <4> QED
        BY <4>1, <4>4
    <3> QED
      BY <3>1, <3>2
  <2>5. ClockCovers
    BY <1>5, <1>6, <1>7, <2>4 DEF ClockCovers
  <2>6. OneHolder /\ BatchNewer
    BY <1>6, <1>7 DEF OneHolder, BatchNewer
  <2>7. OwnCovered
    BY <1>1, <1>5, <1>13, <2>4 DEF OwnCovered
  <2>8. Identified
    BY <1>13 DEF Identified, Same
  <2> QED
    BY <1>8, <1>11, <2>3, <2>5, <2>6, <2>7, <2>8 DEF VersionInv, IdentityInv
<1>15. ASSUME NEW n \in Node, NEW q \in Peers(n)
       PROVE  MarkSound(n, q, mark[n][q]) /\ PullSound(n, q, pull[n][q])
  <2>1. q \in Node /\ pull[n][q] = Idle /\ mark[n][q] = 1
    BY <1>6 DEF Peers
  <2>2. head[q] = 1 /\ rows[q] = {m} /\ rows[n] = {m}
    BY <1>6, <2>1
  <2>3. m.ver \in Version /\ ~After(m.ver, m.ver)
    BY <1>5, VersionParts, VersionOrder
  <2>4. MarkSound(n, q, 1)
    BY <2>2, <2>3 DEF MarkSound, Behind, Accounted
  <2> QED
    BY <1>11, <2>1, <2>4, BeginningSound
<1>16. BookmarkInv
  BY <1>15 DEF BookmarkInv
<1> QED
  BY <1>11, <1>12, <1>14, <1>16

\* The initial states.
LEMMA MountInitially ==
  ASSUME MountInit
  PROVE  /\ MountInv /\ CopyKept /\ BookmarkInv
         /\ CountersHaveRoom => VersionInv /\ IdentityInv
<1>1. HandlesOK /\ CallOK /\ CopyKept
  BY DEF MountInit, HandlesOK, FileState, CallOK, CallState, CopyKept, NoCall
<1> QED
  BY <1>1, ReplicatedFacts DEF MountInit, MountInv

---------------------------------------------------------------------------
(* Buffers, and the store under the mount. *)

\* What the invariant says of handles and calls.
LEMMA MountInvGives ==
  ASSUME MountInv
  PROVE  /\ TypeOK /\ FeedWellFormed /\ ContentHeld /\ MountTypeOK /\ BuffersFit
         /\ ~AtomicTrunc => SuccessMeansStored
<1>1. TypeOK /\ FeedWellFormed /\ ContentHeld /\ HandlesOK /\ CallOK
  BY DEF MountInv, SafetyInv
<1>2. \A h \in Handle :
        \/ handle[h] = Closed
        \/ handle[h].open /\ handle[h] \in OpenFile /\ Settled(handle[h])
  BY <1>1, HandleParts DEF FileState, OpenFile
<1>3. ~Closed.open
  BY DEF Closed
<1>4. BuffersFit
  BY <1>2, <1>3 DEF BuffersFit, OpenFile
<1>5. ~AtomicTrunc => SuccessMeansStored
  BY <1>2, <1>3 DEF SuccessMeansStored, Settled
<1>6. /\ \A h \in Handle :
           \/ handle[h] = Closed
           \/ /\ handle[h].open /\ handle[h].dirty \in BOOLEAN
              /\ handle[h].path \in Path /\ handle[h].attr \in Attr
              /\ {handle[h].buf, handle[h].expects, handle[h].saved} \subseteq Content
  BY <1>2 DEF OpenFile
<1>7. \/ call = NoCall
      \/ call.op \in {"create", "mkdir"} /\ call.path \in Path
      \/ call.op \in {"remove", "copy", "delete", "truncate", "attr"} /\ call.row \in Meta
  BY <1>1 DEF CallOK, CallState, MakeCall, RemoveCall, RenameCall, TruncateCall,
              AttrCall, LiveRow
<1> QED
  BY <1>1, <1>4, <1>5, <1>6, <1>7 DEF MountTypeOK

\* Types, of the cluster's state and the mount's.
THEOREM MountTypes == MountSpec => [](TypeOK /\ MountTypeOK)
<1>1. MountInit => MountInv
  BY MountInitially
<1>2. MountInv /\ [MountNext]_allVars => MountInv'
  BY MountKeeps
<1>3. MountInv => TypeOK /\ MountTypeOK
  BY MountInvGives
<1> QED
  BY <1>1, <1>2, <1>3, PTL DEF MountSpec

\* The store under a mount is as sound as without one: calls write rows they read
\* some time before, beside pulls and the janitor, and still a path has one row,
\* a feed position one row, and a live file its content.
THEOREM MountKeepsStore == MountSpec => [](FeedWellFormed /\ ContentHeld)
<1>1. MountInit => MountInv
  BY MountInitially
<1>2. MountInv /\ [MountNext]_allVars => MountInv'
  BY MountKeeps
<1>3. MountInv => FeedWellFormed /\ ContentHeld
  BY MountInvGives
<1> QED
  BY <1>1, <1>2, <1>3, PTL DEF MountSpec

\* A close never fails for size: every buffer, the ones Open fills from the tree
\* included, is within the limit of the node, whatever its peers accept.
THEOREM MountBuffersFit == MountSpec => []BuffersFit
<1>1. MountInit => MountInv
  BY MountInitially
<1>2. MountInv /\ [MountNext]_allVars => MountInv'
  BY MountKeeps
<1>3. MountInv => BuffersFit
  BY MountInvGives
<1> QED
  BY <1>1, <1>2, <1>3, PTL DEF MountSpec

\* A close that reported success has stored what was written, however often the
\* commit failed before: when Open is not the one to truncate.
THEOREM MountSuccessMeansStored ==
  ASSUME ~AtomicTrunc
  PROVE  MountSpec => []SuccessMeansStored
<1>1. MountInit => MountInv
  BY MountInitially
<1>2. MountInv /\ [MountNext]_allVars => MountInv'
  BY MountKeeps
<1>3. MountInv => SuccessMeansStored
  BY MountInvGives
<1> QED
  BY <1>1, <1>2, <1>3, PTL DEF MountSpec

---------------------------------------------------------------------------
(* Attributes. *)

\* Only the second half of a Setattr ends one with a write.
LEMMA ChmodEnds ==
  ASSUME MountInv, [MountNext]_allVars, call.op = "attr", Done, Wrote
  PROVE  SetattrMode
<1>1. call # call' /\ call # NoCall /\ head[Mounted] \in Nat
  BY Limits, Parts DEF Done, NoCall, MountInv, SafetyInv
<1>2. head' # head
  BY <1>1 DEF Wrote
<1>3. ~UNCHANGED allVars /\ ~UNCHANGED mountVars
  BY <1>1 DEF allVars, mountVars
<1>4. ~\E h \in Handle : \/ \E c \in Content : Write(h, c)
                         \/ \E p \in Names : Open(h, p)
                         \/ Flush(h)
  BY <1>1 DEF Write, Open, Flush
<1>5. ~\E p \in Names :
         \/ \E op \in {"create", "mkdir"}, a \in Attr : BeginMake(op, p, a)
         \/ BeginRemove(p)
         \/ \E to \in Names : BeginRename(p, to)
         \/ \E h \in Handle \cup {"none"} : BeginSetattr(p, h)
  BY <1>1 DEF BeginMake, BeginRemove, BeginRename, BeginSetattr, Begin
<1>6. ~(Create \/ Mkdir \/ Remove \/ RenameCopy \/ SetattrSize)
  BY DEF Create, Mkdir, Remove, RenameCopy, SetattrSize
<1>7. ~MountLost
  BY <1>2 DEF MountLost, Restart, store
<1> QED
  BY <1>3, <1>4, <1>5, <1>6, <1>7 DEF MountNext, MountStep

\* A chmod never brings back content, whatever pulls stored between its read and
\* its write: SetAttr reads the row again.
THEOREM MountChmodKeepsContent == MountSpec => ChmodKeepsContent
<1> DEFINE Keeps == call.op = "attr" /\ Done /\ Wrote =>
                      HashAt(rows'[Mounted], call.row.path)
                        = HashAt(rows[Mounted], call.row.path)
<1>1. MountInit => MountInv
  BY MountInitially
<1>2. MountInv /\ [MountNext]_allVars => MountInv'
  BY MountKeeps
<1>3. ASSUME MountInv, [MountNext]_allVars PROVE Keeps
  <2> SUFFICES ASSUME call.op = "attr", Done, Wrote
               PROVE  HashAt(rows'[Mounted], call.row.path)
                        = HashAt(rows[Mounted], call.row.path)
    OBVIOUS
  <2> DEFINE p == call.row.path
  <2>1. SetattrMode /\ SafetyInv /\ SafetyInv' /\ Mounted \in Node
    BY <1>2, <1>3, ChmodEnds, Limits DEF MountInv
  <2>2. call \in AttrCall
    BY <1>3, CallParts DEF MountInv
  <2>3. p \in Path /\ call.attr \in Attr
    BY <2>2 DEF AttrCall, LiveRow, Meta
  <2>4. head'[Mounted] # head[Mounted]
    BY <2>1, Parts DEF Wrote, SafetyInv
  <2>5. PICK cur \in At(p) : SetAttr(Mounted, cur, call.attr)
    BY <2>1, <2>4 DEF SetattrMode, TreeWrite, vars
  <2>6. Have(rows'[Mounted], p) /\ Get(rows'[Mounted], p).hash = cur.hash
    BY <2>1, <2>3, <2>5, OperationLeaves
  <2>7. cur \in rows[Mounted] /\ cur.path = p
    BY DEF At, Live
  <2>8. Have(rows[Mounted], p) /\ Get(rows[Mounted], p) = cur
    BY <2>1, <2>7, GetIs
  <2> QED
    BY <2>6, <2>8 DEF HashAt
<1>4. ChmodKeepsContent <=> [][Keeps]_allVars
  BY DEF ChmodKeepsContent
<1> HIDE DEF Keeps
<1>5. MountInv /\ [MountNext]_allVars => [Keeps]_allVars
  BY <1>3
<1> QED
  BY <1>1, <1>2, <1>4, <1>5, PTL DEF MountSpec

---------------------------------------------------------------------------
(* Renames. *)

\* Store.Apply keeps every path.
LEMMA UpsertKeepsPaths ==
  ASSUME NEW table \in SUBSET Meta, NEW batch \in SUBSET Meta, NEW base \in Nat,
         NEW a \in table
  PROVE  \E b \in Upsert(table, batch, base) : b.path = a.path
<1>1. CASE ~Have(batch, a.path)
  BY <1>1 DEF Upsert
<1>2. CASE Have(batch, a.path)
  <2>1. PICK b \in batch : b.path = a.path
    BY <1>2 DEF Have
  <2> DEFINE e == [b EXCEPT !.seq = base + b.seq]
  <2>2. e \in Upsert(table, batch, base)
    BY DEF Upsert
  <2>3. b \in Meta /\ base + b.seq \in Nat
    BY DEF Meta
  <2>4. e.path = a.path
    BY <2>1, <2>3, RestampType
  <2> QED
    BY <2>2, <2>4
<1> QED
  BY <1>1, <1>2

\* Under the mount a path keeps having a row, unless it is a tombstone that the
\* janitor collects.
LEMMA PathStays ==
  ASSUME MountInv, Moved, NEW a \in rows[Mounted]
  PROVE  \/ \E b \in rows'[Mounted] : b.path = a.path
         \/ a \in Expired(rows[Mounted], physical(Mounted) - TombstoneTTL)
<1>1. /\ TypeOK /\ rows \in [Node -> SUBSET Meta] /\ Mounted \in Node
      /\ rows[Mounted] \in SUBSET Meta /\ head[Mounted] \in Nat
  BY Limits, Parts DEF MountInv, SafetyInv, TypeOK
<1>2. CASE rows'[Mounted] = rows[Mounted]
  BY <1>2
<1>3. ASSUME NEW n \in Node, UserWrite(n) \/ \E seen \in Sights : Operation(n, seen)
      PROVE  \E b \in rows'[Mounted] : b.path = a.path
  <2>1. PICK m \in Meta : \E seen : LocalWrite(n, m, seen)
    BY <1>1, <1>3, UserWrites
  <2>2. \/ rows'[Mounted] = rows[Mounted]
        \/ rows'[Mounted] = Upsert(rows[Mounted], AppendRow({}, 0, m), head[Mounted])
    BY <1>1, <2>1, LocalWriteEffect
  <2>3. AppendRow({}, 0, m) \in SUBSET Meta
    BY AppendRowFacts
  <2> QED
    BY <1>1, <2>2, <2>3, UpsertKeepsPaths
<1>4. CASE Collect(Mounted)
  <2>1. rows'[Mounted] =
          rows[Mounted] \ Expired(rows[Mounted], physical(Mounted) - TombstoneTTL)
    BY <1>1, <1>4 DEF Collect
  <2> QED
    BY <2>1
<1>5. ASSUME NEW n \in Node, NEW q \in Peers(n),
             PullStep(n, q) \/ LockWrite(n, q) \/ AbortPull(n, q)
      PROVE  \E b \in rows'[Mounted] : b.path = a.path
  <2>1. q \in Node
    BY DEF Peers
  <2>2. CASE CommitPage(n, q)
    <3>1. \/ rows'[Mounted] = rows[Mounted]
          \/ rows'[Mounted] = Upsert(rows[Mounted], pull[n][q].batch, head[Mounted])
      BY <1>1, <2>2 DEF CommitPage
    <3>2. pull[n][q].batch \in SUBSET Meta
      BY <1>1, <2>1, Parts DEF Pull
    <3> QED
      BY <1>1, <3>1, <3>2, UpsertKeepsPaths
  <2>3. CASE ApplyEntry(n, q)
    BY <1>1, <2>1, <2>3, ApplyEffect
  <2>4. CASE ~CommitPage(n, q) /\ ~ApplyEntry(n, q)
    BY <1>1, <1>5, <2>1, <2>4, FetchEffect DEF PullStep
  <2> QED
    BY <2>2, <2>3, <2>4
<1>6. CASE Tick \/ Restart(Mounted) \/ UNCHANGED vars
  BY <1>2, <1>6 DEF Tick, Restart, store, vars
<1> QED
  BY <1>1, <1>3, <1>4, <1>5, <1>6, ReplicationAssumption
     DEF Moved, Operates, ClusterStep

\* The copy of a rename is there until the old name is deleted, or has been
\* replaced by something newer.
LEMMA CopyStays ==
  ASSUME MountInv, VersionInv, CopyKept, CountersHaveRoom, CountersHaveRoom',
         FreshAheadOfStore, TombstoneOutlivesRename, [MountNext]_allVars
  PROVE  CopyKept'
<1>1. /\ Moved /\ Step /\ MountInv'
      /\ ~RenameCopy => call' = call \/ call'.op # "delete"
  BY MountSteps, MovedIsStep, MountKeeps
<1>2. \A a \in rows[Mounted], b \in rows'[Mounted] :
        a.path = b.path => a = b \/ After(b.ver, a.ver)
  BY <1>1, VersionStep, Limits
<1>3. CASE call'.op # "delete"
  BY <1>3 DEF CopyKept
<1>4. CASE call' = call /\ call.op = "delete"
  <2>1. PICK m \in rows[Mounted] :
          /\ m.path = call.to
          /\ (m.ver = call.ver /\ m.hash = call.row.hash) \/ After(m.ver, call.ver)
    BY <1>4 DEF CopyKept
  <2>2. PICK b \in rows'[Mounted] : b.path = call.to
    BY <1>1, <1>4, <2>1, PathStays DEF TombstoneOutlivesRename
  <2>3. m = b \/ After(b.ver, m.ver)
    BY <1>2, <2>1, <2>2
  <2>4. m.ver \in Version /\ b.ver \in Version /\ call.ver \in Version
    <3>1. rows \in [Node -> SUBSET Meta] /\ rows' \in [Node -> SUBSET Meta]
      BY <1>1 DEF MountInv, SafetyInv, TypeOK
    <3>2. call \in RenameCall
      BY <1>4, CallParts DEF MountInv
    <3> QED
      BY <3>1, <3>2, Limits, VersionParts DEF RenameCall
  <2>5. m = b \/ After(b.ver, call.ver)
    BY <2>1, <2>3, <2>4, VersionOrder
  <2> QED
    BY <1>4, <2>1, <2>2, <2>5 DEF CopyKept
<1>5. CASE RenameCopy /\ call' # NoCall
  <2> DEFINE g == Get(rows'[Mounted], call.to)
  <2>1. /\ call \in RenameCall /\ g \in rows'[Mounted] /\ g.path = call.to
        /\ g.hash = call.row.hash
        /\ call' = [call EXCEPT !.op = "delete", !.ver = CopyVersion(call.to)]
    BY <1>1, <1>5, CopyLands DEF MountInv
  <2>2. call' = [call EXCEPT !.op = "delete", !.ver = g.ver]
    BY <2>1 DEF CopyVersion
  <2> HIDE DEF g
  <2>3. call'.to = call.to /\ call'.row = call.row /\ call'.ver = g.ver
    BY <2>1, <2>2 DEF RenameCall
  <2> QED
    BY <2>1, <2>3 DEF CopyKept
<1>6. CASE call' = NoCall
  BY <1>3, <1>6 DEF NoCall
<1> QED
  BY <1>1, <1>3, <1>4, <1>5, <1>6

\* Copy-then-delete keeps the file: when Rename deletes the old name the new one
\* has the copy, or something written there since, whatever pulls and failures do
\* between its two writes. Counters must not wrap, a process not start behind
\* its store, and a tombstone outlive a rename.
THEOREM MountRenameKeepsFile ==
  MountSpec /\ [](CountersHaveRoom /\ FreshAheadOfStore /\ TombstoneOutlivesRename)
    => RenameKeepsFile
<1> DEFINE Env == CountersHaveRoom /\ FreshAheadOfStore /\ TombstoneOutlivesRename
           Inv == MountInv /\ VersionInv /\ CopyKept
           Keeps == call.op = "delete" /\ Done /\ Wrote =>
                      \E m \in rows[Mounted] :
                        /\ m.path = call.to
                        /\ m.hash = call.row.hash \/ After(m.ver, call.ver)
<1>1. MountInit /\ Env => Inv
  BY MountInitially
<1>2. Inv /\ [MountNext]_allVars /\ Env /\ Env' => Inv'
  <2> SUFFICES ASSUME Inv, [MountNext]_allVars, Env, Env' PROVE Inv'
    OBVIOUS
  <2>1. Step /\ MountInv' /\ CopyKept'
    BY MountSteps, MovedIsStep, MountKeeps, CopyStays
  <2>2. VersionInv'
    BY <2>1, VersionStep
  <2> QED
    BY <2>1, <2>2
<1>3. Inv => Keeps
  BY DEF CopyKept
<1>4. RenameKeepsFile <=> [][Keeps]_allVars
  BY DEF RenameKeepsFile
<1> HIDE DEF Keeps, Inv, Env
<1>5. Inv => [Keeps]_allVars
  BY <1>3
<1>6. MountSpec /\ []Env => RenameKeepsFile
  BY <1>1, <1>2, <1>4, <1>5, PTL DEF MountSpec
<1> QED
  BY <1>6 DEF Env

---------------------------------------------------------------------------
(* Versions under the mount. *)

\* Last writer wins under the mount as well: what its calls write, on the strength
\* of a tree they read earlier, is later than what it replaces at that moment.
THEOREM MountVersionNeverRegresses ==
  MountSpec /\ [](CountersHaveRoom /\ FreshAheadOfStore) => VersionNeverRegresses
<1> DEFINE Env == CountersHaveRoom /\ FreshAheadOfStore
           Inv == MountInv /\ VersionInv
           Newer == \A n \in Node : \A a \in rows[n], b \in rows'[n] :
                      a.path = b.path => a = b \/ After(b.ver, a.ver)
<1>1. MountInit /\ Env => Inv
  BY MountInitially
<1>2. Inv /\ [MountNext]_allVars /\ Env /\ Env' => Inv' /\ [Newer]_vars
  <2> SUFFICES ASSUME Inv, [MountNext]_allVars, Env, Env' PROVE Inv' /\ Newer
    OBVIOUS
  <2>1. Step /\ MountInv'
    BY MountSteps, MovedIsStep, MountKeeps
  <2> QED
    BY <2>1, VersionStep
<1>3. VersionNeverRegresses <=> [][Newer]_vars
  BY DEF VersionNeverRegresses
<1> HIDE DEF Newer, Inv, Env
<1>4. MountSpec /\ []Env => VersionNeverRegresses
  BY <1>1, <1>2, <1>3, PTL DEF MountSpec
<1> QED
  BY <1>4 DEF Env

\* The mount is a client of the last-writer-wins map like any other: whatever its
\* calls read before, each of its writes is one Write of the map, the two of a
\* rename two.
THEOREM MountStepsImplementLWW ==
  MountSpec /\ [](CountersHaveRoom /\ FreshAheadOfStore)
    => [][Abstract!Next]_<<held, carried>>
<1> DEFINE Env == CountersHaveRoom /\ FreshAheadOfStore
           Inv == MountInv /\ VersionInv
           Map == [Abstract!Next]_<<held, carried>>
<1>1. MountInit /\ Env => Inv
  BY MountInitially
<1>2. Inv /\ [MountNext]_allVars /\ Env /\ Env' => Inv' /\ Map
  <2> SUFFICES ASSUME Inv, [MountNext]_allVars, Env, Env' PROVE Inv' /\ Map
    OBVIOUS
  <2>1. Step /\ MountInv'
    BY MountSteps, MovedIsStep, MountKeeps
  <2> QED
    BY <2>1, VersionStep, StepRefines
<1> HIDE DEF Inv, Env
<1>3. MountSpec /\ []Env => [][Abstract!Next]_<<held, carried>>
  BY <1>1, <1>2, PTL DEF MountSpec
<1> QED
  BY <1>3 DEF Env

\* A version names one write under the mount as well: the two writes of a rename
\* have two versions.
THEOREM MountVersionsIdentifyWrites ==
  MountSpec /\ [](CountersHaveRoom /\ FreshAheadOfOwn) => []VersionsIdentifyWrites
<1> DEFINE Env == CountersHaveRoom /\ FreshAheadOfOwn
           Inv == MountInv /\ IdentityInv
<1>1. MountInit /\ Env => Inv
  BY MountInitially
<1>2. Inv /\ [MountNext]_allVars /\ Env /\ Env' => Inv'
  <2> SUFFICES ASSUME Inv, [MountNext]_allVars, Env, Env' PROVE Inv'
    OBVIOUS
  <2>1. Step /\ MountInv'
    BY MountSteps, MovedIsStep, MountKeeps
  <2> QED
    BY <2>1, IdentityStep
<1>3. Inv => VersionsIdentifyWrites
  BY IdentityGives
<1> HIDE DEF Inv, Env
<1>4. MountSpec /\ []Env => []VersionsIdentifyWrites
  BY <1>1, <1>2, <1>3, PTL DEF MountSpec
<1> QED
  BY <1>4 DEF Env

\* Nothing of a peer's feed is passed over while a mount writes between the steps of
\* a pull, under the conditions of ReplicationBookmarkSound.
THEOREM MountBookmarkSound ==
  MountSpec /\ [][Remembers /\ HeadsGrow /\ RefusalsLast]_vars
            /\ [](CountersHaveRoom /\ FreshAheadOfStore /\ DeferredLast)
    => []BookmarkSound
<1> DEFINE Kept == Remembers /\ HeadsGrow /\ RefusalsLast
           Env == CountersHaveRoom /\ FreshAheadOfStore /\ DeferredLast
           Inv == MountInv /\ VersionInv /\ BookmarkInv
<1>1. MountInit /\ Env => Inv
  BY MountInitially
<1>2. Inv /\ [MountNext]_allVars /\ [Kept]_vars /\ Env /\ Env' => Inv'
  <2> SUFFICES ASSUME Inv, [MountNext]_allVars, [Kept]_vars, Env, Env' PROVE Inv'
    OBVIOUS
  <2>1. Step /\ MountInv'
    BY MountSteps, MovedIsStep, MountKeeps
  <2>2. Kept
    BY StutterKeeps DEF VersionInv, SafetyInv
  <2> QED
    BY <2>1, <2>2, BookmarkStep
<1>3. Inv => BookmarkSound
  BY DEF BookmarkInv, BookmarkSound, MarkSound, Behind
<1> HIDE DEF Inv, Kept, Env
<1>4. MountSpec /\ [][Kept]_vars /\ []Env => []BookmarkSound
  BY <1>1, <1>2, <1>3, PTL DEF MountSpec
<1> QED
  BY <1>4 DEF Kept, Env
=============================================================================
