------------------------------- MODULE Mount -------------------------------
(***************************************************************************)
(* The FUSE mount of one node (internal/fusefs) over that node's syncer,   *)
(* while the node replicates with its peers (Replication). The node's      *)
(* users work through the mount only.                                      *)
(*                                                                         *)
(* A call of the mount reads the tree and later writes it, taking          *)
(* Service.write for the write alone: pulls commit in between. The kernel  *)
(* holds the locks of the directory or file it calls about, so one such    *)
(* call runs at a time in the one directory modelled; reads, writes and    *)
(* flushes of open files run beside it.                                    *)
(***************************************************************************)
EXTENDS Replication

CONSTANTS
  Mounted,      \* the node with the mount
  Handle,       \* file descriptors open for writing
  Empty,        \* the content of an empty file
  Resized,      \* Resized[c]: what truncating or growing c may give
  Inside,       \* <<x, d>>: name x lies in directory d
  AtomicTrunc,  \* external: whether the kernel passes O_TRUNC on to Open
  MaxFeed,      \* bound: feed positions of a peer whose users still write
  Exchange      \* callers ask Rename to exchange the two names (flags)

ASSUME MountAssumption ==
  /\ Mounted \in Node \ Writer
  /\ Empty \in Content /\ \A n \in Node : Empty \notin TooLarge[n]
  /\ Resized \in [Content -> SUBSET Content]
  /\ Inside \subseteq Name \X Name
  /\ MaxFeed \in Nat
  /\ AtomicTrunc \in BOOLEAN /\ Exchange \in BOOLEAN

VARIABLES
  handle,  \* handle[h]: the writeHandle behind descriptor h
  call     \* the directory or attribute call in progress

mountVars == <<handle, call>>
allVars == <<vars, mountVars>>

\* A writeHandle. seen, expects and saved are history: what its program knew of
\* the file, what the program takes the file to contain now, and what of that
\* the tree has accepted.
Closed == [open |-> FALSE]

OpenHandle(p, buf, a, seen, expects, saved) ==
  [open |-> TRUE, path |-> p, buf |-> buf, attr |-> a, dirty |-> FALSE,
   seen |-> seen, expects |-> expects, saved |-> saved]

\* A call: the row its Get returned, the other operands, and the next step.
NoCall == [op |-> "none"]

\* Every handle is of a regular file, as Open demands (fusefs.go:335), and every call has
\* the operands of its kind.
MountTypeOK ==
  /\ \A h \in Handle :
       \/ handle[h] = Closed
       \/ /\ handle[h].open /\ handle[h].dirty \in BOOLEAN
          /\ handle[h].path \in Path /\ handle[h].attr \in Attr
          /\ {handle[h].buf, handle[h].expects, handle[h].saved} \subseteq Content
  /\ \/ call = NoCall
     \/ call.op \in {"create", "mkdir"} /\ call.path \in Path
     \/ call.op \in {"remove", "copy", "delete", "truncate", "attr"} /\ call.row \in Meta

\* A tree of one file that a user of w wrote and every other node has pulled.
Replicated(w, p, c, a) ==
  LET hlc == Now(ZeroTime, Wall[w][1])
      m == [path |-> p, kind |-> "file", hash |-> c, prev |-> NoHash, attr |-> a,
            ver |-> [hlc |-> hlc, origin |-> w],
            deleted |-> FALSE, deletedAt |-> 0, seq |-> 1]
  IN  /\ now = 1
      /\ rows = [n \in Node |-> {m}]
      /\ head = [n \in Node |-> 1]
      /\ blobs = [n \in Node |-> {c}]
      /\ mark = [n \in Node |-> [q \in Node |-> IF <<n, q>> \in Link THEN 1 ELSE 0]]
      /\ last = [n \in Node |-> IF n = w THEN hlc
                                ELSE Observe(ZeroTime, Wall[n][1], hlc)]
      /\ pull = [n \in Node |-> [q \in Node |-> Idle]]
      /\ written = {c}
      /\ over = {}
      /\ spent = [e \in EnvEvent |-> 0]

\* The mount comes up over a tree that is in step with the peers'.
MountInit ==
  /\ \E w \in Writer, x \in Name, c \in Content, a \in Attr :
       /\ \A n \in Node : c \notin TooLarge[n]
       /\ Replicated(w, UserPath(x), c, a)
  /\ handle = [h \in Handle |-> Closed]
  /\ call = NoCall

---------------------------------------------------------------------------
(* The tree as the mount sees it. *)

\* Lookup and Getattr: the live row of path p, at most one.
At(p) == {m \in Live(rows[Mounted]) : m.path = p}

\* The live rows Rmdir and Rename find below p.
Below(p) ==
  {m \in Live(rows[Mounted]) : <<m.path.name, p.name>> \in Inside /\ p.suffix = << >>}

\* The kernel reaches p only through directories that Lookup finds.
Reachable(p) ==
  \A d \in Name : <<p.name, d>> \in Inside =>
    \E m \in At(UserPath(d)) : m.kind = "dir"

Names == UserPaths(Mounted)

\* The call has written: commit numbers a new row.
Wrote == head'[Mounted] = head[Mounted] + 1

\* A write of the tree by the mount: the operation op, which commits or fails,
\* or a return without error because there is nothing to change.
TreeWrite(op, nothing, onSuccess, onError) ==
  \/ op /\ (IF Wrote THEN onSuccess ELSE onError)
  \/ nothing /\ LockFree(Mounted) /\ UNCHANGED vars /\ onSuccess

\* tree.PutFile, with EFBIG for content above the limit.
MountPutFile(p, c, a, seen, onSuccess, onError) ==
  \/ TreeWrite(PutFile(Mounted, p, c, a, seen),
               c \notin TooLarge[Mounted] /\ HasFile(Mounted, p, c, a),
               onSuccess, onError)
  \/ c \in TooLarge[Mounted] /\ UNCHANGED vars /\ onError

Done == call' = NoCall

---------------------------------------------------------------------------
(* Open files. *)

\* A program writes c: an offset past the limit is refused with EFBIG. The
\* buffer holds c then, if it held what the program takes the file to be.
Write(h, c) ==
  /\ handle[h].open
  /\ c \notin TooLarge[Mounted]
  /\ \E b \in Content :
       /\ handle[h].buf = handle[h].expects => b = c
       /\ b \notin TooLarge[Mounted]
       /\ handle' = [handle EXCEPT ![h].buf = b, ![h].expects = c, ![h].dirty = TRUE]
  /\ UNCHANGED <<vars, call>>

\* An Open that takes a directory for a file without content.
OpenAnyKind(h, p) ==
  /\ ~handle[h].open
  /\ \E m \in At(p) :
       handle' = [handle EXCEPT ![h] =
                    OpenHandle(p, m.hash, m.attr, {m.hash}, m.hash, m.hash)]
  /\ UNCHANGED <<vars, call>>

\* Open for writing. (A reader gets a copy of the content and no more.)
Open(h, p) ==
  /\ ~handle[h].open
  /\ \E m \in At(p), trunc \in {FALSE, AtomicTrunc} :
       LET c == IF trunc THEN Empty ELSE m.hash
       IN  /\ m.kind = "file"
           /\ trunc \/ m.hash \in blobs[Mounted]
           /\ handle' = [handle EXCEPT ![h] =
                           OpenHandle(p, c, m.attr, {m.hash}, c, m.hash)]
  /\ UNCHANGED <<vars, call>>

\* A Flush that forgets the buffer whether or not it was committed.
AfterFlushForgets(r, ok) ==
  [r EXCEPT !.dirty = FALSE, !.seen = IF ok THEN {r.buf} ELSE @,
            !.saved = IF ok THEN r.buf ELSE @]

\* The handle after a Flush: a buffer that was not committed stays dirty.
AfterFlush(r, ok) ==
  IF ok THEN [r EXCEPT !.dirty = FALSE, !.seen = {r.buf}, !.saved = r.buf]
        ELSE r

\* close(2): Flush commits a dirty buffer, with the attributes of open time;
\* after the last close of a descriptor the kernel releases the handle.
Flush(h) ==
  /\ handle[h].open
  /\ \E r \in {AfterFlush(handle[h], ok) : ok \in BOOLEAN} \cup {Closed} :
       /\ handle' = [handle EXCEPT ![h] = r]
       /\ IF handle[h].dirty
          THEN MountPutFile(handle[h].path, handle[h].buf, handle[h].attr,
                            handle[h].seen,
                            r \in {Closed, AfterFlush(handle[h], TRUE)},
                            r \in {Closed, AfterFlush(handle[h], FALSE)})
          ELSE r = Closed /\ UNCHANGED vars
  /\ UNCHANGED call

---------------------------------------------------------------------------
(* Calls about names. *)

Begin(c) == call = NoCall /\ call' = c /\ UNCHANGED <<vars, handle>>

\* Create and Mkdir follow a Lookup that found nothing.
BeginMake(op, p, a) ==
  /\ At(p) = {} /\ Reachable(p)
  /\ Begin([op |-> op, path |-> p, attr |-> a])

\* Create stores an empty file at once; the handle then starts empty and clean.
\* The Get that follows can fail, or the caller be content with an empty file:
\* the file is there and no handle open.
Create ==
  /\ call.op = "create"
  /\ MountPutFile(call.path, Empty, call.attr, {},
       \/ \E h \in Handle :
            /\ ~handle[h].open
            /\ handle' = [handle EXCEPT ![h] =
                 OpenHandle(call.path, Empty, call.attr, {Empty}, Empty, Empty)]
       \/ UNCHANGED handle,
       UNCHANGED handle)
  /\ Done

Mkdir ==
  /\ call.op = "mkdir"
  /\ TreeWrite(PutDir(Mounted, call.path, call.attr, {}),
               HasDir(Mounted, call.path, call.attr), TRUE, TRUE)
  /\ Done /\ UNCHANGED handle

\* Unlink and Rmdir: what is there is looked up, and for a directory, that
\* nothing lies below it.
BeginRemove(p) ==
  \E m \in At(p) :
    /\ m.kind = "dir" => Below(p) = {}
    /\ Begin([op |-> "remove", row |-> m])

\* tree.Delete of the path of the row that was looked up, or nothing left.
MountDelete ==
  TreeWrite(\E cur \in At(call.row.path) : Delete(Mounted, cur, {call.row.hash}),
            At(call.row.path) = {}, TRUE, TRUE)

Remove ==
  /\ call.op \in {"remove", "delete"}
  /\ MountDelete
  /\ Done /\ UNCHANGED handle

\* Rename reads the row of from; a directory must have nothing below it. The
\* kernel has checked that what is at to, if anything, is of the same kind.
BeginRename(from, to) ==
  /\ from # to /\ Reachable(to) /\ <<to.name, from.name>> \notin Inside
  /\ \E m \in At(from) :
       /\ m.kind = "dir" => Below(from) = {}
       /\ \A o \in At(to) : o.kind = m.kind
       /\ Begin([op |-> "copy", row |-> m, to |-> to, ver |-> m.ver,
                 seen |-> IF Exchange THEN {} ELSE {HashAt(rows[Mounted], to)}])

\* The version the copy has at the new name.
CopyVersion(to) == Get(rows'[Mounted], to).ver

\* A Rename that goes on to Delete when the copy failed.
RenameCopyUnchecked ==
  LET ok == call' = [call EXCEPT !.op = "delete"]
  IN  /\ call.op = "copy"
      /\ MountPutFile(call.to, call.row.hash, call.row.attr, call.seen, ok, ok)
      /\ UNCHANGED handle

\* The copy is written under the new name; an error leaves both names alone.
RenameCopy ==
  LET ok == call' = [call EXCEPT !.op = "delete", !.ver = CopyVersion(call.to)]
  IN  /\ call.op = "copy"
      /\ \/ /\ call.row.kind = "dir"
            /\ TreeWrite(PutDir(Mounted, call.to, call.row.attr, call.seen),
                         HasDir(Mounted, call.to, call.row.attr), ok, Done)
         \/ /\ call.row.kind = "file"
            /\ IF call.row.hash \in blobs[Mounted]
               THEN MountPutFile(call.to, call.row.hash, call.row.attr,
                                 call.seen, ok, Done)
               ELSE Done /\ UNCHANGED vars
      /\ UNCHANGED handle

---------------------------------------------------------------------------
(* Setattr: truncate first, then mode and owner. *)

\* h is the descriptor of an ftruncate or of an open that truncates, or none.
BeginSetattr(p, h) ==
  \E m \in At(p), a \in Attr :
    \/ /\ m.kind = "file"
       /\ h \in Handle => handle[h].open /\ handle[h].path = p
       /\ \E c \in Resized[m.hash] :
            Begin([op |-> "truncate", row |-> m, attr |-> a, content |-> c, fh |-> h])
    \/ a # m.attr /\ Begin([op |-> "attr", row |-> m, attr |-> a])

\* The handle is not told: its buffer keeps the content of before.
Truncated ==
  /\ handle' = IF call.fh \in Handle /\ handle[call.fh].open
               THEN [handle EXCEPT ![call.fh].expects = call.content,
                                   ![call.fh].saved = call.content]
               ELSE handle
  /\ call' = IF call.attr = call.row.attr THEN NoCall
             ELSE [op |-> "attr", row |-> call.row, attr |-> call.attr]

SetattrSize ==
  /\ call.op = "truncate"
  /\ IF call.row.hash \in blobs[Mounted]
     THEN MountPutFile(call.row.path, call.content, call.row.attr,
                       {call.row.hash}, Truncated, Done /\ UNCHANGED handle)
     ELSE Done /\ UNCHANGED <<vars, handle>>

\* An attribute change that writes back the row it read.
SetattrModeStale ==
  /\ call.op = "attr"
  /\ MountPutFile(call.row.path, call.row.hash, call.attr, {call.row.hash}, TRUE, TRUE)
  /\ Done /\ UNCHANGED handle

\* tree.SetAttr reads the row again under the lock.
SetattrMode ==
  /\ call.op = "attr"
  /\ TreeWrite(\E cur \in At(call.row.path) : SetAttr(Mounted, cur, call.attr),
               \A cur \in At(call.row.path) : cur.attr = call.attr, TRUE, TRUE)
  /\ Done /\ UNCHANGED handle

---------------------------------------------------------------------------

\* The process ends: buffers and calls in progress are gone.
MountLost ==
  /\ Restart(Mounted)
  /\ handle' = [h \in Handle |-> Closed]
  /\ call' = NoCall

MountStep ==
  \/ \E h \in Handle :
       \/ \E c \in Content : Write(h, c)
       \/ \E p \in Names : Open(h, p)
       \/ Flush(h)
  \/ \E p \in Names :
       \/ \E op \in {"create", "mkdir"}, a \in Attr : BeginMake(op, p, a)
       \/ BeginRemove(p)
       \/ \E to \in Names : BeginRename(p, to)
       \/ \E h \in Handle \cup {"none"} : BeginSetattr(p, h)
  \/ Create \/ Mkdir \/ Remove \/ RenameCopy \/ SetattrSize \/ SetattrMode
  \/ MountLost

\* The rest of the cluster, and the mounted node's own pulls and janitor. What
\* becomes of whole peers is Replication's matter.
ClusterStep ==
  \/ \E n \in Writer : head[n] < MaxFeed /\ UserWrite(n)
  \/ Collect(Mounted)
  \/ \E n \in Node : \E q \in Peers(n) :
       PullStep(n, q) \/ LockWrite(n, q) \/ AbortPull(n, q)
  \/ Tick

MountNext == MountStep \/ (ClusterStep /\ UNCHANGED mountVars)

MountSpec == MountInit /\ [][MountNext]_allVars

---------------------------------------------------------------------------
(* Properties. *)

\* A rename deletes the old name only when the tree has the file under the new
\* one: the copy itself, or something written there since, whatever pulls and
\* failures do between the copy and the delete ("copy-then-delete").
RenameKeepsFile ==
  [][call.op = "delete" /\ Done /\ Wrote =>
       \E m \in rows[Mounted] :
         /\ m.path = call.to
         /\ m.hash = call.row.hash \/ After(m.ver, call.ver)]_allVars

\* A chmod never brings back content: the call reads the entry, a pull may
\* replace it, and only then the attributes are written.
ChmodKeepsContent ==
  [][call.op = "attr" /\ Done /\ Wrote =>
       HashAt(rows'[Mounted], call.row.path) = HashAt(rows[Mounted], call.row.path)]_allVars

\* A close that reported success has stored what the program wrote, also when an
\* earlier close of the same descriptor failed. (A descriptor whose buffer an
\* ftruncate has left behind is BufferIsCurrent's matter.)
SuccessMeansStored ==
  \A h \in Handle :
    handle[h].open /\ ~handle[h].dirty /\ handle[h].buf = handle[h].expects
      => handle[h].saved = handle[h].expects

\* "Refuse at the write that crosses the limit rather than at flush": a buffer
\* always fits, the one an Open filled from the tree too, so that a close never
\* fails for size. That the tree holds nothing larger is validate's doing.
BuffersFit ==
  \A h \in Handle : handle[h].open => handle[h].buf \notin TooLarge[Mounted]

---------------------------------------------------------------------------
(* Promises of the repository's text, or of any file system, that the code *)
(* does not keep.                                                          *)

\* A step of the mount loses no peer's edit that its caller had not seen: the
\* row it replaces names that edit as its PrevHash, and the peer accepts.
LosesNoUnseenEdit ==
  \A r \in Live(rows[Mounted]) :
    /\ r.ver.origin # Mounted /\ r.hash # NoHash
    /\ HashAt(rows'[Mounted], r.path) # r.hash
    => r.hash \in over'

\* "A genuinely concurrent edit does not silently lose one side", for a close.
FlushLosesNoEdit ==
  [][handle' # handle /\ UNCHANGED call /\ Wrote => LosesNoUnseenEdit]_allVars

\* The same for a file that is made where Lookup had found none.
CreateLosesNoEdit ==
  [][call.op = "create" /\ Done /\ Wrote => LosesNoUnseenEdit]_allVars

\* The same for a rename, both names considered.
RenameLosesNoEdit ==
  [][call.op \in {"copy", "delete"} /\ call' # call /\ Wrote => LosesNoUnseenEdit]_allVars

\* What a handle holds is what its program takes the file to contain.
BufferIsCurrent ==
  \A h \in Handle : handle[h].open => handle[h].buf = handle[h].expects

\* "Rmdir removes a directory, refusing while it still has children."
RmdirLeavesNoOrphan ==
  [][call.op = "remove" /\ Done /\ Wrote => Below(call.row.path) = {}]_allVars

\* A name that was renamed or unlinked stays gone until somebody makes it anew:
\* closing a descriptor does not bring it back.
CloseMakesNoName ==
  [][handle' # handle /\ UNCHANGED call /\ Wrote =>
       \A m \in Live(rows'[Mounted]) : Have(Live(rows[Mounted]), m.path)]_allVars
===========================================================================
