-------------------------------- MODULE LWW --------------------------------
(***************************************************************************)
(* What the replicated tree promises, without feeds, bookmarks, digests,   *)
(* pages, blobs or clocks: a map from paths to writes at every node, where *)
(* the later write of a path wins, a node's own write is later than all    *)
(* that the node holds, and nothing is ever held that was not written.     *)
(*                                                                         *)
(* An entry is the replicated part of a core.Meta: path, kind, hash, attr, *)
(* ver and deleted.                                                        *)
(***************************************************************************)
EXTENDS HLC

CONSTANT Node

VARIABLES
  held,    \* held[n]: the entries n holds, one per path
  carried  \* carried[n]: the entries n has received or prepared, not yet held

Init ==
  /\ held = [n \in Node |-> {}]
  /\ carried = [n \in Node |-> {}]

\* The entries of S take the places of those of their paths.
Put(H, S) == {e \in H : \A s \in S : s.path # e.path} \cup S

\* e is a write of n that comes after everything n holds.
OwnAndLatest(n, e) ==
  /\ e.ver.origin = n
  /\ \A h \in held[n] : After(e.ver, h.ver)

\* n carries nothing but what it carried before and the entries of S.
CarryAtMost(n, S) ==
  /\ carried'[n] \subseteq carried[n] \cup S
  /\ carried' = [carried EXCEPT ![n] = carried'[n]]

\* A user of n writes, deletes or changes attributes.
Write(n) ==
  /\ \E e \in held'[n] :
       OwnAndLatest(n, e) /\ held' = [held EXCEPT ![n] = Put(@, {e})]
  /\ UNCHANGED carried

\* n receives entries a peer holds, as the peer holds them, or gives up some.
Receive(n) ==
  /\ \E q \in Node : CarryAtMost(n, held[q])
  /\ UNCHANGED held

\* n is to lose an edit of a path, and prepares to keep it under another name.
KeepCopy(n) ==
  /\ \E c \in carried'[n], h \in held[n] :
       /\ OwnAndLatest(n, c)
       /\ ~h.deleted /\ c = [h EXCEPT !.path = c.path, !.ver = c.ver]
       /\ c.path # h.path
       /\ CarryAtMost(n, {c})
  /\ UNCHANGED held

\* n takes up entries it carries, one per path, each later than what it replaces.
Install(n) ==
  /\ \E S \in SUBSET carried[n] :
       /\ \A s, t \in S : s.path = t.path => s = t
       /\ \A s \in S, h \in held[n] : s.path = h.path => After(s.ver, h.ver)
       /\ held' = [held EXCEPT ![n] = Put(@, S)]
  /\ CarryAtMost(n, {})

\* n forgets deletions.
Forget(n) ==
  /\ \E S \in SUBSET {h \in held[n] : h.deleted} :
       held' = [held EXCEPT ![n] = @ \ S]
  /\ UNCHANGED carried

\* n starts again with nothing.
Reset(n) ==
  /\ held' = [held EXCEPT ![n] = {}]
  /\ carried' = [carried EXCEPT ![n] = {}]

Next ==
  \E n \in Node :
    \/ Write(n) \/ Receive(n) \/ KeepCopy(n) \/ Install(n)
    \/ Forget(n) \/ Reset(n)

Spec == Init /\ [][Next]_<<held, carried>>
===========================================================================
