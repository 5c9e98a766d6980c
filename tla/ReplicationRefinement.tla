----------------------- MODULE ReplicationRefinement -----------------------
(***************************************************************************)
(* Replication implements LWW. A node holds what its entries table says of *)
(* the replicated fields; it carries what its pulls have in their pages    *)
(* and batches, wherever they stand.                                       *)
(***************************************************************************)
EXTENDS Replication

held == [n \in Node |-> Digest(rows[n])]

carried ==
  [n \in Node |->
     Digest(UNION {pull[n][q].page \cup pull[n][q].batch : q \in Node})]

Abstract == INSTANCE LWW WITH held <- held, carried <- carried

\* Behind feeds, bookmarks and pages that fail, repeat and overtake each other,
\* the cluster is a last-writer-wins map: no step of any node makes it hold an
\* entry nobody wrote, put an earlier write in the place of a later one (the
\* decision of resolve and the commit of the batch being apart), or stamp a
\* write, or a conflict copy, earlier than something the node holds.
ImplementsLWW == Abstract!Spec
===========================================================================
