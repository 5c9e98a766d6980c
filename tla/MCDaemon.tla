---------------------------- MODULE MCDaemon -------------------------------
(* Daemon for TLC: two peers, on addresses of their own or on shared ones. *)
EXTENDS Daemon, TLC

CONSTANTS p, q, a, b

\* A node of its own with a mirror and a mount.
Alone == [projected |-> TRUE, home |-> [r \in Peer |-> {}]]

\* A node that only replicates, and a peer that moves between two addresses.
Moving == [projected |-> FALSE, home |-> p :> {a, b} @@ [r \in Peer |-> {}]]

\* A node that only replicates, and two peers on addresses they both may get.
Sharing == [projected |-> FALSE, home |-> [r \in Peer |-> {a, b}]]

AloneOrMoving == {Alone, Moving}
OnlyMoving == {Moving}
OnlySharing == {Sharing}
===========================================================================
