--------------------------- MODULE MCReplication ---------------------------
(***************************************************************************)
(* Values for the constants of Replication: two nodes, or three, and for   *)
(* each question the environment events it needs.                          *)
(***************************************************************************)
EXTENDS ReplicationRefinement, TLC

\* An environment that does nothing but the events named.
Allow(events) == [e \in EnvEvent |-> IF e \in DOMAIN events THEN events[e] ELSE 0]

TwoNodes == {1, 2}
ThreeNodes == {1, 2, 3}
OneWriter == {1}
\* Machine clocks: all right; or node 1's ahead by k at first, then corrected;
\* or ahead all along, by no more than a peer tolerates.
InStep == [n \in Node |-> [t \in 1 .. MaxTime |-> t]]
Corrected(k) == [n \in Node |-> [t \in 1 .. MaxTime |-> IF n = 1 /\ t = 1 THEN 1 + k ELSE t]]
FirstCorrected == Corrected(2)
FirstFarAhead == Corrected(3)
FirstAhead == [n \in Node |-> [t \in 1 .. MaxTime |-> IF n = 1 THEN t + 1 ELSE t]]
AllFit == [n \in Node |-> {}]
FirstAcceptsLess == [n \in Node |-> IF n = 1 THEN {CHOOSE c \in Content : TRUE} ELSE {}]

ContentSymmetry == Permutations(Content)

Everyone == {nq \in Node \X Node : nq[1] # nq[2]}
\* Three nodes, each pulling from the next: entries travel through a third.
Ring == {<<1, 2>>, <<2, 3>>, <<3, 1>>}

\* Only node 1 has reached its peer so far.
OneWay == {<<1, 2>>}

ThreeWrites == Allow([write |-> 3])
FourWrites == Allow([write |-> 4])
TwoWrites == Allow([write |-> 2])
TwoWritesCollect == Allow([write |-> 2, collect |-> 1])
TwoWritesFault == Allow([write |-> 2, fault |-> 1])
TwoWritesFaults == Allow([write |-> 2, fault |-> 2])
ThreeWritesFault == Allow([write |-> 3, fault |-> 1])
ThreeWritesRestart == Allow([write |-> 3, restart |-> 1])
ThreeWritesWipe == Allow([write |-> 3, wipe |-> 1])
PagesLimit == Allow([write |-> 3, restart |-> 1])
JanitorLimit == Allow([write |-> 3, collect |-> 1, wipe |-> 1, fault |-> 1])
===========================================================================
