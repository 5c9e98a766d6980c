------------------------------ MODULE MCMount ------------------------------
(***************************************************************************)
(* Values for the constants of Mount: node 1 has the mount and pulls from  *)
(* node 2, whose users write.                                              *)
(***************************************************************************)
EXTENDS Mount, TLC

CONSTANTS e, c1, c2, big, f, g

Allow(events) == [x \in EnvEvent |-> IF x \in DOMAIN events THEN events[x] ELSE 0]

TwoNodes == {1, 2}
PeerWrites == {2}
OneWay == {<<1, 2>>}
InStep == [n \in Node |-> [t \in 1 .. MaxTime |-> t]]
FirstAcceptsLess == [n \in Node |-> IF n = 1 THEN {big} \cap Content ELSE {}]
ToEmpty == [c \in Content |-> {Empty} \ {c}]
Flat == {}
Nested == {<<g, f>>}
Symmetric == Permutations({f, g}) \cup Permutations(Attr)
TwoWritesFault == Allow([write |-> 2, fault |-> 1])
MountLimit == Allow([write |-> 3, fault |-> 1])
FilesLimit == Allow([write |-> 2, fault |-> 1, restart |-> 1, collect |-> 1])
FourWrites == Allow([write |-> 4])
ThreeWrites == Allow([write |-> 3])
===========================================================================
