------------------------------ MODULE MCMirror ------------------------------
(* Values for the constants of Mirror: one or two files, and for each        *)
(* question the environment events it needs.                                 *)
EXTENDS Mirror, TLC

\* An environment that does nothing but the events named.
Allow(events) == [e \in EnvEvent |-> IF e \in DOMAIN events THEN events[e] ELSE 0]

OneFile == {1}

ContentSymmetry == Permutations(Content)

OfflineLimit == Allow([offline |-> 2, put |-> 2, stop |-> 1])
QuietLimit ==
  Allow([edit |-> 1, remove |-> 1, put |-> 1, delete |-> 1, lose |-> 1,
         stop |-> 1, fault |-> 1])
EditAndPut == Allow([edit |-> 1, put |-> 1])
TwoPuts == Allow([put |-> 2])
OneEdit == Allow([put |-> 1, edit |-> 1])
PutDeletePut == Allow([put |-> 2, delete |-> 1])
PutEditOffline == Allow([put |-> 1, stop |-> 1, offline |-> 1])
PutEditOfflineFault == Allow([put |-> 1, stop |-> 1, offline |-> 1, fault |-> 1])
CreateAgain == Allow([put |-> 2, delete |-> 1, stop |-> 1, offline |-> 1])
PutStop == Allow([put |-> 1, stop |-> 1])
=============================================================================
