SPECIFICATION Spec
CONSTANTS
  MaxClockDrift = 1
  CounterMod = 4
  MaxWall = 3
  MaxRemote = 6
INVARIANTS
  TypeOK
  HoldsGreatest
  NeverDraggedAhead
PROPERTIES
  StrictlyIncreasing
