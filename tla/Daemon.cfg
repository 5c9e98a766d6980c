SPECIFICATION FairSpec
CONSTANTS
  p = p
  q = q
  a = a
  b = b
  Peer = {p}
  Addr = {a, b}
  NoAddr = NoAddr
  Setup <- AloneOrMoving
  EventBuffer = 1
  LateCallbacks = TRUE
  MaxHead = 2
  MaxFeed = 2
  MaxFaults = 1
INVARIANTS
  TypeOK
  NoLostWakeup
PROPERTIES
  ChangesNoticed
  RendersLatest
  Stops
CHECK_DEADLOCK FALSE
