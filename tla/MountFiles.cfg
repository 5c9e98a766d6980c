SPECIFICATION MountSpec
CONSTANTS
  MaxClockDrift = 1
  CounterMod = 32
  Node <- TwoNodes
  e = e
  c1 = c1
  c2 = c2
  big = big
  f = f
  g = g
  Name = {f}
  Content = {e, c1, big}
  NoHash = NoHash
  Attr = {a}
  Wall <- InStep
  MaxSkew = 1
  TooLarge <- FirstAcceptsLess
  PageSize = 4
  Writer <- PeerWrites
  Link <- OneWay
  TombstoneTTL = 1
  MaxTime = 2
  Limit <- FilesLimit
  Mounted = 1
  Handle = {h}
  Empty = e
  Resized <- ToEmpty
  Inside <- Flat
  AtomicTrunc = FALSE
  Exchange = FALSE
  MaxFeed = 2
INVARIANTS
  MountTypeOK
  SuccessMeansStored
  BuffersFit
