SPECIFICATION MountSpec
CONSTANTS
  MaxClockDrift = 1
  CounterMod = 32
  Node <- TwoNodes
  e = e
  c1 = c1
  c2 = c2
  big = big
  f = f
  g = g
  Name = {f, g}
  Content = {e, c1}
  NoHash = NoHash
  Attr = {a, b}
  Wall <- InStep
  MaxSkew = 1
  TooLarge <- FirstAcceptsLess
  PageSize = 4
  Writer <- PeerWrites
  Link <- OneWay
  TombstoneTTL = 1
  MaxTime = 1
  Limit <- MountLimit
  Mounted = 1
  Handle = {}
  Empty = e
  Resized <- ToEmpty
  Inside <- Flat
  AtomicTrunc = FALSE
  Exchange = FALSE
  MaxFeed = 2
SYMMETRY Symmetric
PROPERTIES
  RenameKeepsFile
  ChmodKeepsContent
