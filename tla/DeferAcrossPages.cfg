SPECIFICATION Spec
CONSTANTS
  MaxClockDrift = 1
  CounterMod = 32
  Node <- TwoNodes
  Name = {f, g}
  Content = {c1, c2}
  NoHash = NoHash
  Attr = {a}
  Wall <- InStep
  MaxSkew = 1
  TooLarge <- AllFit
  PageSize = 1
  Writer <- TwoNodes
  Link <- OneWay
  TombstoneTTL = 1
  MaxTime = 1
  Limit <- TwoWritesFault
INVARIANTS
  BookmarkSound
