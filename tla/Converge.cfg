SPECIFICATION FairSpec
CONSTANTS
  MaxClockDrift = 1
  CounterMod = 32
  Node <- ThreeNodes
  Name = {f}
  Content = {c1, c2}
  NoHash = NoHash
  Attr = {a}
  Wall <- InStep
  MaxSkew = 1
  TooLarge <- AllFit
  PageSize = 4
  Writer <- ThreeNodes
  Link <- Ring
  TombstoneTTL = 1
  MaxTime = 1
  Limit <- TwoWrites
PROPERTIES
  Converges
