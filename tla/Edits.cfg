SPECIFICATION Spec
CONSTANTS
  MaxClockDrift = 1
  CounterMod = 32
  Node <- TwoNodes
  Name = {f}
  Content = {c1, c2, c3}
  NoHash = NoHash
  Attr = {a}
  Wall <- FirstCorrected
  MaxSkew = 1
  TooLarge <- AllFit
  PageSize = 4
  Writer <- TwoNodes
  Link <- Everyone
  TombstoneTTL = 1
  MaxTime = 2
  Limit <- ThreeWrites
SYMMETRY ContentSymmetry
INVARIANTS
  FeedWellFormed
  VersionsIdentifyWrites
  NoEditLost
PROPERTIES
  ImplementsLWW
