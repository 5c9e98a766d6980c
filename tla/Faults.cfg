SPECIFICATION Spec
CONSTANTS
  MaxClockDrift = 1
  CounterMod = 32
  Node <- TwoNodes
  Name = {f}
  Content = {c1, c2}
  NoHash = NoHash
  Attr = {a, b}
  Wall <- InStep
  MaxSkew = 1
  TooLarge <- AllFit
  PageSize = 4
  Writer <- TwoNodes
  Link <- Everyone
  TombstoneTTL = 1
  MaxTime = 1
  Limit <- TwoWritesFaults
SYMMETRY ContentSymmetry
INVARIANTS
  ContentHeld
  BookmarkSound
PROPERTIES
  VersionNeverRegresses
