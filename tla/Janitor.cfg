SPECIFICATION Spec
CONSTANTS
  MaxClockDrift = 1
  CounterMod = 32
  Node <- TwoNodes
  Name = {f}
  Content = {c1, c2}
  NoHash = NoHash
  Attr = {a}
  Wall <- InStep
  MaxSkew = 1
  TooLarge <- AllFit
  PageSize = 4
  Writer <- TwoNodes
  Link <- OneWay
  TombstoneTTL = 0
  MaxTime = 2
  Limit <- JanitorLimit
SYMMETRY ContentSymmetry
INVARIANTS
  TypeOK
  ContentHeld
PROPERTIES
  ImplementsLWW
