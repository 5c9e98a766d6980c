SPECIFICATION FairSpec
CONSTANTS
  Path <- OneFile
  Content = {c1, c2}
  NoHash = NoHash
  Owner = {o}
  Self = o
  IsRoot = TRUE
  Privileged = TRUE
  TooLarge = {c2}
  QueueCap = 1
  MaxTime = 2
  Limit <- QuietLimit
INVARIANTS
  TypeOK
PROPERTIES
  
  MirrorConverges
