SPECIFICATION Spec
CONSTANTS
  Path <- OneFile
  Content = {c1, c2}
  NoHash = NoHash
  Owner = {o}
  Self = o
  IsRoot = TRUE
  Privileged = TRUE
  TooLarge = {}
  QueueCap = 2
  MaxTime = 3
  Limit <- OfflineLimit
SYMMETRY ContentSymmetry
PROPERTIES
  NoUserFileClobbered
