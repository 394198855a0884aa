SPECIFICATION MCSpec
CONSTANTS
  Chunk = {c1, c2}
  Content = {x1, x2}
  Key = {k1, k2}
  None = None
  Size <- MCSize
  FooterLen = 2
  Oversize = {}
  MaxRecords = 2
  MaxCrashes = 1
  ShortWrites = FALSE
  SyncErrorDropsPages = FALSE
  SyncPersistsEntry = TRUE
SYMMETRY Symmetry
INVARIANTS IndexedDurable SealedComplete
PROPERTIES SealedImmutable ImplementsDurableMap
CHECK_DEADLOCK FALSE
