SPECIFICATION MCSpec
CONSTANTS
  Part = {"sharing", "retirement"}
  Repo <- MCRepo
  Object <- MCObject
  Refs <- MCRefs
  Roots <- MCRoots
  Reader = {p}
  MaxGen = 3
  MaxPins = 1
  MaxCrashes = 1
  StaleDedupe = FALSE
INVARIANTS ReadyReadable LeaseProtects
PROPERTIES RetiresUnused RetryRetires
CHECK_DEADLOCK FALSE
