SPECIFICATION MCSpec
CONSTANTS
  Part = {"sharing"}
  Repo <- MCRepo
  Object <- MCObject
  Refs <- MCRefs
  Roots <- MCRoots
  Reader = {p}
  MaxGen = 3
  MaxPins = 1
  MaxCrashes = 1
  StaleDedupe = TRUE
INVARIANT ReadyReadable
CHECK_DEADLOCK FALSE
