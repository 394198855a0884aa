SPECIFICATION MCSpec
CONSTANTS
  None = None
  Caller = {c1, c2, c3}
  Absent = Absent
  Manifest <- MCManifest
  MaxTries = 3
  MaxFaults = 2
INVARIANTS PlanFaithful VisiblePinned ReadyVisible
PROPERTIES TreesKept RestartsAgree
CHECK_DEADLOCK FALSE
