SPECIFICATION MCSpec
CONSTANTS
  h1 = h1
  h2 = h2
  t1 = t1
  t2 = t2
  t3 = t3
  b1 = b1
  c1 = c1
  c2 = c2
  k1 = k1
  Blob = {b1}
  Thread = {t1, t2, t3}
  Handle = {h1, h2}
  HandleOf <- MCHandleOf
  Free = Free
  MaxFaults = 1
  MaxCalls = 1
  Client = {c1, c2}
  Coordinator = {k1}
  CoordinatorOf <- MCCoordinatorOf
  Nobody = Nobody
  Entry = {1, 2}
  Size <- MCSize
  HostReserve = 1
  GuestReserve = 1
  HostBytes = 2
  GuestBytes = 2
  MaxProjected = 1
  MaxOther = 1
INVARIANTS EntriesSound AdmissionSound
PROPERTIES ReservesKept CallsReturn
CHECK_DEADLOCK FALSE
