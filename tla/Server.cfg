SPECIFICATION Spec
CONSTANTS
  Clients = {c1, c2}
  Files = {f1, f2, f3}
  Limit = 3
  Capacity = 3
  Depth = 2
  MaxArrivals = 3
  MaxRequests = 3
  MaxChanges = 1
  None = None
INVARIANTS RoomForAConnection
PROPERTIES NobodyWaitsForEver
CHECK_DEADLOCK FALSE
