SPECIFICATION Spec
CONSTANTS
  a = a  b = b  c = c
  Paths = {a, b, c}
  Born <- EachItsFile
  Shards = {1}
  ShardOf <- OneShard
  Capacity = 2
  Ttl = 1
  Workers = {w1, w2}
  MaxInode = 4
  Stall = 1
  MaxTime = 0
  MaxChanges = 1
  MaxLookups = 10
  None = None
INVARIANTS FdBound
PROPERTIES ImplementsLru
SYMMETRY WorkerSymmetry
CHECK_DEADLOCK FALSE
