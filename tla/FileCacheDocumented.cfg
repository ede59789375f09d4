SPECIFICATION Spec
CONSTANTS
  a = a  b = b  c = c
  Paths = {a}
  Born <- EachItsFile
  Shards = {1}
  ShardOf <- OneShard
  Capacity = 1
  Ttl = 2
  Workers = {w1, w2}
  MaxInode = 3
  Stall = 2
  MaxTime = 4
  MaxChanges = 2
  MaxLookups = 6
  None = None
INVARIANTS DocumentedStaleness
SYMMETRY WorkerSymmetry
CHECK_DEADLOCK FALSE
