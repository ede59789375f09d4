SPECIFICATION FairSpec
CONSTANTS
  Threads = {m, t, u}
  MainThread = m
  NumShards = 2
  Lengths = {2}
  Batch = 3
  PendingMax = 3
  MaxLines = 2
  Unassigned = Unassigned
INVARIANTS NothingLost ExitWritesAll
PROPERTIES EventuallyWritten
CHECK_DEADLOCK FALSE
