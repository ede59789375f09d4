SPECIFICATION FairSpec
CONSTANTS
  d = d  f = f  g = g
  Files = {f, g}
  Dirs = {d}
  Walk <- TwoFiles
  Chunk = 2
  Queue = 2
  MaxSize = 3
  Nothing = Nothing
INVARIANTS MemoryBound ContentIsWhatWasRead ProtocolKept FinishedIsComplete
CHECK_DEADLOCK FALSE
PROPERTIES BothEnd
