SPECIFICATION Spec
CONSTANTS
  None = None
  t1 = t1  t2 = t2
  b1 = b1  b2 = b2
  Names <- SomeNames
  Escape <- SomeEscape
  Digits = {"2", "3", "5", "F"}
  Depth = 2
  Files = {1, 2, 3}
  Objects <- SomeObjects
  WithTypes = {TRUE, FALSE}
  MaxChanges = 2
  Workers = {t1, t2}
  Interfaces <- SomeInterfaces
  MaxInterfaces = 2
  Ttl = 2
  Stall = 1
  MaxTime = 4
  MaxSwitches = 1
  Threads = {t1, t2}
  Requests <- SomeRequests
  Fixed = 2  Stack = 8  Keep = 12
  MaxLines = 2
  LastSecond = 3
  Bodies = {b1, b2}
  Description <- SomeDescription
  Start <- SomeStart
  Total <- SomeTotal
  BufferSize = 2
  FileSize = 3
  Dirs = {"", "a", "a/b"}
  Home = ""
  MaxMoves = 4
INVARIANTS ArrivesAtThePath LandsUnderItsName ListingIsOfItsTime AddressIsRight AnswersAreLogged BodyIsRange PageIsOfItsAddress
SYMMETRY WorkerSymmetry
CHECK_DEADLOCK FALSE
