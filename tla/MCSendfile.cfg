SPECIFICATION FairSpec
CONSTANTS
  Answers <- Mixed
  FileSize = 3
  PhantomLen = 2
  SockCap = 2
  MaxResponses = 2
  NoPlan = NoPlan
INVARIANTS TypeOK WireIsPrefix FlushedIsSent CleanBetweenResponses FailsOnlyForCause ParkedIsRegistered
PROPERTIES Delivery ImplementsHttpWire
CHECK_DEADLOCK FALSE
