SPECIFICATION FeedSpec
CONSTANTS
  Pieces <- AllPieces
  MaxPiece = 5
  MaxHead = 7
INVARIANTS EndIsFirst
CHECK_DEADLOCK FALSE
