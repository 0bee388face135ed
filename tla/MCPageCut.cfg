CONSTANTS
  Times <- Pieces
  Start <- Starts
  MaxPieces <- Lengths
  LogLen = 3
SPECIFICATION Spec
INVARIANTS IdsAreListed ContentIsTitle UserIsOwn ArticlesAreOwn
CHECK_DEADLOCK FALSE
