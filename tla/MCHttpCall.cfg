CONSTANTS
  c1 = c1 c2 = c2
  Calls = {c1, c2}
  MaxTries = 2
  MaxOpen = 2
SPECIFICATION FairSpec
INVARIANTS TypeOK PostAtMostOnce AnswerIsWhole
PROPERTIES EventuallyReturns CallerSpec
CHECK_DEADLOCK FALSE
