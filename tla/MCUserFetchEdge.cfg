CONSTANTS
  Requests = {r1}
  Half = 4
  Asks <- EdgeAsks
  Page <- EdgePage
  Cwds = {TRUE, FALSE}
  Spread = 1
  MaxTime = 1
  None = None
SPECIFICATION FairSpec
INVARIANTS TypeOK ServesRangeInOrder
PROPERTIES EventuallyAnswered
CHECK_DEADLOCK FALSE
