CONSTANTS
  Requests = {r1, r2}
  Half = 4
  Asks <- MCAsks
  Page <- MCPage
  Cwds = {TRUE, FALSE}
  Spread = 2
  MaxTime = 1
  None = None
SPECIFICATION Spec
INVARIANTS PortraitFromOwnAnswer LeaksOnlyByFailure
SYMMETRY Symm
CHECK_DEADLOCK FALSE
