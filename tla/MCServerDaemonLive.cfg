CONSTANTS
  Scripts = {s1, s2}
  Pids = {p1, p2}
  NoPid = NoPid
  Overlap = TRUE
SPECIFICATION FairSpec
INVARIANT TypeOK
PROPERTY StopEnds
