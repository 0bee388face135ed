CONSTANTS
  Scripts = {s1, s2}
  Pids = {p1, p2}
  NoPid = NoPid
  Overlap = FALSE
SPECIFICATION Spec
PROPERTY RefusesOnlyIfRunning
