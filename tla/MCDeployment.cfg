CONSTANTS
  Scripts = {s1, s2}
  Pids = {p1, p2, p3}
  NoPid = NoPid
  Overlap = FALSE
SPECIFICATION FairSpec
INVARIANTS JvmInv AtMostOneServer EveryServerHasPidFile ConfigBeforeUse ImporterLives
PROPERTIES PortLostToStrangerOnly EventuallyUp ScriptSpec
