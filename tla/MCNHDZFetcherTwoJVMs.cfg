CONSTANTS
  d1 = d1 d2 = d2 d3 = d3 gone = gone broken = broken
  c1 = c1 c2 = c2 c3 = c3
  f1 = f1 f2 = f2
  Fetchers = {f1, f2}
  DZs = {d1, d2}
  Comments = {c1, c2}
  Owner <- TinyOwner
  Listings <- TinyListings
  CommentPages <- TinyPages
  Gone = {}
  Broken = {}
  NoDz = NoDz
  ExistingIsError = TRUE
  MaxLate = 1
SPECIFICATION Spec
INVARIANTS RowsMatchSite OrphanOnlyAfterRefusal NothingSkipped
SYMMETRY Symm
PROPERTY StoreSpec
CHECK_DEADLOCK FALSE
