CONSTANTS
  d1 = d1 d2 = d2 d3 = d3 gone = gone broken = broken
  c1 = c1 c2 = c2 c3 = c3
  f1 = f1 f2 = f2
  Fetchers = {f1}
  DZs = {d1, d2, d3, gone, broken}
  Comments = {c1, c2, c3}
  Owner <- MCOwner
  Listings <- SiteListings
  CommentPages <- SitePages
  Gone = {gone}
  Broken = {broken}
  NoDz = NoDz
  ExistingIsError = FALSE
  MaxLate = 1
SPECIFICATION Spec
INVARIANTS TypeOK RowsMatchSite OrphanOnlyAfterRefusal NothingSkipped SavesWholeListing StoredOnlyFromSoundListing
PROPERTY StoreSpec
CHECK_DEADLOCK FALSE
