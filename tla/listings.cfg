SPECIFICATION Spec
CONSTANTS
  a1 = a1
  l1 = l1
  l2 = l2
  u1 = u1
  Auctions = {a1}
  Lots = {l1, l2}
  Users = {u1}
  PageSize = 1
  SafetyLimit = 2
  BatchSize = 2
INVARIANTS TypeOK ImportComplete CopartFavouritesShown
PROPERTIES SyncEnds
CHECK_DEADLOCK FALSE
