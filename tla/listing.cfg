SPECIFICATION ListingFairSpec
CONSTANTS
  r1 = r1
  r2 = r2
  Records = {r1, r2}
  Requests = {p1, p2}
  Users = {u1, u2}
  Admins = {u2}
  i1 = i1
  Infos = {i1}
  Quantities = {1}
  Stocks = {1}
  MaxItems = 2
  MaxInt = 3
  Shelves <- FirstRecord
  Ops = {"create", "cancel", "archive", "add"}
  Faults = TRUE
  MaxInFlight = 2
  Readers = {b1}
  PerPage = 1
  LowStockThreshold = 1
  NoRecord = NoRecord
  NoOrder = NoOrder
  NoRequest = NoRequest
  NoInfo = NoInfo
  NoWalk = NoWalk
INVARIANTS ListingTypeOK WalkComplete TotalReached SeenByRight InventoryAgrees
PROPERTY EveryRequestAnswered
