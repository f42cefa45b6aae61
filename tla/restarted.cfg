SPECIFICATION DrainSpec
CONSTANTS
  r1 = r1
  r2 = r2
  i1 = i1
  Records = {r1, r2}
  Requests = {p1, p2}
  Starts = {n1, n2}
  SeedStarts = {n1, n2}
  SeedIds <- SeedBoth
  SeedDoc <- SeedDocs
  Users = {u1}
  Admins = {}
  Infos = {i1}
  Quantities = {1}
  Stocks = {1}
  MaxItems = 1
  MaxInt = 2
  Shelves <- Empty
  Ops = {"create", "cancel", "restock"}
  Faults = TRUE
  MaxInFlight = 3
  NoRecord = NoRecord
  NoOrder = NoOrder
  NoRequest = NoRequest
  NoInfo = NoInfo
  NoStart = NoStart
INVARIANTS PromisesKept GracefulAnswersAll CatalogueReady
PROPERTIES ShutdownEnds
