SPECIFICATION LifecycleSpec
CONSTANTS
  r1 = r1
  r2 = r2
  i1 = i1
  Records = {r1}
  Requests = {p1}
  Starts = {n1, n2}
  SeedStarts = {n1, n2}
  SeedIds <- SeedR1
  SeedDoc <- SeedDocs
  Users = {u1}
  Admins = {}
  Infos = {i1}
  Quantities = {1}
  Stocks = {1}
  MaxItems = 1
  MaxInt = 7
  Shelves <- Empty
  Ops = {"create"}
  Faults = FALSE
  MaxInFlight = 3
  NoRecord = NoRecord
  NoOrder = NoOrder
  NoRequest = NoRequest
  NoInfo = NoInfo
  NoStart = NoStart
SYMMETRY Symmetry
PROPERTIES SeedOnlyAdds
