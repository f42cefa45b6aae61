SPECIFICATION IdempotencySpec
CONSTANTS
  i1 = i1
  Records = {r1}
  Requests = {p1, p2, p3}
  Keys = {k1, k2}
  Starts = {n1, n2}
  SeedStarts = {}
  SeedIds <- NoSeeds
  SeedDoc <- SeedDocs
  Users = {u1}
  Admins = {}
  Infos = {i1}
  Quantities = {1}
  Stocks = {1}
  MaxItems = 2
  MaxInt = 2
  Shelves <- TwoLeft
  Ops = {"create"}
  Faults = FALSE
  MaxInFlight = 3
  NoRecord = NoRecord
  NoOrder = NoOrder
  NoRequest = NoRequest
  NoInfo = NoInfo
  NoStart = NoStart
  NoCart = NoCart
  NoKey = NoKey
SYMMETRY Symmetry
INVARIANTS IdempotencyTypeOK OncePerKey SameAnswer StockConserved RefusedOnlyWhenShort
PROPERTY BuysAsPromised
