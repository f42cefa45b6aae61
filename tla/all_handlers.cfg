SPECIFICATION RacesSpec
CONSTANTS
  r1 = r1
  r2 = r2
  Records = {r1, r2}
  Requests = {p1, p2, p3}
  Users = {u1, u2}
  Admins = {u2}
  i1 = i1
  Infos = {i1, i2}
  Quantities = {1}
  Stocks = {1}
  MaxItems = 2
  MaxInt = 3
  Shelves <- FirstRecord
  Ops = {"create", "cancel", "restock", "update", "archive", "add"}
  Faults = TRUE
  MaxInFlight = 3
  NoRecord = NoRecord
  NoOrder = NoOrder
  NoRequest = NoRequest
  NoInfo = NoInfo
SYMMETRY Symmetry
INVARIANTS TypeOK StockNonNegative OrderMatchesRequest PromisesKept CancelledByRight SalesTaken ReturnedByAttempts BooksBalance RefundedOnce
PROPERTIES OrderFrozen FieldDiscipline
