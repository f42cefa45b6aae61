SPECIFICATION RacesSpec
CONSTANTS
  r1 = r1
  r2 = r2
  Records = {r1}
  Requests = {p1, p2, p3, p4}
  Users = {u1}
  Admins = {}
  i1 = i1
  Infos = {i1}
  Quantities = {1}
  Stocks = {1}
  MaxItems = 1
  MaxInt = 7
  Shelves <- OneLeft
  Ops = {"create", "restock"}
  Faults = FALSE
  MaxInFlight = 4
  NoRecord = NoRecord
  NoOrder = NoOrder
  NoRequest = NoRequest
  NoInfo = NoInfo
SYMMETRY Symmetry
INVARIANT NoOversell
