------------------------- MODULE IdempotencyProofs -------------------------
(***************************************************************************)
(* What customers can rely on, while nobody but customers writes.  First   *)
(* for the handlers of Shop alone: each store call of CreateOrder is a     *)
(* step of Purchase or a stutter, as a copy read by GetRecord still        *)
(* describes the record when its units are taken and a cart is the order   *)
(* that is saved; and nobody is refused who could have been served.  Then  *)
(* with the middleware and with instances that stop or die: a key buys     *)
(* once, all who use it are told the same, and the shop is still the one   *)
(* of Purchase.                                                            *)
(***************************************************************************)
EXTENDS Idempotency, LifecycleProofs

-----------------------------------------------------------------------------
(* The handlers implement Purchase *)

\* Nobody but customers writes.
Customers == \A p \in Requests : req[p] # NoRequest => req[p].op = "create"

\* The copy CreateOrder holds describes the record it is about to take units of.
Describes(p) == pc[p] = "DecrementStock" => /\ records[Line(p).id] # NoRecord
                                            /\ rec[p].info = records[Line(p).id].info

Faithful == Customers /\ \A p \in Requests : Describes(p)

Known == Typed /\ OrdersOK /\ Faithful

\* A record never goes, and never changes but in its stock, which only falls.
RecordsKept == \A r \in Records : records[r] # NoRecord =>
                   /\ records'[r] # NoRecord
                   /\ records'[r].info = records[r].info
                   /\ records'[r].archived = records[r].archived
                   /\ records'[r].stock <= records[r].stock

\* What the step of a handler has to be.
Step == Faithful' /\ RecordsKept /\ [Buying!Buy]_(Buying!buying)

\* No request, no copy.
LEMMA FaithfulInit == Init => Faithful
  BY DEF Init, Faithful, Customers, Describes

\* Whoever is at work creates an order, and has a cart.
LEMMA CustomerWorks ==
    ASSUME Known, NEW p \in Requests, pc[p] \in Calls
    PROVE  /\ At(p, "create", pc[p])
           /\ pc[p] \in {"GetRecord", "DecrementStock", "SaveOrder"}
           /\ CartOf[p] = ord[p].items
           /\ CartOf[p] # NoCart
           /\ orders[p] = NoOrder
<1>1. Control(p) /\ TypeOK /\ Customers /\ Building(p)
  BY DEF Known, Typed, ControlOK, Faithful, OrdersOK
<1>2. pc[p] # "idle" /\ pc[p] # "done"
  BY DEF Calls
<1>3. req[p] # NoRequest /\ req[p].op = "create"
  BY <1>1, <1>2 DEF Control, Customers
<1>4. pc[p] \in {"GetRecord", "DecrementStock", "SaveOrder"} /\ ord[p] \in Order
  BY <1>1, <1>3 DEF Control, Serving, Serves, CallsOf
<1>5. CartOf[p] = ord[p].items
  BY <1>2, <1>3 DEF CartOf, InFlight
<1> QED
  BY <1>1, <1>3, <1>4, <1>5, CartAssumption DEF At, Order, Building, Serves, Serving

\* A call that writes no record keeps them all.
LEMMA NoWriteKeeps ==
    ASSUME Known, UNCHANGED records
    PROVE  RecordsKept
<1>1. \A r \in Records : records[r] # NoRecord => records[r].stock \in Int
  BY IntAssumption DEF Known, Typed, TypeOK, Doc
<1> QED
  BY <1>1 DEF RecordsKept

\* Nor does DecrementStock change more than the stock of its record.
LEMMA DecrementKeeps ==
    ASSUME Known, NEW p \in Requests, At(p, "create", "DecrementStock"),
           CanDecrement(Line(p).id, Line(p).qty), Decrement(p)
    PROVE  RecordsKept
<1> DEFINE r == Line(p).id
<1> DEFINE n == Line(p).qty
<1>1. TypeOK
  BY DEF Known, Typed
<1>2. r \in Records /\ n \in 1..MaxInt
  <2>1. Line(p) \in Item
    BY Creating DEF Known, Calls
  <2> QED
    BY <2>1, StockRange DEF Item
<1>3. ASSUME NEW s \in Records, records[s] # NoRecord
      PROVE  /\ records'[s] # NoRecord /\ records'[s].info = records[s].info
             /\ records'[s].archived = records[s].archived /\ records'[s].stock <= records[s].stock
  <2>1. records[s] \in Doc /\ records[s].stock \in (-MaxInt - 1)..MaxInt
    BY <1>1, <1>3 DEF TypeOK, Doc
  <2>2. CASE s = r
    <3>1. records'[s] = [records[s] EXCEPT !.stock = @ - n]
      BY <1>1, <1>2, <2>2 DEF Decrement, TypeOK
    <3>2. /\ records'[s].stock = records[s].stock - n
          /\ records'[s].info = records[s].info /\ records'[s].archived = records[s].archived
      BY <2>1, <3>1 DEF Doc
    <3>3. records[s].stock >= n
      BY <2>2 DEF CanDecrement
    <3>4. records[s].stock - n \in (-MaxInt - 1)..MaxInt /\ records[s].stock - n <= records[s].stock
      BY <1>2, <2>1, <3>3, IntAssumption
    <3>5. records'[s] \in Doc
      BY <2>1, <3>1, <3>4 DEF Doc
    <3> QED
      BY <3>2, <3>4, <3>5, SentinelAssumption
  <2>3. CASE s # r
    <3>1. records'[s] = records[s]
      BY <1>1, <1>2, <2>3 DEF Decrement, TypeOK
    <3> QED
      BY <1>3, <2>1, <3>1, IntAssumption
  <2> QED
    BY <2>2, <2>3
<1> QED
  BY <1>3 DEF RecordsKept

\* A step of p changes no other cart.
LEMMA CartFrame ==
    ASSUME NEW p \in Requests, OnlyMoves(p)
    PROVE  CartOf' = [CartOf EXCEPT ![p] = CartOf'[p]]
<1>1. \A q \in Requests \ {p} : CartOf'[q] = CartOf[q]
  BY DEF CartOf, InFlight, OnlyMoves
<1> QED
  BY <1>1 DEF CartOf

\* The store call of another handler leaves a copy as good as it was.
LEMMA OthersDescribe ==
    ASSUME Known, Customers', NEW p \in Requests, OnlyMoves(p), RecordsKept,
           \A q \in Requests \ {p} : rec'[q] = rec[q],
           Describes(p)'
    PROVE  Faithful'
<1>1. ASSUME NEW q \in Requests \ {p} PROVE Describes(q)'
  <2>1. pc'[q] = pc[q] /\ req'[q] = req[q] /\ idx'[q] = idx[q] /\ rec'[q] = rec[q]
    BY DEF OnlyMoves
  <2>2. CASE pc[q] = "DecrementStock"
    <3>1. records[Line(q).id] # NoRecord /\ rec[q].info = records[Line(q).id].info
      BY <2>2 DEF Known, Faithful, Describes
    <3>2. Line(q).id \in Records
      BY <2>2, CustomerWorks, Creating DEF Known, Calls, Item
    <3>3. Line(q)' = Line(q)
      BY <2>1 DEF Line
    <3> QED
      BY <2>1, <3>1, <3>2, <3>3 DEF RecordsKept, Describes
  <2>3. CASE pc[q] # "DecrementStock"
    BY <2>1, <2>3 DEF Describes
  <2> QED
    BY <2>2, <2>3
<1> QED
  BY <1>1 DEF Faithful

\* The end of a handler is the end of its cart.
LEMMA ReturnLeaves ==
    ASSUME Known, NEW p \in Requests, NEW code, Return(p, code), RecordsKept, UNCHANGED req
    PROVE  /\ CartOf' = [CartOf EXCEPT ![p] = NoCart]
           /\ Faithful'
<1>1. OnlyMoves(p)
  BY ReturnMoves DEF Known
<1>2. pc'[p] = "done" /\ \A q \in Requests \ {p} : rec'[q] = rec[q]
  BY DEF Known, Typed, TypeOK, Return
<1>3. CartOf'[p] = NoCart
  BY <1>2 DEF CartOf, InFlight
<1>4. Customers' /\ Describes(p)'
  BY <1>2 DEF Known, Faithful, Customers, Describes
<1> QED
  BY <1>1, <1>2, <1>3, <1>4, CartFrame, OthersDescribe

\* A request that is refused drops its cart.
LEMMA RefuseDrops ==
    ASSUME Known, NEW p \in Requests, NEW code, Refuse(p, code), UNCHANGED req
    PROVE  Step
<1>1. Return(p, code) /\ UNCHANGED <<records, orders>>
  BY DEF Refuse, store
<1>2. RecordsKept
  BY <1>1, NoWriteKeeps
<1>3. CartOf' = [CartOf EXCEPT ![p] = NoCart] /\ Faithful'
  BY <1>1, <1>2, ReturnLeaves
<1>4. CartOf' = [q \in Requests |-> IF q \in {p} THEN NoCart ELSE CartOf[q]]
  BY <1>3 DEF CartOf
<1>5. Buying!Drop
  BY <1>1, <1>4 DEF Buying!Drop
<1> QED
  BY <1>2, <1>3, <1>5 DEF Step, Buying!Buy

\* A request that arrives opens a cart.
LEMMA AcceptOpens ==
    ASSUME Known, NEW p \in Requests, Accept(p)
    PROVE  Step
<1>1. TypeOK /\ UNCHANGED <<records, orders>> /\ pc[p] = "idle" /\ req[p] = NoRequest
  BY DEF Known, Typed, ControlOK, Control, Accept, store
<1>2. PICK q \in Request :
          /\ q.op = "create"
          /\ req' = [req EXCEPT ![p] = q]
          /\ pc' = [pc EXCEPT ![p] = "GetRecord"]
          /\ idx' = [idx EXCEPT ![p] = 1]
          /\ ord' = [ord EXCEPT ![p] = NewOrder(q.user)]
          /\ rec' = rec
  BY CustomersOnly DEF Accept, Acceptable, FirstCall, Goto
<1>3. OnlyMoves(p)
  BY <1>1, <1>2 DEF OnlyMoves, TypeOK, Accept
<1>4. req'[p] = q /\ pc'[p] = "GetRecord" /\ ord'[p].items = << >>
  BY <1>1, <1>2 DEF TypeOK, NewOrder
<1>5. CartOf[p] = NoCart /\ CartOf'[p] = << >> /\ orders[p] = NoOrder
  BY <1>1, <1>2, <1>4 DEF CartOf, InFlight, Known, OrdersOK, Stored
<1>6. Buying!Open(p)
  BY <1>1, <1>3, <1>5, CartFrame DEF Buying!Open
<1>7. Customers'
  BY <1>1, <1>2, <1>4 DEF Known, Faithful, Customers, TypeOK
<1>8. Describes(p)' /\ RecordsKept
  BY <1>1, <1>4, NoWriteKeeps DEF Describes
<1> QED
  BY <1>2, <1>3, <1>6, <1>7, <1>8, OthersDescribe DEF Step, Buying!Buy

\* The read of a record is no step of Purchase.
LEMMA CreateGetRecordStutters ==
    ASSUME Known, NEW p \in Requests, CreateGetRecord(p)
    PROVE  Step
<1>1. TypeOK /\ At(p, "create", "GetRecord") /\ UNCHANGED req
  BY DEF Known, Typed, CreateGetRecord
<1>2. CASE Refuse(p, 404) \/ Refuse(p, 409)
  BY <1>1, <1>2, RefuseDrops
<1>3. CASE /\ records[Line(p).id] # NoRecord
           /\ Hold(p, records[Line(p).id], "DecrementStock") /\ UNCHANGED <<idx, history>>
  <2>1. UNCHANGED <<records, orders, ord, resp, req, idx>>
    BY <1>1, <1>3 DEF Hold, store
  <2>2. /\ rec'[p] = records[Line(p).id] /\ pc'[p] = "DecrementStock"
        /\ \A q \in Requests \ {p} : rec'[q] = rec[q] /\ pc'[q] = pc[q]
    BY <1>1, <1>3 DEF Hold, Goto, TypeOK
  <2>3. OnlyMoves(p) /\ RecordsKept
    BY <2>1, <2>2, NoWriteKeeps DEF OnlyMoves
  <2>4. Line(p)' = Line(p)
    BY <2>1 DEF Line
  <2>5. Customers' /\ Describes(p)'
    BY <1>3, <2>1, <2>2, <2>4 DEF Known, Faithful, Customers, Describes
  <2>6. CartOf' = CartOf
    BY <1>1, <2>1, <2>2 DEF CartOf, InFlight, At
  <2> QED
    BY <2>1, <2>2, <2>3, <2>5, <2>6, OthersDescribe DEF Step, Buying!buying
<1> QED
  BY <1>1, <1>2, <1>3 DEF CreateGetRecord

\* The units taken are on the shelf, and are described as the record is.
LEMMA CreateDecrementStockTakes ==
    ASSUME Known, NEW p \in Requests, CreateDecrementStock(p)
    PROVE  Step
<1> DEFINE r == Line(p).id
<1> DEFINE n == Line(p).qty
<1>1. TypeOK /\ At(p, "create", "DecrementStock") /\ UNCHANGED req
  BY DEF Known, Typed, CreateDecrementStock
<1>2. /\ Line(p) \in Item /\ ord[p] \in Order /\ rec[p] \in Doc
      /\ idx[p] \in 1..Len(req[p].items) /\ Len(req[p].items) \in Nat
  BY <1>1, Creating DEF Known, Calls
<1>3. r \in Records /\ n \in Quantities
  BY <1>2 DEF Item
<1>4. CartOf[p] = ord[p].items /\ CartOf[p] # NoCart
  BY <1>1, CustomerWorks DEF At, Calls
<1>5. records[r] # NoRecord /\ rec[p].info = records[r].info
  BY <1>1 DEF Known, Faithful, Describes, At
<1>6. CASE Refuse(p, 409)
  BY <1>1, <1>6, RefuseDrops
<1>7. CASE CanDecrement(r, n) /\ Decrement(p) /\ UNCHANGED orders
  <2>1. Buying!Grab(r, n)
    BY <1>7 DEF CanDecrement, Decrement, Buying!Grab
  <2>2. RecordsKept
    BY <1>1, <1>7, DecrementKeeps
  <2>3. CASE /\ ord' = [ord EXCEPT ![p].items = Append(@, Sold(p))]
             /\ idx' = [idx EXCEPT ![p] = @ + 1]
             /\ Goto(p, NextLine(p, Len(req[p].items), "SaveOrder"))
             /\ UNCHANGED <<rec, resp>>
    <3>1. pc'[p] \in {"GetRecord", "SaveOrder"}
      BY <1>1, <1>2, <2>3 DEF Goto, NextLine, TypeOK
    <3>2. OnlyMoves(p)
      BY <1>1, <2>3 DEF OnlyMoves, Goto, TypeOK
    <3>3. ord'[p].items = Append(CartOf[p], [id |-> r, qty |-> n, info |-> records[r].info])
      <4>1. ord'[p] = [ord[p] EXCEPT !.items = Append(ord[p].items, Sold(p))]
        BY <1>1, <2>3 DEF TypeOK
      <4> QED
        BY <1>2, <1>4, <1>5, <4>1 DEF Order, Sold
    <3>4. CartOf'[p] = ord'[p].items
      BY <1>1, <3>1 DEF CartOf, InFlight, At
    <3>5. Buying!Take(p, r, n)
      BY <1>4, <1>7, <2>1, <3>2, <3>3, <3>4, CartFrame DEF Buying!Take
    <3>6. Customers' /\ Describes(p)'
      BY <1>1, <3>1 DEF Known, Faithful, Customers, Describes
    <3>7. Faithful'
      BY <2>2, <2>3, <3>2, <3>6, OthersDescribe
    <3> QED
      BY <1>3, <2>2, <3>5, <3>7 DEF Step, Buying!Buy
  <2>4. CASE Return(p, 500)
    <3>1. CartOf' = [CartOf EXCEPT ![p] = NoCart] /\ Faithful'
      BY <1>1, <2>2, <2>4, ReturnLeaves
    <3>2. Buying!Spill(p, r, n)
      BY <1>4, <1>7, <2>1, <3>1 DEF Buying!Spill
    <3> QED
      BY <1>3, <2>2, <3>1, <3>2 DEF Step, Buying!Buy
  <2> QED
    BY <1>7, <2>3, <2>4 DEF CreateDecrementStock, CanDecrement
<1> QED
  BY <1>6, <1>7 DEF CreateDecrementStock

\* The order saved is the cart, and whatever the answer the cart is gone.
LEMMA CreateSaveOrderChecksOut ==
    ASSUME Known, NEW p \in Requests, CreateSaveOrder(p)
    PROVE  Step
<1>1. TypeOK /\ At(p, "create", "SaveOrder") /\ UNCHANGED <<req, records>>
  BY DEF Known, Typed, CreateSaveOrder
<1>2. ord[p] \in Order /\ ord[p].items # << >> /\ req[p].user \in Users
  BY <1>1, Creating DEF Known, Calls, CreateRequest
<1>3. CartOf[p] = ord[p].items /\ CartOf[p] # NoCart /\ orders[p] = NoOrder
  BY <1>1, CustomerWorks DEF At, Calls
<1>4. ord[p].user = req[p].user /\ ord[p].status = "pending"
  BY <1>1 DEF Known, OrdersOK, Building, Serves, Serving, At, Calls
<1>5. ord[p] = [user |-> req[p].user, items |-> CartOf[p], status |-> "pending"]
  BY <1>2, <1>3, <1>4 DEF Order
<1>6. PICK code \in {201, 500} : Return(p, code)
  BY WrittenReturns DEF CreateSaveOrder
<1>7. RecordsKept
  BY <1>1, NoWriteKeeps
<1>8. CartOf' = [CartOf EXCEPT ![p] = NoCart] /\ Faithful'
  BY <1>1, <1>6, <1>7, ReturnLeaves
<1>9. Buying!Checkout(p, req[p].user)
  BY <1>1, <1>2, <1>3, <1>5, <1>8 DEF Buying!Checkout, CreateSaveOrder
<1> QED
  BY <1>2, <1>7, <1>8, <1>9 DEF Step, Buying!Buy

\* Every step of the shop is a step of Purchase or a stutter.
LEMMA PurchaseStep == Known /\ [Next]_vars => Step
<1> SUFFICES ASSUME Known, [Next]_vars PROVE Step
  OBVIOUS
<1>1. ASSUME NEW p \in Requests, Accept(p) PROVE Step
  BY <1>1, AcceptOpens
<1>2. ASSUME NEW p \in Requests, Create(p) PROVE Step
  BY <1>2, CreateGetRecordStutters, CreateDecrementStockTakes, CreateSaveOrderChecksOut DEF Create
<1>3. ASSUME NEW p \in Requests, StoreError(p) PROVE Step
  BY <1>3, RefuseDrops DEF StoreError
<1>4. ASSUME NEW p \in Requests PROVE ~(Cancel(p) \/ Restock(p) \/ Update(p) \/ Archive(p) \/ AddSaveRecord(p))
  BY DEF Known, Faithful, Customers, At, Cancel, CancelGetOrder, CancelGetRecord, CancelSaveRecord, CancelSaveOrder,
         Restock, RestockGetRecord, RestockSaveRecord, Update, UpdateGetRecord, UpdateSaveRecord,
         Archive, ArchiveGetRecord, ArchiveSaveRecord, AddSaveRecord
<1>5. CASE UNCHANGED vars
  <2>1. UNCHANGED <<records, orders, pc, req, rec, ord, idx, resp>>
    BY <1>5 DEF vars, store, locals
  <2>2. CartOf' = CartOf
    BY <2>1 DEF CartOf, InFlight
  <2>3. Faithful'
    BY <2>1 DEF Known, Faithful, Customers, Describes, Line
  <2> QED
    BY <2>1, <2>2, <2>3, NoWriteKeeps DEF Step, Buying!buying
<1> QED
  BY <1>1, <1>2, <1>3, <1>4, <1>5 DEF Next, Serve

\* The shop opens with nothing in a cart and nothing sold.
LEMMA PurchaseOpening == Init => Buying!Opening
  BY DEF Init, Buying!Opening, CartOf, InFlight

\* While only customers write, every behaviour of the handlers is one of
\* Purchase: for any number of them, of records, of lines, and with any failures
\* of the store.
THEOREM PurchaseImplemented == Spec => BuysAsPromised
<1>1. Typed /\ OrdersOK /\ Faithful /\ [Next]_vars => Faithful' /\ [Buying!Buy]_(Buying!buying)
  BY PurchaseStep DEF Known, Step
<1>2. Spec => []Faithful
  BY <1>1, FaithfulInit, TypedAlways, OrdersAlways, PTL DEF Spec
<1> QED
  BY <1>1, <1>2, PurchaseOpening, TypedAlways, OrdersAlways, PTL DEF Spec, BuysAsPromised, Buying!PurchaseSpec
-----------------------------------------------------------------------------
(* Who is turned away, and why *)

\* Some line of the order of p cannot be served.
Short(p) == \E i \in 1..Len(req[p].items) :
                LET r == req[p].items[i].id
                IN  records[r] # NoRecord /\ (records[r].archived \/ records[r].stock < req[p].items[i].qty)

\* An order that could not be served never can be, as no stock rises.
LEMMA ShortStays ==
    ASSUME Known, Typed', RecordsKept, NEW p \in Requests, Answered(p, "create", 409), Short(p),
           req[p] # NoRequest => req'[p] = req[p]
    PROVE  Short(p)'
<1>1. TypeOK /\ TypeOK' /\ Control(p)
  BY DEF Known, Typed, ControlOK
<1>2. req[p] # NoRequest /\ req[p].op = "create" /\ req'[p] = req[p]
  BY <1>1 DEF Answered, Control
<1>3. req[p].items \in Seq(Item)
  BY <1>1, <1>2, RequestFields, RequestItems DEF TypeOK
<1>4. PICK i \in 1..Len(req[p].items) :
          LET r == req[p].items[i].id
          IN  records[r] # NoRecord /\ (records[r].archived \/ records[r].stock < req[p].items[i].qty)
  BY DEF Short
<1> DEFINE r == req[p].items[i].id
<1> DEFINE n == req[p].items[i].qty
<1>5. r \in Records /\ n \in Int
  <2>1. req[p].items[i] \in Item
    BY <1>3, <1>4
  <2>2. r \in Records /\ n \in Quantities
    BY <2>1 DEF Item
  <2> QED
    BY <2>2, StockRange
<1>6. records'[r] # NoRecord /\ records'[r].archived = records[r].archived /\ records'[r].stock <= records[r].stock
  BY <1>4, <1>5 DEF RecordsKept
<1>7. records[r].stock \in Int /\ records'[r].stock \in Int
  BY <1>1, <1>4, <1>5, <1>6, IntAssumption DEF TypeOK, Doc
<1>8. records'[r].archived \/ records'[r].stock < n
  BY <1>4, <1>5, <1>6, <1>7
<1> QED
  BY <1>2, <1>6, <1>8 DEF Short

\* Whoever is refused by a step is refused for a line that is short.
LEMMA RefusedForShort ==
    ASSUME Known, [Next]_vars, NEW p \in Requests, Answered(p, "create", 409)'
    PROVE  \/ resp'[p] = resp[p] /\ req'[p] = req[p]
           \/ Short(p)'
<1>1. TypeOK /\ Control(p)
  BY DEF Known, Typed, ControlOK
<1>2. ASSUME NEW q \in Requests, q # p, Accept(q) \/ Serve(q)
      PROVE  resp'[p] = resp[p] /\ req'[p] = req[p]
  BY <1>1, <1>2 DEF TypeOK, Accept, Serve, Create, CreateGetRecord, CreateDecrementStock, CreateSaveOrder,
     Cancel, CancelGetOrder, CancelGetRecord, CancelSaveRecord, CancelSaveOrder,
     Restock, RestockGetRecord, RestockSaveRecord, Update, UpdateGetRecord, UpdateSaveRecord,
     Archive, ArchiveGetRecord, ArchiveSaveRecord, AddSaveRecord, StoreError,
     Hold, Refuse, Return, Written, SaveBack
<1>3. CASE Accept(p)
  BY <1>1, <1>3 DEF Accept, Control, Answered
<1>4. CASE CreateGetRecord(p)
  <2>1. At(p, "create", "GetRecord") /\ req' = req
    BY <1>4 DEF CreateGetRecord
  <2>2. idx[p] \in 1..Len(req[p].items)
    BY <2>1, Creating DEF Known, Calls
  <2>3. CASE records[Line(p).id] # NoRecord /\ records[Line(p).id].archived /\ Refuse(p, 409)
    <3>1. records' = records
      BY <2>3 DEF Refuse, store
    <3> QED
      BY <2>1, <2>2, <2>3, <3>1 DEF Short, Line
  <2>4. CASE Refuse(p, 404)
    BY <1>1, <2>4 DEF Refuse, Return, TypeOK, Answered
  <2>5. CASE resp' = resp
    BY <2>1, <2>5
  <2> QED
    BY <1>4, <2>3, <2>4, <2>5 DEF CreateGetRecord, Hold
<1>5. CASE CreateDecrementStock(p)
  <2>1. At(p, "create", "DecrementStock") /\ req' = req
    BY <1>5 DEF CreateDecrementStock
  <2>2. idx[p] \in 1..Len(req[p].items) /\ Line(p) \in Item
    BY <2>1, Creating DEF Known, Calls
  <2>3. CASE ~CanDecrement(Line(p).id, Line(p).qty) /\ Refuse(p, 409)
    <3>1. records' = records
      BY <2>3 DEF Refuse, store
    <3>2. records[Line(p).id] # NoRecord
      BY <2>1 DEF Known, Faithful, Describes, At
    <3>3. records[Line(p).id].stock \in Int /\ Line(p).qty \in Int
      <4>1. Line(p).id \in Records /\ Line(p).qty \in Quantities
        BY <2>2 DEF Item
      <4>2. records[Line(p).id].stock \in (-MaxInt - 1)..MaxInt
        BY <1>1, <3>2, <4>1 DEF TypeOK, Doc
      <4> QED
        BY <4>1, <4>2, StockRange
    <3>4. records[Line(p).id].stock < Line(p).qty
      BY <2>3, <3>2, <3>3 DEF CanDecrement
    <3> QED
      BY <2>1, <2>2, <3>1, <3>2, <3>4 DEF Short, Line
  <2>4. CASE resp' = resp
    BY <2>1, <2>4
  <2>5. CASE Return(p, 500)
    BY <1>1, <2>5 DEF Return, TypeOK, Answered
  <2> QED
    BY <1>5, <2>3, <2>4, <2>5 DEF CreateDecrementStock
<1>6. CASE CreateSaveOrder(p)
  BY <1>1, <1>6, WrittenReturns DEF CreateSaveOrder, Return, TypeOK, Answered
<1>7. CASE StoreError(p)
  BY <1>1, <1>7 DEF StoreError, Refuse, Return, TypeOK, Answered
<1>8. CASE UNCHANGED vars
  BY <1>8 DEF vars
<1>9. ~(Cancel(p) \/ Restock(p) \/ Update(p) \/ Archive(p) \/ AddSaveRecord(p))
  BY DEF Known, Faithful, Customers, At, Cancel, CancelGetOrder, CancelGetRecord, CancelSaveRecord, CancelSaveOrder,
         Restock, RestockGetRecord, RestockSaveRecord, Update, UpdateGetRecord, UpdateSaveRecord,
         Archive, ArchiveGetRecord, ArchiveSaveRecord, AddSaveRecord
<1> QED
  BY <1>2, <1>3, <1>4, <1>5, <1>6, <1>7, <1>8, <1>9 DEF Next, Serve, Create

\* While only customers write, nobody is turned away who could have been served,
\* then or later: for any number of orders that race for the last units.
THEOREM RefusedOnlyWhenShortAlways == Spec => []RefusedOnlyWhenShort
<1>1. RefusedOnlyWhenShort <=> \A p \in Requests : Answered(p, "create", 409) => Short(p)
  BY DEF RefusedOnlyWhenShort, Short
<1>2. Init => RefusedOnlyWhenShort
  BY DEF Init, RefusedOnlyWhenShort, Answered
<1>3. Known /\ Typed' /\ RefusedOnlyWhenShort /\ [Next]_vars => RefusedOnlyWhenShort'
  <2> SUFFICES ASSUME Known, Typed', RefusedOnlyWhenShort, [Next]_vars,
                      NEW p \in Requests, Answered(p, "create", 409)'
               PROVE  Short(p)'
    BY DEF RefusedOnlyWhenShort, Short
  <2>1. RecordsKept
    BY PurchaseStep DEF Step
  <2>2. CASE resp'[p] = resp[p] /\ req'[p] = req[p]
    BY <1>1, <2>1, <2>2, ShortStays DEF Answered
  <2> QED
    BY <2>2, RefusedForShort
<1>4. Typed /\ OrdersOK /\ Faithful /\ [Next]_vars => Faithful'
  BY PurchaseStep DEF Known, Step
<1>5. Spec => []Known
  BY <1>4, FaithfulInit, TypedAlways, OrdersAlways, PTL DEF Spec, Known
<1> QED
  BY <1>2, <1>3, <1>5, TypedAlways, PTL DEF Spec

-----------------------------------------------------------------------------
(* The middleware's memory *)

MemoryTyped ==
    /\ key \in [Requests -> Keys \union {NoKey}]
    /\ lock \in [Keys -> Requests \union {NoRequest}]
    /\ kept \in [Keys -> Requests \union {NoRequest}]
    /\ reply \in [Requests -> Requests \union {NoRequest}]
    /\ loose \subseteq Keys

\* A request that is handled has a key and no answer; one that has stored an
\* order has told the middleware that it may have done so.
Keyed == \A p \in Requests :
    /\ key[p] = NoKey => req[p] = NoRequest /\ reply[p] = NoRequest
    /\ req[p] # NoRequest /\ reply[p] # NoRequest => pc[p] = "done"
    /\ orders[p] # NoOrder => resp[p] \in {201, 500}

\* Request q was handled under key k, to the end.
Finished(q, k) == key[q] = k /\ req[q] # NoRequest /\ pc[q] = "done" /\ resp[q] # 0

\* Every answer given or kept is that of a request with the same key.
Told == /\ \A p \in Requests : reply[p] # NoRequest => Finished(reply[p], key[p])
        /\ \A k \in Keys : kept[k] # NoRequest => Finished(kept[k], k)

\* The lock of a key is held by whoever is handled or was cut off under it, the
\* only orders under it are the holder's and the one whose answer is kept, and
\* there is a holder or a kept answer, never both.
Exclusive(k) ==
    /\ \A p \in Requests : key[p] = k /\ req[p] # NoRequest /\ reply[p] = NoRequest => lock[k] = p
    /\ \A p \in Requests : key[p] = k /\ orders[p] # NoOrder => p \in {lock[k], kept[k]}
    /\ lock[k] # NoRequest => kept[k] = NoRequest

Remembered == \A k \in Keys \ loose : Exclusive(k)

ServiceOK == Known /\ LifecycleOK
MiddlewareOK == MemoryTyped /\ Keyed /\ Told /\ Remembered
IdempotencyOK == ServiceOK /\ MiddlewareOK

-----------------------------------------------------------------------------
(* The service behind the middleware *)

\* With the instances that end, the shop is still the one of Purchase: their
\* carts are dropped together.
LEMMA ExitDrops ==
    ASSUME Known, NEW n \in Starts, NEW stage, Exit(n, stage)
    PROVE  Step
<1>1. UNCHANGED <<records, orders, req>>
  BY DEF Exit, store
<1>2. CartOf' = [p \in Requests |-> IF p \in Hosted(n) THEN NoCart ELSE CartOf[p]]
  <2>1. ASSUME NEW p \in Requests PROVE CartOf'[p] = IF p \in Hosted(n) THEN NoCart ELSE CartOf[p]
    BY <1>1 DEF Exit, CartOf, InFlight
  <2> QED
    BY <2>1 DEF CartOf
<1>3. Buying!Drop
  BY <1>1, <1>2 DEF Buying!Drop, Hosted, InFlight
<1>4. Faithful'
  BY <1>1 DEF Known, Faithful, Customers, Describes, Line, Exit
<1> QED
  BY <1>1, <1>3, <1>4, NoWriteKeeps DEF Step, Buying!Buy

\* Every step of the service is one of Lifecycle and a step of Purchase.
LEMMA ServiceStep ==
    ASSUME ServiceOK, [IdempotencyNext]_everything
    PROVE  ServiceOK' /\ Step
<1>1. CASE (\E p \in Requests : Handled(p)) \/ ((\E p \in Requests : Handle(p)) /\ UNCHANGED idempotency)
  <2>1. PICK p \in Requests : Receive(p) \/ Handle(p)
    BY <1>1 DEF Handled
  <2>2. LifecycleOK'
    BY <2>1, LifecycleStep DEF ServiceOK, LifecycleNext
  <2>3. Step
    BY <2>1, PurchaseStep DEF ServiceOK, Receive, Handle, Next
  <2> QED
    BY <2>2, <2>3 DEF ServiceOK, Known, Step, LifecycleOK, ShopOK
<1>2. CASE \E n \in Starts : Operate(n)
  <2>1. PICK n \in Starts : Operate(n)
    BY <1>2
  <2>2. Launch(n) \/ Signal(n) \/ Drain(n) \/ Crash(n)
    BY <2>1 DEF Operate, Drain
  <2>3. LifecycleOK'
    BY <2>2, LifecycleStep DEF ServiceOK, LifecycleNext
  <2>4. UNCHANGED vars \/ \E stage : Exit(n, stage)
    BY <2>2 DEF Launch, Signal, Drain, Drained, DrainTimeout, Crash
  <2>5. Step
    BY <2>4, ExitDrops, PurchaseStep DEF ServiceOK
  <2> QED
    BY <2>3, <2>5 DEF ServiceOK, Known, Step, LifecycleOK, ShopOK
<1>3. CASE UNCHANGED LifecycleVars
  <2>1. LifecycleOK'
    BY <1>3, LifecycleStep DEF ServiceOK
  <2>2. Step
    BY <1>3, PurchaseStep DEF ServiceOK, LifecycleVars
  <2> QED
    BY <2>1, <2>2 DEF ServiceOK, Known, Step, LifecycleOK, ShopOK
<1> QED
  BY <1>1, <1>2, <1>3 DEF IdempotencyNext, Replayed, Answer, Lapse, Forget, everything

\* To the handlers a step is one of theirs, the end of an instance, or nothing.
LEMMA ServiceMoves ==
    ASSUME [IdempotencyNext]_everything
    PROVE  [Next]_vars \/ \E n \in Starts : \E stage : Exit(n, stage)
  BY DEF IdempotencyNext, Handled, Receive, Handle, Next, Operate, Launch, Signal, Drained, DrainTimeout,
         Crash, Replayed, Answer, Lapse, Forget, everything, LifecycleVars

\* Whoever is served creates an order.
LEMMA CustomersCreate == ASSUME Known, NEW p \in Requests, Serve(p) PROVE Create(p) \/ StoreError(p)
  BY DEF Serve, Known, Faithful, Customers, At, Cancel, CancelGetOrder, CancelGetRecord, CancelSaveRecord,
     CancelSaveOrder, Restock, RestockGetRecord, RestockSaveRecord, Update, UpdateGetRecord, UpdateSaveRecord,
     Archive, ArchiveGetRecord, ArchiveSaveRecord, AddSaveRecord

\* A handler stores its own order, in the call that ends it.
LEMMA SaveEnds ==
    ASSUME Known, NEW p \in Requests, Serve(p), orders' # orders
    PROVE  /\ resp'[p] \in {201, 500}
           /\ \A q \in Requests \ {p} : orders'[q] = orders[q]
<1>1. TypeOK
  BY DEF Known, Typed
<1>2. CreateSaveOrder(p)
  BY CustomersCreate DEF Create, CreateGetRecord, CreateDecrementStock, StoreError, Refuse, Hold, store
<1> QED
  BY <1>1, <1>2, WrittenReturns DEF CreateSaveOrder, Return, TypeOK

-----------------------------------------------------------------------------
(* The middleware *)

\* A step of the service only: requests are not received, what is finished stays
\* finished, and an order is stored by a request at work that is ended by it.
LEMMA ServiceOnly ==
    ASSUME IdempotencyOK, Typed', UNCHANGED <<idempotency, req>>,
           \A q \in Requests : pc[q] = "done" => pc'[q] = "done" /\ resp'[q] = resp[q],
           \A q \in Requests : orders'[q] # NoOrder => \/ orders[q] # NoOrder /\ resp'[q] = resp[q]
                                                       \/ pc[q] \in Calls /\ resp'[q] \in {201, 500}
    PROVE  MiddlewareOK'
<1>1. UNCHANGED <<key, lock, kept, reply, loose>>
  BY DEF idempotency, memory
<1>2. MemoryTyped'
  BY <1>1 DEF IdempotencyOK, MiddlewareOK, MemoryTyped
<1>3. Keyed'
  BY <1>1 DEF IdempotencyOK, MiddlewareOK, Keyed
<1>4. Told'
  BY <1>1 DEF IdempotencyOK, MiddlewareOK, MemoryTyped, Told, Finished
<1>5. Remembered'
  <2> SUFFICES ASSUME NEW k \in Keys \ loose PROVE Exclusive(k)'
    BY <1>1 DEF Remembered
  <2>1. Exclusive(k)
    BY DEF IdempotencyOK, MiddlewareOK, Remembered
  <2>2. ASSUME NEW p \in Requests, key[p] = k, orders'[p] # NoOrder, orders[p] = NoOrder PROVE lock[k] = p
    <3>1. pc[p] \in Calls
      BY <2>2
    <3>2. req[p] # NoRequest
      BY <3>1 DEF IdempotencyOK, ServiceOK, Known, Typed, ControlOK, Control, Calls
    <3>3. reply[p] = NoRequest
      BY <3>1, <3>2 DEF IdempotencyOK, MiddlewareOK, Keyed, Calls
    <3> QED
      BY <2>1, <2>2, <3>2, <3>3 DEF Exclusive
  <2> QED
    BY <1>1, <2>1, <2>2 DEF Exclusive
<1> QED
  BY <1>2, <1>3, <1>4, <1>5 DEF MiddlewareOK

\* A store call of a handler.
LEMMA HandleRemembers ==
    ASSUME IdempotencyOK, ServiceOK', NEW p \in Requests, Handle(p), UNCHANGED idempotency
    PROVE  MiddlewareOK'
<1>1. Typed /\ Typed' /\ Known /\ Serve(p)
  BY DEF IdempotencyOK, ServiceOK, Known, Handle
<1>2. OneServes(p)
  BY <1>1, ServeServes
<1>3. orders[p] = NoOrder
  BY <1>1, <1>2, CustomerWorks DEF OneServes
<1>4. \A q \in Requests : orders'[q] # NoOrder => \/ orders[q] # NoOrder /\ resp'[q] = resp[q]
                                                  \/ pc[q] \in Calls /\ resp'[q] \in {201, 500}
  BY <1>1, <1>2, <1>3, SaveEnds DEF OneServes
<1>5. \A q \in Requests : pc[q] = "done" => pc'[q] = "done" /\ resp'[q] = resp[q]
  BY <1>2 DEF OneServes, Calls
<1>6. UNCHANGED req
  BY <1>2 DEF OneServes
<1> QED
  BY <1>1, <1>4, <1>5, <1>6, ServiceOnly

\* An instance starts, stops or dies.
LEMMA OperateRemembers ==
    ASSUME IdempotencyOK, ServiceOK', NEW n \in Starts, Operate(n), UNCHANGED idempotency
    PROVE  MiddlewareOK'
<1>1. UNCHANGED vars \/ \E stage : Exit(n, stage)
  BY DEF Operate, Launch, Signal, Drained, DrainTimeout, Crash
<1>2. UNCHANGED <<req, resp, orders>>
  BY <1>1 DEF vars, store, Exit
<1>3. \A q \in Requests : pc[q] = "done" => pc'[q] = "done"
  BY <1>1 DEF vars, Exit
<1> QED
  BY <1>2, <1>3, ServiceOnly DEF ServiceOK, Known

\* A request that is let through takes the lock that nobody has.
LEMMA HandledRemembers ==
    ASSUME IdempotencyOK, NEW p \in Requests, Handled(p)
    PROVE  MiddlewareOK'
<1>1. TypeOK /\ MemoryTyped /\ Keyed /\ Told /\ Remembered
  BY DEF IdempotencyOK, MiddlewareOK, ServiceOK, Known, Typed
<1>2. PICK k \in Keys : MayHandle(k) /\ key' = [key EXCEPT ![p] = k] /\ lock' = [lock EXCEPT ![k] = p]
  BY DEF Handled
<1>3. /\ UNCHANGED <<orders, resp, kept, reply, loose>>
      /\ key[p] = NoKey /\ pc[p] = "idle" /\ pc'[p] # "idle"
      /\ \A q \in Requests \ {p} : req'[q] = req[q] /\ pc'[q] = pc[q]
  BY <1>1 DEF Handled, Receive, Accept, Goto, FirstCall, TypeOK, store
<1>4. MemoryTyped'
  BY <1>1, <1>2, <1>3 DEF MemoryTyped
<1>5. k # NoKey
  BY KeyAssumption
<1>6. reply[p] = NoRequest /\ orders[p] = NoOrder
  <2>1. req[p] = NoRequest
    BY <1>1, <1>3 DEF Keyed
  <2> QED
    BY <1>1, <1>3, <2>1 DEF Keyed, IdempotencyOK, ServiceOK, Known, OrdersOK, Stored
<1>7. Keyed'
  BY <1>1, <1>2, <1>3, <1>5, <1>6 DEF Keyed, MemoryTyped
<1>8. \A q \in Requests, c \in Keys \union {NoKey} : Finished(q, c) => Finished(q, c)'
  BY <1>1, <1>2, <1>3 DEF Finished, MemoryTyped
<1>9. Told'
  BY <1>1, <1>2, <1>3, <1>6, <1>8 DEF Told, MemoryTyped
<1>10. Remembered'
  <2> SUFFICES ASSUME NEW c \in Keys \ loose PROVE Exclusive(c)'
    BY <1>3 DEF Remembered
  <2>1. Exclusive(c)
    BY <1>1 DEF Remembered
  <2>2. CASE c = k
    <3>1. lock[k] = NoRequest /\ kept[k] = NoRequest /\ lock'[k] = p /\ kept'[k] = NoRequest
      BY <1>1, <1>2, <1>3 DEF MayHandle, MemoryTyped
    <3>2. NoRequest \notin Requests
      BY KeyAssumption
    <3>3. \A q \in Requests \ {p} : key[q] = k => /\ ~(req[q] # NoRequest /\ reply[q] = NoRequest)
                                                  /\ orders[q] = NoOrder
      BY <2>1, <2>2, <3>1, <3>2 DEF Exclusive
    <3> QED
      BY <1>1, <1>2, <1>3, <1>6, <2>2, <3>1, <3>3 DEF Exclusive, MemoryTyped
  <2>3. CASE c # k
    BY <1>1, <1>2, <1>3, <2>1, <2>3 DEF Exclusive, MemoryTyped
  <2> QED
    BY <2>2, <2>3
<1> QED
  BY <1>4, <1>7, <1>9, <1>10 DEF MiddlewareOK

\* A retry is given the answer that is kept.
LEMMA ReplayedRemembers ==
    ASSUME IdempotencyOK, NEW p \in Requests, Replayed(p)
    PROVE  MiddlewareOK'
<1>1. MemoryTyped /\ Keyed /\ Told /\ Remembered
  BY DEF IdempotencyOK, MiddlewareOK
<1>2. PICK k \in Keys : /\ kept[k] # NoRequest
                        /\ key' = [key EXCEPT ![p] = k]
                        /\ reply' = [reply EXCEPT ![p] = kept[k]]
  BY DEF Replayed
<1>3. key[p] = NoKey /\ UNCHANGED <<orders, resp, req, pc, lock, kept, loose>>
  BY DEF Replayed, LifecycleVars, vars, store, memory
<1>4. req[p] = NoRequest /\ orders[p] = NoOrder
  BY <1>1, <1>3 DEF Keyed, IdempotencyOK, ServiceOK, Known, OrdersOK, Stored
<1>5. MemoryTyped'
  BY <1>1, <1>2, <1>3 DEF MemoryTyped
<1>6. Keyed'
  BY <1>1, <1>2, <1>3, <1>4, KeyAssumption DEF Keyed, MemoryTyped
<1>7. \A q \in Requests, c \in Keys \union {NoKey} : Finished(q, c) => Finished(q, c)'
  BY <1>1, <1>2, <1>3, <1>4 DEF Finished, MemoryTyped
<1>8. Told'
  BY <1>1, <1>2, <1>3, <1>7 DEF Told, MemoryTyped
<1>9. Remembered'
  BY <1>1, <1>2, <1>3, <1>4 DEF Remembered, Exclusive, MemoryTyped
<1> QED
  BY <1>5, <1>6, <1>8, <1>9 DEF MiddlewareOK

\* The answer is kept and the lock given back.
LEMMA AnswerRemembers ==
    ASSUME IdempotencyOK, NEW p \in Requests, Answer(p)
    PROVE  MiddlewareOK'
<1> DEFINE k == key[p]
<1>1. MemoryTyped /\ Keyed /\ Told /\ Remembered /\ TypeOK
  BY DEF IdempotencyOK, MiddlewareOK, ServiceOK, Known, Typed
<1>2. /\ k \in Keys /\ reply[p] = NoRequest /\ pc[p] = "done"
      /\ phase[host[p]] \in {"serving", "draining"}
  BY <1>1 DEF Answer, Inside, Ready, MemoryTyped
<1>3. req[p] # NoRequest
  BY <1>2 DEF IdempotencyOK, ServiceOK, Known, Typed, ControlOK, Control
<1>4. resp[p] # 0
  BY <1>2, <1>3 DEF IdempotencyOK, ServiceOK, LifecycleOK, Hosting, Calls
<1>5. Finished(p, k)
  BY <1>2, <1>3, <1>4 DEF Finished
<1>6. /\ reply' = [reply EXCEPT ![p] = p]
      /\ UNCHANGED <<orders, resp, req, pc, key>>
  BY DEF Answer, LifecycleVars, vars, store
<1>7. \/ kept' = [kept EXCEPT ![k] = p] /\ UNCHANGED loose
      \/ loose' = (IF resp[p] \in {201, 500} THEN loose \union {k} ELSE loose) /\ UNCHANGED kept
  BY DEF Answer
<1>8. \/ lock' = [lock EXCEPT ![k] = NoRequest]
      \/ lock[k] # p /\ UNCHANGED lock
  BY DEF Answer
<1>9. MemoryTyped'
  BY <1>1, <1>2, <1>6, <1>7, <1>8 DEF MemoryTyped
<1>10. Keyed'
  BY <1>1, <1>2, <1>6, KeyAssumption DEF Keyed, MemoryTyped
<1>11. Told'
  BY <1>1, <1>2, <1>5, <1>6, <1>7 DEF Told, Finished, MemoryTyped
<1>12. Remembered'
  <2> SUFFICES ASSUME NEW c \in Keys \ loose' PROVE Exclusive(c)'
    BY DEF Remembered
  <2>1. c \in Keys \ loose /\ Exclusive(c)
    BY <1>1, <1>7 DEF Remembered
  <2>2. CASE c # k
    <3>1. lock'[c] = lock[c] /\ kept'[c] = kept[c] /\ \A q \in Requests : key[q] = c => reply'[q] = reply[q]
      BY <1>1, <1>2, <1>6, <1>7, <1>8, <2>2 DEF MemoryTyped
    <3> QED
      BY <1>6, <2>1, <3>1 DEF Exclusive
  <2>3. CASE c = k
    <3>1. lock[k] = p /\ kept[k] = NoRequest
      BY <1>2, <1>3, <2>1, <2>3, KeyAssumption DEF Exclusive
    <3>2. lock'[k] = NoRequest
      BY <1>1, <1>2, <1>8, <3>1 DEF MemoryTyped
    <3>3. \A q \in Requests \ {p} : key[q] = k => /\ ~(req[q] # NoRequest /\ reply[q] = NoRequest)
                                                  /\ orders[q] = NoOrder
      BY <2>1, <2>3, <3>1, KeyAssumption DEF Exclusive
    <3>4. orders[p] # NoOrder => kept'[k] = p
      <4>1. orders[p] # NoOrder => resp[p] \in {201, 500}
        BY <1>1 DEF Keyed
      <4> QED
        BY <1>1, <1>2, <1>7, <2>3, <4>1 DEF MemoryTyped
    <3>5. reply'[p] = p /\ p # NoRequest
      BY <1>1, <1>6, KeyAssumption DEF MemoryTyped
    <3>6. \A q \in Requests \ {p} : reply'[q] = reply[q]
      BY <1>1, <1>6 DEF MemoryTyped
    <3> QED
      BY <1>6, <2>3, <3>2, <3>3, <3>4, <3>5, <3>6 DEF Exclusive
  <2> QED
    BY <2>2, <2>3
<1> QED
  BY <1>9, <1>10, <1>11, <1>12 DEF MiddlewareOK

\* A lock ends, or an answer, before its time.
LEMMA LoseRemembers ==
    ASSUME IdempotencyOK, NEW k \in Keys, Lapse(k) \/ Forget(k)
    PROVE  MiddlewareOK'
<1>1. MemoryTyped /\ Keyed /\ Told /\ Remembered
  BY DEF IdempotencyOK, MiddlewareOK
<1>2. /\ UNCHANGED <<orders, resp, req, pc, key, reply>>
      /\ loose' = loose \union {k}
      /\ lock' \in {lock, [lock EXCEPT ![k] = NoRequest]}
      /\ kept' \in {kept, [kept EXCEPT ![k] = NoRequest]}
  BY DEF Lapse, Forget, LifecycleVars, vars, store
<1>3. MemoryTyped' /\ Keyed'
  BY <1>1, <1>2 DEF MemoryTyped, Keyed
<1>4. Told'
  BY <1>1, <1>2 DEF Told, Finished, MemoryTyped
<1>5. Remembered'
  BY <1>1, <1>2 DEF Remembered, Exclusive, MemoryTyped
<1> QED
  BY <1>3, <1>4, <1>5 DEF MiddlewareOK

-----------------------------------------------------------------------------
(* Every step *)

\* Nobody has asked, nothing is locked or kept.
LEMMA IdempotencyStart == IdempotencyInit => IdempotencyOK
<1> SUFFICES ASSUME IdempotencyInit PROVE IdempotencyOK
  OBVIOUS
<1>1. LifecycleOK /\ Init
  BY LifecycleStart DEF IdempotencyInit, LifecycleInit
<1>2. ServiceOK
  BY <1>1, FaithfulInit DEF ServiceOK, Known, LifecycleOK, ShopOK
<1>3. MemoryTyped
  BY DEF IdempotencyInit, MemoryTyped
<1>4. Keyed
  BY <1>1 DEF IdempotencyInit, Init, Keyed
<1>5. Told /\ Remembered
  BY <1>1, KeyAssumption DEF IdempotencyInit, Init, Told, Remembered, Exclusive
<1> QED
  BY <1>2, <1>3, <1>4, <1>5 DEF IdempotencyOK, MiddlewareOK

\* Every step keeps the invariant and is a step of Purchase.
LEMMA IdempotencyStep ==
    ASSUME IdempotencyOK, [IdempotencyNext]_everything
    PROVE  IdempotencyOK' /\ Step
<1>1. ServiceOK' /\ Step
  BY ServiceStep DEF IdempotencyOK
<1>2. ASSUME NEW p \in Requests, Handled(p) \/ Replayed(p) \/ Answer(p) PROVE MiddlewareOK'
  BY <1>2, HandledRemembers, ReplayedRemembers, AnswerRemembers
<1>3. ASSUME NEW k \in Keys, Lapse(k) \/ Forget(k) PROVE MiddlewareOK'
  BY <1>3, LoseRemembers
<1>4. ASSUME NEW p \in Requests, Handle(p), UNCHANGED idempotency PROVE MiddlewareOK'
  BY <1>1, <1>4, HandleRemembers
<1>5. ASSUME NEW n \in Starts, Operate(n), UNCHANGED idempotency PROVE MiddlewareOK'
  BY <1>1, <1>5, OperateRemembers
<1>6. ASSUME UNCHANGED everything PROVE MiddlewareOK'
  <2>1. UNCHANGED <<orders, pc, req, resp, idempotency>>
    BY <1>6 DEF everything, LifecycleVars, vars, store
  <2> QED
    BY <1>1, <2>1, ServiceOnly DEF ServiceOK, Known
<1>7. MiddlewareOK'
  BY <1>2, <1>3, <1>4, <1>5, <1>6 DEF IdempotencyNext
<1> QED
  BY <1>1, <1>7 DEF IdempotencyOK

\* The invariant holds in every reachable state.
LEMMA IdempotencyAlways == IdempotencySpec => []IdempotencyOK
  BY IdempotencyStart, IdempotencyStep, PTL DEF IdempotencySpec

\* Orders of a key whose memory was kept are one and the same.
LEMMA OneOrder ==
    ASSUME IdempotencyOK, NEW k \in Keys \ loose,
           NEW o \in Requests, key[o] = k, orders[o] # NoOrder,
           NEW s \in Requests, key[s] = k, orders[s] # NoOrder
    PROVE  o = s
<1>1. Exclusive(k)
  BY DEF IdempotencyOK, MiddlewareOK, Remembered
<1> QED
  BY <1>1, KeyAssumption DEF Exclusive

\* The middleware's memory and what stands in it have their types.
THEOREM IdempotencyTypeCorrect == IdempotencySpec => []IdempotencyTypeOK
<1>1. IdempotencyOK => IdempotencyTypeOK
  BY DEF IdempotencyOK, ServiceOK, LifecycleOK, ShopOK, Typed, InstancesTyped, LifecycleTypeOK,
         MiddlewareOK, MemoryTyped, IdempotencyTypeOK
<1> QED
  BY <1>1, IdempotencyAlways, PTL

\* However often a client retries, on whatever instances, and whichever of them
\* die: a key whose memory is not lost has at most one order in the store.
THEOREM OncePerKeyAlways == IdempotencySpec => []OncePerKey
<1>1. IdempotencyOK => OncePerKey
  <2> SUFFICES ASSUME IdempotencyOK, NEW k \in Keys \ loose
               PROVE  Cardinality({o \in Requests : key[o] = k /\ orders[o] # NoOrder}) <= 1
    BY DEF OncePerKey
  <2> DEFINE S == {o \in Requests : key[o] = k /\ orders[o] # NoOrder}
  <2>1. CASE S = {}
    BY <2>1, FS_EmptySet
  <2>2. CASE S # {}
    <3>1. PICK o \in S : TRUE
      BY <2>2
    <3>2. S = {o}
      BY <3>1, OneOrder
    <3>3. Cardinality({o}) = 1
      BY FS_Singleton
    <3> QED
      BY <3>2, <3>3
  <2> QED
    BY <2>1, <2>2
<1> QED
  BY <1>1, IdempotencyAlways, PTL

\* Whoever is told of a success is told of a stored order of the same key, and
\* all who use a key whose memory lasts are told of the same one.
THEOREM SameAnswerAlways == IdempotencySpec => []SameAnswer
<1>1. IdempotencyOK => SameAnswer
  <2> SUFFICES ASSUME IdempotencyOK PROVE SameAnswer
    OBVIOUS
  <2>1. ASSUME NEW p \in Requests, reply[p] # NoRequest
        PROVE  reply[p] \in Requests /\ Finished(reply[p], key[p])
    BY <2>1 DEF IdempotencyOK, MiddlewareOK, MemoryTyped, Told
  <2>2. ASSUME NEW p \in Requests, reply[p] # NoRequest, resp[reply[p]] \in {0, 201}
        PROVE  key[reply[p]] = key[p] /\ orders[reply[p]] # NoOrder
    <3>1. PICK q \in Requests : q = reply[p] /\ Finished(q, key[p])
      BY <2>1, <2>2
    <3>2. resp[q] = 201 /\ req[q].op = "create"
      BY <2>2, <3>1 DEF Finished, IdempotencyOK, ServiceOK, Known, Faithful, Customers
    <3> QED
      BY <3>1, <3>2 DEF Finished, IdempotencyOK, ServiceOK, Known, OrdersOK, Promise, Answered
  <2>3. ASSUME NEW p \in Requests, NEW q \in Requests,
               reply[p] # NoRequest, reply[q] # NoRequest, key[p] = key[q], key[p] \notin loose,
               orders[reply[p]] # NoOrder, orders[reply[q]] # NoOrder
        PROVE  reply[p] = reply[q]
    <3>1. /\ reply[p] \in Requests /\ reply[q] \in Requests
          /\ key[reply[p]] = key[p] /\ key[reply[q]] = key[p]
      BY <2>1, <2>3 DEF Finished
    <3>2. key[p] \in Keys
      BY <2>3 DEF IdempotencyOK, MiddlewareOK, MemoryTyped, Keyed
    <3> QED
      BY <2>3, <3>1, <3>2, OneOrder
  <2> QED
    BY <2>2, <2>3 DEF SameAnswer
<1> QED
  BY <1>1, IdempotencyAlways, PTL

\* Behind the middleware and on instances that stop or die, the shop is still
\* the one of Purchase: carts may be dropped, orders are never half an order.
THEOREM PurchaseThroughCrashes == IdempotencySpec => BuysAsPromised
<1>1. IdempotencyOK /\ [IdempotencyNext]_everything => [Buying!Buy]_(Buying!buying)
  BY IdempotencyStep DEF Step
<1>2. IdempotencyInit => Buying!Opening
  BY PurchaseOpening DEF IdempotencyInit, LifecycleInit
<1> QED
  BY <1>1, <1>2, IdempotencyAlways, PTL DEF IdempotencySpec, BuysAsPromised, Buying!PurchaseSpec

\* Nobody is turned away who could have been served, then or later, though
\* retries race and instances die with the units of their carts.
THEOREM RefusedOnlyWhenShortThroughCrashes == IdempotencySpec => []RefusedOnlyWhenShort
<1>1. RefusedOnlyWhenShort <=> \A p \in Requests : Answered(p, "create", 409) => Short(p)
  BY DEF RefusedOnlyWhenShort, Short
<1>2. IdempotencyInit => RefusedOnlyWhenShort
  BY DEF IdempotencyInit, LifecycleInit, Init, RefusedOnlyWhenShort, Answered
<1>3. ASSUME IdempotencyOK, [IdempotencyNext]_everything, NEW p \in Requests, Answered(p, "create", 409)'
      PROVE  (resp'[p] = resp[p] /\ req'[p] = req[p]) \/ Short(p)'
  <2>1. [Next]_vars \/ \E n \in Starts : \E stage : Exit(n, stage)
    BY <1>3, ServiceMoves
  <2>2. CASE [Next]_vars
    BY <1>3, <2>2, RefusedForShort DEF IdempotencyOK, ServiceOK
  <2>3. CASE \E n \in Starts : \E stage : Exit(n, stage)
    BY <2>3 DEF Exit
  <2> QED
    BY <2>1, <2>2, <2>3
<1>4. IdempotencyOK /\ RefusedOnlyWhenShort /\ [IdempotencyNext]_everything => RefusedOnlyWhenShort'
  <2> SUFFICES ASSUME IdempotencyOK, RefusedOnlyWhenShort, [IdempotencyNext]_everything,
                      NEW p \in Requests, Answered(p, "create", 409)'
               PROVE  Short(p)'
    BY DEF RefusedOnlyWhenShort, Short
  <2>1. RecordsKept /\ Typed' /\ Known
    BY IdempotencyStep DEF Step, IdempotencyOK, ServiceOK, Known
  <2>2. CASE resp'[p] = resp[p] /\ req'[p] = req[p]
    BY <1>1, <2>1, <2>2, ShortStays DEF Answered
  <2> QED
    BY <1>3, <2>2
<1> QED
  BY <1>2, <1>4, IdempotencyAlways, PTL DEF IdempotencySpec

-----------------------------------------------------------------------------
(***************************************************************************)
(* The books.  While only customers buy, what has left the shelf was taken *)
(* by DecrementStock, and what was taken is in an order or a cart, until a *)
(* request is refused or dies.                                             *)
(***************************************************************************)

\* Where the units of r are that ever were on the shelf.
Shelved(r) == Stock(r) + taken[r] = supply[r]

\* The stock part of Purchase: nothing overflows, and no unit is lost.
Conserved == ~wrapped /\ \A r \in Records : Shelved(r)

\* The handlers of the customers move units from the shelf into the carts.
LEMMA CustomerTakes ==
    ASSUME Known, [Next]_vars, NEW r \in Records, Stock(r) + taken[r] = supply[r]
    PROVE  Stock(r)' + taken'[r] = supply'[r]
<1>1. TypeOK
  BY DEF Known, Typed
<1>2. CASE UNCHANGED <<records, taken, supply>>
  BY <1>2 DEF Stock
<1>3. ASSUME NEW p \in Requests, CreateDecrementStock(p) PROVE Stock(r)' + taken'[r] = supply'[r]
  <2> DEFINE s == Line(p).id
  <2> DEFINE qty == Line(p).qty
  <2>1. s \in Records /\ qty \in Nat
    BY <1>3, Creating, StockRange DEF Known, CreateDecrementStock, Calls, Item
  <2>2. CASE Refuse(p, 409)
    BY <1>2, <2>2 DEF Refuse, store, history
  <2>3. CASE /\ CanDecrement(s, qty) /\ Decrement(p) /\ taken' = Gain(taken, s, qty)
             /\ UNCHANGED supply
    <3>1. records[s] \in Doc /\ records[s] # NoRecord /\ records[s].stock \in Int
      BY <1>1, <2>1, <2>3, IntAssumption DEF CanDecrement, TypeOK, Doc
    <3>2. records'[s] # NoRecord
      BY <1>3, <2>1, <2>3, <3>1, DecrementKeeps DEF CreateDecrementStock, RecordsKept
    <3>3. records'[s].stock = records[s].stock - qty /\ \A t \in Records \ {s} : records'[t] = records[t]
      BY <1>1, <2>1, <2>3, <3>1 DEF Decrement, TypeOK, Doc
    <3>4. taken'[s] = taken[s] + qty /\ \A t \in Records \ {s} : taken'[t] = taken[t]
      BY <1>1, <2>1, <2>3 DEF Gain, TypeOK
    <3>5. taken[s] \in Nat /\ supply[s] \in Nat
      BY <1>1, <2>1 DEF TypeOK
    <3>6. CASE r = s
      BY <2>1, <2>3, <3>1, <3>2, <3>3, <3>4, <3>5, <3>6 DEF Stock
    <3>7. CASE r # s
      BY <2>3, <3>3, <3>4, <3>7 DEF Stock
    <3> QED
      BY <3>6, <3>7
  <2> QED
    BY <1>3, <2>2, <2>3 DEF CreateDecrementStock
<1>4. ASSUME NEW p \in Requests, Accept(p) \/ CreateGetRecord(p) \/ CreateSaveOrder(p) \/ StoreError(p)
      PROVE  UNCHANGED <<records, taken, supply>>
  BY <1>4 DEF Accept, CreateGetRecord, CreateSaveOrder, StoreError, Refuse, Hold, store, history
<1>5. UNCHANGED vars => UNCHANGED <<records, taken, supply>>
  BY DEF vars, store, history
<1> QED
  BY <1>2, <1>3, <1>4, <1>5, CustomersCreate DEF Next, Create

\* No addition of theirs overflows, for they add nothing.
LEMMA CustomersWrapNothing == ASSUME Known, [Next]_vars, ~wrapped PROVE ~wrapped'
<1>1. ASSUME NEW p \in Requests, Accept(p) \/ Create(p) \/ StoreError(p) PROVE UNCHANGED wrapped
  BY <1>1 DEF Accept, Create, CreateGetRecord, CreateDecrementStock, CreateSaveOrder, StoreError, Refuse, Hold, history
<1>2. UNCHANGED vars => UNCHANGED wrapped
  BY DEF vars, history
<1>3. UNCHANGED wrapped
  BY <1>1, <1>2, CustomersCreate DEF Next
<1> QED
  BY <1>3, Zenon

\* Every step keeps the books.
LEMMA ConservedStep ==
    ASSUME IdempotencyOK, Conserved, [IdempotencyNext]_everything
    PROVE  Conserved'
<1>1. Known
  BY DEF IdempotencyOK, ServiceOK
<1>2. CASE [Next]_vars
  <2>1. ~wrapped /\ \A r \in Records : Shelved(r)
    BY DEF Conserved
  <2>2. \A r \in Records : Shelved(r)'
    BY <1>1, <1>2, <2>1, CustomerTakes DEF Shelved
  <2>3. ~wrapped'
    BY <1>1, <1>2, <2>1, CustomersWrapNothing
  <2> QED
    BY <2>2, <2>3 DEF Conserved
<1>3. ASSUME NEW n \in Starts, NEW stage, Exit(n, stage) PROVE Conserved'
  BY <1>3 DEF Conserved, Shelved, Stock, Exit, store, history
<1> QED
  BY <1>2, <1>3, ServiceMoves

\* The shop opens with all units on the shelf.
LEMMA ConservedStart == IdempotencyInit => Conserved
<1> SUFFICES ASSUME Init PROVE Conserved
  BY DEF IdempotencyInit, LifecycleInit
<1>1. \A r \in Records : Shelved(r)
  <2>1. TypeOK
    BY TypedInit DEF Typed
  <2> QED
    BY <2>1 DEF Init, Shelved, Stock, TypeOK
<1> QED
  BY <1>1 DEF Init, Conserved

\* The books are in order in every reachable state.
LEMMA ConservedAlways == IdempotencySpec => []Conserved
  BY ConservedStart, ConservedStep, IdempotencyAlways, PTL DEF IdempotencySpec

\* Nothing was refunded, since nobody cancels.
LEMMA BooksClose ==
    ASSUME Known, AllBacked, Conserved, NEW r \in Records
    PROVE  /\ Stock(r) + InCarts(r) + Sales(r) <= supply[r]
           /\ RejectedCreates = {} => Stock(r) + InCarts(r) + Sales(r) = supply[r]
           /\ Stock(r) \in Int /\ InCarts(r) \in Nat /\ Sales(r) \in Nat /\ supply[r] \in Nat
<1>1. /\ Held(r) = Sales(r) + Refunds(r) + InCarts(r)
      /\ Sales(r) \in Nat /\ Refunds(r) \in Nat /\ InCarts(r) \in Nat
  BY HeldIsBooked DEF Known
<1>2. Refunds(r) = 0
  <2> DEFINE C == {o \in Requests : Cancelled(o)}
  <2> DEFINE f == [o \in C |-> Units(orders[o].items, r)]
  <2>1. C = {}
    BY DEF Known, OrdersOK, ByRight, Faithful, Customers
  <2>2. Refunds(r) = SumFunctionOnSet(f, C)
    BY DEF Refunds, SumFunction
  <2> HIDE DEF C, f
  <2> QED
    BY <2>1, <2>2, SumNone
<1>3. taken[r] \in Nat /\ supply[r] \in Nat /\ Stock(r) \in Int
  BY IntAssumption DEF Known, Typed, TypeOK, Stock, Doc
<1>4. Stock(r) + taken[r] = supply[r] /\ Held(r) <= taken[r] /\ (RejectedCreates = {} => Held(r) = taken[r])
  BY DEF AllBacked, Conserved, Shelved, Backed
<1> QED
  BY <1>1, <1>2, <1>3, <1>4

\* While only customers buy, every unit is on the shelf, in a cart or in an order,
\* never in two of them, through retries and crashes; it is in none of them only
\* when a request has failed.
THEOREM StockConservedThroughCrashes == IdempotencySpec => []StockConserved
<1>1. IdempotencyOK /\ Conserved => StockConserved
  BY BooksClose DEF IdempotencyOK, ServiceOK, LifecycleOK, ShopOK, StockConserved
<1> QED
  BY <1>1, IdempotencyAlways, ConservedAlways, PTL

\* Customers alone never oversell the shop: it takes an administrator or a
\* cancellation, whose write-backs are stale, to break NoOversell.
THEOREM NoOversellThroughCrashes == IdempotencySpec => []NoOversell
<1>1. IdempotencyOK /\ Conserved => NoOversell
  <2> SUFFICES ASSUME IdempotencyOK, Conserved, NEW r \in Records PROVE Sales(r) <= supply[r]
    BY DEF NoOversell
  <2>1. Stock(r) >= 0
    BY DEF IdempotencyOK, ServiceOK, LifecycleOK, ShopOK, StockBooks, Shelf, Conserved, Stock
  <2> QED
    BY <2>1, BooksClose DEF IdempotencyOK, ServiceOK, LifecycleOK, ShopOK
<1> QED
  BY <1>1, IdempotencyAlways, ConservedAlways, PTL
=============================================================================
