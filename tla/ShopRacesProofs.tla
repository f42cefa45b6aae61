-------------------------- MODULE ShopRacesProofs ---------------------------
(***************************************************************************)
(* Theorems about ShopRaces, for any number of requests, records and       *)
(* failures.  A handler that nobody has overtaken finds the document it    *)
(* replaces as it read it; so it changes its own fields only and adds to   *)
(* the stock what the books say, and the books balance.  What comes back   *)
(* is counted line by line, for every cancellation on its own.             *)
(***************************************************************************)
EXTENDS ShopRaces, ShopAccountingProofs

\* Every line of every order and cart names a record that exists.
Exists(items) == \A i \in DOMAIN items : records[items[i].id] # NoRecord
Existing == /\ \A o \in Requests : orders[o] # NoOrder => Exists(orders[o].items)
            /\ \A p \in Requests : Serves(p, "create") => Exists(ord[p].items)

\* What a handler is about to write back is what the store holds now, changed as
\* the request asks.
Current(p) == pc[p] = "SaveRecord" =>
    LET doc == records[Target(p)]
        op == req[p].op
    IN  /\ op = "add" => doc = NoRecord /\ rec[p].stock = Credit(p)
        /\ op # "add" => doc # NoRecord
        /\ op \in {"cancel", "restock"} => /\ rec[p] = Stocked(doc, Credit(p))
                                           /\ wrapped \/ doc.stock + Credit(p) <= MaxInt
        /\ op = "update" => rec[p] = Patch(doc, req[p])
        /\ op = "archive" => rec[p] = [doc EXCEPT !.archived = TRUE]

\* Nobody but the overtaken has a copy that is out of date.
Currents == \A p \in Requests : p \in overtaken \/ Current(p)

\* What is on the shelf and what was taken is what was put there and came back.
Balanced(r) == ~wrapped => Restated(r) \/ Stock(r) + taken[r] = supply[r] + returned[r]
Balances == \A r \in Records : r \in spoilt \/ Balanced(r)

ShopSound == Typed /\ OrdersOK /\ Existing
RacesOK == ShopSound /\ Currents /\ Balances

-----------------------------------------------------------------------------
(* The records of the orders *)

\* Lines that name records go on doing so.
StillExists(items) == \A i \in DOMAIN items : records'[items[i].id] # NoRecord

\* No handler removes the record a line names.
LEMMA ExistsStays ==
    ASSUME RecordsStay, NEW items \in Seq(OrderItem), Exists(items)
    PROVE  StillExists(items)
<1>1. ASSUME NEW i \in DOMAIN items PROVE items[i].id \in Records
  <2>1. items[i] \in OrderItem
    BY <1>1, ElementOfSeq
  <2> QED
    BY <2>1 DEF OrderItem
<1> QED
  BY <1>1 DEF Exists, StillExists, RecordsStay

\* A cart is filled with lines whose records were there, and becomes an order.
LEMMA ExistingStep ==
    ASSUME ShopSound, Typed', NEW p \in Requests, Accept(p) \/ Serve(p)
    PROVE  Existing'
<1>1. Typed /\ TypeOK /\ OrdersOK /\ RecordsStay /\ OnlyMoves(p) /\ OnlyStores(p)
  BY StepsStay, StepMoves DEF ShopSound, Typed
<1>2. ASSUME NEW o \in Requests, orders[o] # NoOrder
      PROVE  StillExists(orders'[o].items)
  <2>1. orders'[o].items = orders[o].items /\ orders[o] \in Order
    BY <1>1, <1>2, FrozenFields DEF OnlyStores, TypeOK
  <2>2. orders[o].items \in Seq(OrderItem) /\ Exists(orders[o].items)
    BY <1>2, <2>1 DEF ShopSound, Existing, Order
  <2> QED
    BY <1>1, <2>1, <2>2, ExistsStays
<1>3. ASSUME NEW q \in Requests, Serves(q, "create") PROVE ord[q].items \in Seq(OrderItem) /\ StillExists(ord[q].items)
  <2>1. ord[q].items \in Seq(OrderItem)
    BY <1>1, <1>3 DEF Typed, ControlOK, Control, Order
  <2> QED
    BY <1>1, <1>3, <2>1, ExistsStays DEF ShopSound, Existing
<1>4. ASSUME orders[p] = NoOrder, orders'[p] # NoOrder PROVE StillExists(orders'[p].items)
  <2>1. CASE Accept(p)
    BY <1>4, <2>1 DEF Accept, store
  <2>2. CASE CreateSaveOrder(p)
    <3>1. orders'[p] = ord[p] /\ Serves(p, "create")
      BY <1>1, <2>2 DEF CreateSaveOrder, TypeOK, At, Serves, Serving, Calls
    <3> QED
      BY <1>3, <3>1
  <2>3. CASE CancelSaveOrder(p)
    <3> DEFINE o == req[p].order
    <3>1. o \in Requests /\ orders[o] # NoOrder
      BY <1>1, <2>3, Cancelling DEF CancelSaveOrder, OrdersOK, Copying, Serves, Serving, At, Calls
    <3>2. \A s \in Requests \ {o} : orders'[s] = orders[s]
      BY <1>1, <2>3 DEF CancelSaveOrder, TypeOK
    <3> QED
      BY <1>4, <3>1, <3>2
  <2>4. CASE UNCHANGED orders
    BY <1>4, <2>4
  <2> QED
    BY <2>1, <2>2, <2>3, <2>4 DEF Serve, Create, CreateGetRecord, CreateDecrementStock,
       Cancel, CancelGetOrder, CancelGetRecord, CancelSaveRecord,
       Restock, RestockGetRecord, RestockSaveRecord, Update, UpdateGetRecord, UpdateSaveRecord,
       Archive, ArchiveGetRecord, ArchiveSaveRecord, AddSaveRecord, SaveBack, StoreError, Refuse, Hold, store
<1>5. ASSUME Serves(p, "create")' PROVE StillExists(ord'[p].items)
  <2>1. CASE Accept(p)
    <3>1. PICK q \in Request :
              /\ req' = [req EXCEPT ![p] = q]
              /\ ord' = IF q.op = "create" THEN [ord EXCEPT ![p] = NewOrder(q.user)] ELSE ord
      BY <2>1 DEF Accept
    <3>2. ord'[p].items = << >>
      BY <1>1, <1>5, <3>1 DEF Serves, NewOrder, TypeOK
    <3> QED
      BY <3>2 DEF StillExists
  <2>2. ASSUME Serve(p) PROVE Serves(p, "create")
    BY <1>1, <1>5, <2>2, ServeServes DEF ShopSound, OneServes, Serves, Serving
  <2>3. CASE Serve(p) /\ ord'[p] = ord[p]
    BY <1>3, <2>2, <2>3
  <2>4. CASE CreateDecrementStock(p) /\ ord' = [ord EXCEPT ![p].items = Append(@, Sold(p))]
    <3> DEFINE items == ord[p].items
    <3>1. At(p, "create", "DecrementStock") /\ ord[p] \in Order /\ Line(p).id \in Records /\ rec[p] \in Doc
      BY <1>1, <2>4, Creating DEF CreateDecrementStock, Calls, Item, Typed, ControlOK, Control, At
    <3>2. ord'[p].items = Append(items, Sold(p)) /\ items \in Seq(OrderItem)
      BY <1>1, <2>4, <3>1 DEF TypeOK, Order
    <3>3. StillExists(items) /\ records[Line(p).id] # NoRecord
      <4>1. Serves(p, "create") /\ ~Refuse(p, 409)
        BY <1>5, <3>1 DEF At, Serves, Serving, Calls, Refuse, Return, Typed, TypeOK, ShopSound
      <4> QED
        BY <1>3, <2>4, <4>1 DEF CreateDecrementStock, CanDecrement
    <3>4. records'[Line(p).id] # NoRecord
      BY <1>1, <3>1, <3>3 DEF RecordsStay
    <3>5. \A i \in 1..(Len(items) + 1) : \/ i \in 1..Len(items) /\ Append(items, Sold(p))[i] = items[i]
                                         \/ i = Len(items) + 1 /\ Append(items, Sold(p))[i] = Sold(p)
      BY <3>2
    <3>6. DOMAIN Append(items, Sold(p)) = 1..(Len(items) + 1) /\ DOMAIN items = 1..Len(items)
      BY <3>2
    <3>7. Sold(p).id = Line(p).id
      BY DEF Sold
    <3> QED
      BY <3>2, <3>3, <3>4, <3>5, <3>6, <3>7 DEF StillExists
  <2>5. CASE Create(p)
    <3>1. ASSUME NEW code, Return(p, code) PROVE FALSE
      BY <1>1, <1>5, <3>1 DEF Return, Serves, Serving, Calls, TypeOK
    <3> QED
      BY <2>3, <2>4, <2>5, <3>1, WrittenReturns
         DEF Serve, Create, CreateGetRecord, CreateDecrementStock, CreateSaveOrder, Refuse, Hold
  <2>6. CASE StoreError(p)
    BY <1>1, <1>5, <2>6 DEF StoreError, Refuse, Return, Serves, Serving, Calls, TypeOK
  <2>7. ASSUME Serve(p) PROVE Create(p) \/ StoreError(p)
    BY <2>2, <2>7 DEF Serve, Serves, At, Cancel, CancelGetOrder, CancelGetRecord, CancelSaveRecord,
       CancelSaveOrder, Restock, RestockGetRecord, RestockSaveRecord, Update, UpdateGetRecord, UpdateSaveRecord,
       Archive, ArchiveGetRecord, ArchiveSaveRecord, AddSaveRecord
  <2> QED
    BY <2>1, <2>5, <2>6, <2>7
<1>6. ASSUME NEW q \in Requests \ {p} PROVE /\ orders'[q] # NoOrder => StillExists(orders'[q].items)
                                            /\ Serves(q, "create")' => StillExists(ord'[q].items)
  <2>1. pc'[q] = pc[q] /\ req'[q] = req[q] /\ ord'[q] = ord[q] /\ (orders'[q] # NoOrder => orders[q] # NoOrder)
    BY <1>1 DEF OnlyMoves, OnlyStores
  <2>2. Serves(q, "create")' => Serves(q, "create")
    BY <2>1 DEF Serves, Serving
  <2> QED
    BY <1>2, <1>3, <2>1, <2>2
<1> QED
  BY <1>2, <1>4, <1>5, <1>6 DEF Existing, Exists, StillExists

-----------------------------------------------------------------------------
(* What a handler holds is what it has read *)

\* A step leaves the copies of the others alone, and no overflow is forgotten.
LEMMA CopiesOfOthers ==
    ASSUME TypeOK, NEW p \in Requests, Accept(p) \/ Serve(p)
    PROVE  /\ \A q \in Requests \ {p} : rec'[q] = rec[q]
           /\ wrapped => wrapped'
<1>1. ASSUME NEW code, Return(p, code) PROVE \A q \in Requests \ {p} : rec'[q] = rec[q]
  BY <1>1 DEF Return, TypeOK
<1>2. ASSUME NEW doc, NEW call, Hold(p, doc, call) PROVE \A q \in Requests \ {p} : rec'[q] = rec[q]
  BY <1>2 DEF Hold, TypeOK
<1>3. ASSUME NEW code, Refuse(p, code) PROVE (\A q \in Requests \ {p} : rec'[q] = rec[q]) /\ UNCHANGED wrapped
  BY <1>1, <1>3 DEF Refuse, history
<1>4. ASSUME NEW n, NEW code, SaveBack(p, n, code) PROVE (\A q \in Requests \ {p} : rec'[q] = rec[q]) /\ UNCHANGED wrapped
  BY <1>1, <1>4, WrittenReturns DEF SaveBack
<1>5. ASSUME UNCHANGED wrapped PROVE wrapped => wrapped'
  BY <1>5, Zenon
<1>6. CASE Accept(p)
  <2>1. PICK q \in Request : rec' = IF q.op = "add" THEN [rec EXCEPT ![p] = NewRecord(q)] ELSE rec
    BY <1>6 DEF Accept
  <2>2. \A s \in Requests \ {p} : rec'[s] = rec[s]
    BY <2>1 DEF TypeOK
  <2> QED
    BY <1>5, <1>6, <2>2 DEF Accept, history
<1>7. CASE Create(p)
  BY <1>1, <1>2, <1>3, <1>5, <1>7, WrittenReturns
     DEF Create, CreateGetRecord, CreateDecrementStock, CreateSaveOrder, history
<1>8. CASE CancelGetRecord(p)
  <2>1. \A q \in Requests \ {p} : rec'[q] = rec[q]
    BY <1>2, <1>8 DEF CancelGetRecord
  <2>2. wrapped => wrapped'
    BY <1>8, Zenon DEF CancelGetRecord, history
  <2> QED
    BY <2>1, <2>2
<1>9. CASE CancelGetOrder(p) \/ CancelSaveRecord(p) \/ CancelSaveOrder(p)
  BY <1>1, <1>3, <1>5, <1>9, WrittenReturns DEF CancelGetOrder, CancelSaveRecord, CancelSaveOrder, history
<1>10. CASE RestockGetRecord(p)
  <2>1. \A q \in Requests \ {p} : rec'[q] = rec[q]
    BY <1>2, <1>3, <1>10 DEF RestockGetRecord
  <2>2. wrapped => wrapped'
    <3>1. CASE wrapped' = (wrapped \/ records[req[p].id].stock + req[p].qty > MaxInt)
      BY <3>1, Zenon
    <3> QED
      BY <1>3, <1>5, <1>10, <3>1 DEF RestockGetRecord
  <2> QED
    BY <2>1, <2>2
<1>11. CASE RestockSaveRecord(p) \/ Update(p) \/ Archive(p) \/ AddSaveRecord(p) \/ StoreError(p)
  BY <1>2, <1>3, <1>4, <1>5, <1>11
     DEF RestockSaveRecord, Update, UpdateGetRecord, UpdateSaveRecord,
         Archive, ArchiveGetRecord, ArchiveSaveRecord, AddSaveRecord, StoreError, history
<1> QED
  BY <1>6, <1>7, <1>8, <1>9, <1>10, <1>11 DEF Serve, Cancel, Restock

\* What a handler holds after its read is what it has read, changed.
LEMMA HoldCurrent ==
    ASSUME Typed, NEW p \in Requests, req[p].op \in {"restock", "update", "archive"}, UNCHANGED req,
           NEW doc, doc = records[req[p].id], doc # NoRecord, NEW new, Hold(p, new, "SaveRecord"),
           req[p].op = "restock" => new = Stocked(doc, req[p].qty) /\ (wrapped' \/ doc.stock + req[p].qty <= MaxInt),
           req[p].op = "update" => new = Patch(doc, req[p]),
           req[p].op = "archive" => new = [doc EXCEPT !.archived = TRUE]
    PROVE  Current(p)'
<1>1. TypeOK /\ UNCHANGED records
  BY DEF Typed, Hold, store
<1>2. rec'[p] = new /\ req'[p] = req[p]
  BY <1>1 DEF Hold, TypeOK
<1>3. Target(p)' = req[p].id /\ records'[Target(p)'] = doc
  BY <1>1, <1>2 DEF Target
<1>4. CASE req[p].op = "restock"
  <2>1. Credit(p)' = req[p].qty
    BY <1>2, <1>4 DEF Credit
  <2> QED
    BY <1>2, <1>3, <1>4, <2>1 DEF Current
<1>5. CASE req[p].op = "update"
  BY <1>2, <1>3, <1>5 DEF Current
<1>6. CASE req[p].op = "archive"
  BY <1>2, <1>3, <1>6 DEF Current
<1> QED
  BY <1>4, <1>5, <1>6

\* CancelOrder skips no line, as the records of its order are all still there.
LEMMA NoneSkipped ==
    ASSUME ShopSound, NEW p \in Requests, CancelGetRecord(p)
    PROVE  records[Ordered(p).id] # NoRecord
<1> DEFINE items == ord[p].items
<1>1. Typed /\ OrdersOK /\ Existing
  BY DEF ShopSound
<1>2. /\ Serves(p, "cancel") /\ pc[p] # "GetOrder" /\ req[p].order \in Requests
      /\ idx[p] \in 1..Len(items) /\ items \in Seq(OrderItem)
  BY <1>1, Cancelling DEF CancelGetRecord, At, Calls, Serves, Serving, Order
<1>3. Exists(items)
  BY <1>1, <1>2 DEF OrdersOK, Copying, Existing
<1>4. idx[p] \in DOMAIN items
  BY <1>2, LenProperties
<1> QED
  BY <1>3, <1>4 DEF Exists, Ordered

\* The copy of a handler that has just read, or built, its record is current.
LEMMA CurrentStep ==
    ASSUME ShopSound, Typed', NEW p \in Requests, Accept(p) \/ Serve(p)
    PROVE  Current(p)'
<1>1. TypeOK /\ TypeOK' /\ Typed /\ OrdersOK /\ Existing /\ OnlyMoves(p)
  BY StepMoves DEF ShopSound, Typed
<1>2. ASSUME pc'[p] # "SaveRecord" PROVE Current(p)'
  BY <1>2 DEF Current
<1>3. ASSUME NEW code, Return(p, code) PROVE pc'[p] # "SaveRecord"
  BY <1>1, <1>3 DEF Return, TypeOK
<1>4. ASSUME NEW code, Refuse(p, code) PROVE pc'[p] # "SaveRecord"
  BY <1>3, <1>4 DEF Refuse
<1>5. CASE Accept(p)
  <2>1. UNCHANGED records
    BY <1>5 DEF Accept, store
  <2>2. PICK q \in Request :
            /\ Acceptable(q)
            /\ req' = [req EXCEPT ![p] = q]
            /\ Goto(p, FirstCall(q))
            /\ rec' = IF q.op = "add" THEN [rec EXCEPT ![p] = NewRecord(q)] ELSE rec
    BY <1>5 DEF Accept
  <2>3. req'[p] = q /\ pc'[p] = FirstCall(q)
    BY <1>1, <2>2 DEF Goto, TypeOK
  <2>4. CASE q.op = "add"
    <3>1. rec'[p] = NewRecord(q) /\ records'[q.id] = NoRecord
      BY <1>1, <2>1, <2>2, <2>4 DEF Acceptable, Fresh, TypeOK
    <3>2. Target(p)' = q.id /\ Credit(p)' = q.stock /\ rec'[p].stock = q.stock
      BY <2>3, <2>4, <3>1 DEF Target, Credit, NewRecord
    <3> QED
      BY <2>3, <2>4, <3>1, <3>2 DEF Current
  <2>5. CASE q.op # "add"
    BY <1>2, <2>3, <2>5 DEF FirstCall
  <2> QED
    BY <2>4, <2>5
<1>6. CASE Create(p)
  <2>1. req'[p] # NoRequest /\ req'[p].op = "create"
    BY <1>1, <1>6 DEF Create, CreateGetRecord, CreateDecrementStock, CreateSaveOrder, At, OnlyMoves
  <2>2. pc'[p] # "SaveRecord"
    BY <2>1 DEF Typed, ControlOK, Control, Serving, Calls, CallsOf
  <2> QED
    BY <1>2, <2>2
<1>7. CASE CancelGetOrder(p) \/ CancelSaveOrder(p) \/ CancelSaveRecord(p)
  <2>1. ASSUME NEW call \in {"GetRecord", "SaveOrder"}, Goto(p, call) PROVE pc'[p] # "SaveRecord"
    BY <1>1, <2>1 DEF Goto, TypeOK
  <2>2. \A n : NextLine(p, n, "SaveOrder") \in {"GetRecord", "SaveOrder"}
    BY DEF NextLine
  <2>3. pc'[p] # "SaveRecord"
    BY <1>3, <1>4, <1>7, <2>1, <2>2, WrittenReturns DEF CancelGetOrder, CancelSaveRecord, CancelSaveOrder
  <2> QED
    BY <1>2, <2>3
<1>8. CASE CancelGetRecord(p)
  <2> DEFINE doc == records[Ordered(p).id]
  <2> DEFINE qty == Ordered(p).qty
  <2>1. /\ pc[p] = "GetRecord" /\ Serves(p, "cancel") /\ req[p] # NoRequest /\ req'[p].op = "cancel"
        /\ Ordered(p) \in OrderItem
    BY <1>1, <1>8, Cancelling DEF CancelGetRecord, At, Calls, Serves, Serving, OnlyMoves
  <2>2. doc # NoRecord
    BY <1>1, <1>8, NoneSkipped
  <2>3. /\ Hold(p, Stocked(doc, qty), "SaveRecord")
        /\ wrapped' = (wrapped \/ doc.stock + qty > MaxInt)
        /\ UNCHANGED <<idx, supply, taken, returned>>
    BY <1>8, <2>2 DEF CancelGetRecord, Restorable
  <2>4. /\ rec'[p] = Stocked(doc, qty)
        /\ UNCHANGED <<records, ord, idx>>
    BY <1>1, <2>3 DEF Hold, TypeOK, store
  <2>5. Target(p)' = Ordered(p).id /\ Credit(p)' = qty
    BY <2>1, <2>4 DEF Target, Credit, Ordered
  <2>6. wrapped' \/ doc.stock + qty <= MaxInt
    <3>1. doc.stock \in Int /\ qty \in Int
      <4>1. doc \in Doc
        BY <1>1, <2>1, <2>2 DEF OrderItem, TypeOK
      <4>2. doc.stock \in Int
        BY <4>1, IntAssumption DEF Doc
      <4>3. qty \in Int
        BY <2>1, StockRange DEF OrderItem
      <4> QED
        BY <4>2, <4>3
    <3>2. doc.stock + qty <= MaxInt \/ doc.stock + qty > MaxInt
      BY <3>1, IntAssumption
    <3>3. CASE doc.stock + qty > MaxInt
      BY <2>3, <3>3, Zenon
    <3> QED
      BY <3>2, <3>3, Zenon
  <2>7. rec'[p] = Stocked(records'[Target(p)'], Credit(p)') /\ records'[Target(p)'] # NoRecord
    BY <2>2, <2>4, <2>5
  <2>8. wrapped' \/ records'[Target(p)'].stock + Credit(p)' <= MaxInt
    BY <2>4, <2>5, <2>6
  <2> QED
    BY <2>1, <2>7, <2>8 DEF Current
<1>9. CASE RestockGetRecord(p)
  <2> DEFINE doc == records[req[p].id]
  <2> DEFINE qty == req[p].qty
  <2>1. CASE /\ doc # NoRecord /\ Hold(p, Stocked(doc, qty), "SaveRecord")
             /\ wrapped' = (wrapped \/ doc.stock + qty > MaxInt)
    <3>1. doc.stock \in Int /\ qty \in Nat
      <4>1. req[p].id \in Records /\ qty \in Nat
        BY <1>1, <1>9, RequestFields, StockRange DEF RestockGetRecord, At, TypeOK, RestockRequest
      <4>2. doc \in Doc
        BY <1>1, <2>1, <4>1 DEF TypeOK
      <4>3. doc.stock \in Int
        BY <4>2, IntAssumption DEF Doc
      <4> QED
        BY <4>1, <4>3
    <3>2. doc.stock + qty <= MaxInt \/ doc.stock + qty > MaxInt
      BY <3>1, IntAssumption
    <3>3. wrapped' \/ doc.stock + qty <= MaxInt
      BY <2>1, <3>2, Zenon
    <3>4. req[p].op = "restock" /\ UNCHANGED req
      BY <1>9 DEF RestockGetRecord, At
    <3> QED
      BY <1>1, <2>1, <3>3, <3>4, HoldCurrent
  <2>2. CASE Refuse(p, 404) \/ Refuse(p, 409)
    BY <1>2, <1>4, <2>2
  <2> QED
    BY <1>9, <2>1, <2>2 DEF RestockGetRecord
<1>10. CASE UpdateGetRecord(p)
  BY <1>1, <1>2, <1>4, <1>10, HoldCurrent DEF UpdateGetRecord, At
<1>11. CASE ArchiveGetRecord(p)
  BY <1>1, <1>2, <1>4, <1>11, HoldCurrent DEF ArchiveGetRecord, At
<1>12. CASE RestockSaveRecord(p) \/ UpdateSaveRecord(p) \/ ArchiveSaveRecord(p) \/ AddSaveRecord(p) \/ StoreError(p)
  BY <1>2, <1>3, <1>4, <1>12, WrittenReturns
     DEF RestockSaveRecord, UpdateSaveRecord, ArchiveSaveRecord, AddSaveRecord, SaveBack, StoreError
<1> QED
  BY <1>5, <1>6, <1>7, <1>8, <1>9, <1>10, <1>11, <1>12 DEF Serve, Cancel, Restock, Update, Archive

\* It stays current as long as nobody writes its record.
LEMMA CurrentStays ==
    ASSUME TypeOK, NEW p \in Requests, Accept(p) \/ Serve(p), OnlyMoves(p), NEW q \in Requests \ {p},
           Current(q), records'[Target(q)] = records[Target(q)]
    PROVE  Current(q)'
<1>1. /\ pc'[q] = pc[q] /\ req'[q] = req[q] /\ rec'[q] = rec[q] /\ ord'[q] = ord[q] /\ idx'[q] = idx[q]
      /\ wrapped => wrapped'
  BY CopiesOfOthers DEF OnlyMoves
<1>2. Target(q)' = Target(q) /\ Credit(q)' = Credit(q)
  BY <1>1 DEF Target, Credit, Ordered
<1>3. records'[Target(q)'] = records[Target(q)]
  BY <1>2
<1> QED
  BY <1>1, <1>2, <1>3, Zenon DEF Current

\* Whoever is not overtaken is current.
LEMMA CurrentsStep ==
    ASSUME ShopSound, Typed', Currents, RacesNext, NEW p \in Requests, Accept(p) \/ Serve(p)
    PROVE  Currents'
<1> SUFFICES ASSUME NEW q \in Requests, q \notin overtaken' PROVE Current(q)'
  BY DEF Currents
<1>1. Typed /\ TypeOK /\ OnlyMoves(p)
  BY StepMoves DEF ShopSound, Typed
<1>2. CASE q = p
  BY <1>2, CurrentStep
<1>3. CASE q # p /\ pc[q] = "SaveRecord"
  <2>1. pc'[q] = "SaveRecord"
    BY <1>1, <1>3 DEF OnlyMoves
  <2>2. q \notin overtaken /\ records'[Target(q)] = records[Target(q)]
    BY <1>3, <2>1 DEF RacesNext
  <2> QED
    BY <1>1, <1>3, <2>2, CurrentStays DEF Currents
<1>4. CASE q # p /\ pc[q] # "SaveRecord"
  BY <1>1, <1>4 DEF OnlyMoves, Current
<1> QED
  BY <1>2, <1>3, <1>4


-----------------------------------------------------------------------------
(* The books *)

\* What a step does to the books of the stock: nothing, or DecrementStock takes
\* units, or a SaveRecord puts back its copy and books what it credits.
Quiet == UNCHANGED <<records, supply, taken, returned>>
Takes(p) == /\ At(p, "create", "DecrementStock") /\ CanDecrement(Line(p).id, Line(p).qty)
            /\ Decrement(p) /\ taken' = Gain(taken, Line(p).id, Line(p).qty)
            /\ UNCHANGED <<supply, returned>>
PutsBack(p) == /\ pc[p] = "SaveRecord" /\ pc'[p] # "SaveRecord"
               /\ Replace(p, Target(p)) /\ UNCHANGED <<req, taken>>
               /\ \A r \in Records : supply'[r] + returned'[r] =
                     supply[r] + returned[r] + (IF r = Target(p) THEN Credit(p) ELSE 0)

\* A SaveRecord that ends a handler books the units it puts on the shelf.
LEMMA SaveBackPutsBack ==
    ASSUME Typed, NEW p \in Requests, pc[p] = "SaveRecord", NEW n, NEW code, SaveBack(p, n, code),
           n = Credit(p), Target(p) = req[p].id
    PROVE  PutsBack(p)
<1>1. TypeOK /\ Target(p) \in Records /\ n \in Nat
  BY SaveRecordTarget DEF Typed
<1>2. pc'[p] # "SaveRecord"
  BY <1>1, WrittenReturns DEF SaveBack, Return, TypeOK
<1>3. ASSUME NEW r \in Records
      PROVE  supply'[r] + returned'[r] = supply[r] + returned[r] + (IF r = Target(p) THEN Credit(p) ELSE 0)
  <2>1. supply'[r] = supply[r] + (IF r = Target(p) THEN Credit(p) ELSE 0)
    BY <1>1 DEF SaveBack, Gain, TypeOK
  <2>2. returned'[r] = returned[r]
    BY DEF SaveBack
  <2> QED
    BY <1>1, <2>1, <2>2 DEF TypeOK
<1> QED
  BY <1>2, <1>3 DEF SaveBack, PutsBack

\* A SaveRecord of CancelOrder books the units of its line.
LEMMA CancelPutsBack ==
    ASSUME Typed, NEW p \in Requests, CancelSaveRecord(p)
    PROVE  PutsBack(p)
<1>1. /\ TypeOK /\ pc[p] = "SaveRecord" /\ req[p].op = "cancel"
      /\ Replace(p, Ordered(p).id) /\ returned' = Gain(returned, Ordered(p).id, Ordered(p).qty)
      /\ UNCHANGED <<req, supply, taken>>
  BY DEF CancelSaveRecord, At, Typed
<1>2. Target(p) = Ordered(p).id /\ Credit(p) = Ordered(p).qty
  BY <1>1 DEF Target, Credit
<1>3. Target(p) \in Records /\ Credit(p) \in Nat
  BY <1>1, SaveRecordTarget
<1>4. pc'[p] # "SaveRecord"
  BY <1>1 DEF CancelSaveRecord, Return, Goto, NextLine, TypeOK
<1>5. ASSUME NEW r \in Records
      PROVE  supply'[r] + returned'[r] = supply[r] + returned[r] + (IF r = Target(p) THEN Credit(p) ELSE 0)
  <2>1. returned'[r] = returned[r] + (IF r = Target(p) THEN Credit(p) ELSE 0)
    BY <1>1, <1>2, <1>3 DEF Gain, TypeOK
  <2>2. supply'[r] = supply[r]
    BY <1>1
  <2> QED
    BY <1>1, <1>3, <2>1, <2>2 DEF TypeOK
<1> QED
  BY <1>1, <1>2, <1>4, <1>5 DEF PutsBack

\* There are no other steps.
LEMMA Ledger ==
    ASSUME Typed, NEW p \in Requests, Accept(p) \/ Serve(p)
    PROVE  Quiet \/ Takes(p) \/ PutsBack(p)
<1>1. CASE Accept(p)
  BY <1>1 DEF Accept, Quiet, store, history
<1>2. ASSUME NEW code, Refuse(p, code) PROVE Quiet
  BY <1>2 DEF Refuse, Quiet, store, history
<1>3. CASE Create(p)
  BY <1>2, <1>3 DEF Create, CreateGetRecord, CreateDecrementStock, CreateSaveOrder, Hold, Quiet, Takes, store, history
<1>4. CASE CancelSaveRecord(p)
  BY <1>4, CancelPutsBack
<1>5. CASE CancelGetOrder(p) \/ CancelGetRecord(p) \/ CancelSaveOrder(p)
  BY <1>2, <1>5 DEF CancelGetOrder, CancelGetRecord, CancelSaveOrder, Hold, Quiet, store, history
<1>6. CASE RestockGetRecord(p) \/ UpdateGetRecord(p) \/ ArchiveGetRecord(p)
  BY <1>2, <1>6 DEF RestockGetRecord, UpdateGetRecord, ArchiveGetRecord, Hold, Quiet, store, history
<1>7. CASE RestockSaveRecord(p) \/ UpdateSaveRecord(p) \/ ArchiveSaveRecord(p) \/ AddSaveRecord(p)
  <2>1. pc[p] = "SaveRecord" /\ req[p].op # "cancel"
    BY <1>7 DEF RestockSaveRecord, UpdateSaveRecord, ArchiveSaveRecord, AddSaveRecord, At
  <2>2. Target(p) = req[p].id
    BY <2>1 DEF Target
  <2>3. \E n, code : SaveBack(p, n, code) /\ n = Credit(p)
    BY <1>7 DEF RestockSaveRecord, UpdateSaveRecord, ArchiveSaveRecord, AddSaveRecord, At, Credit
  <2> QED
    BY <2>1, <2>2, <2>3, SaveBackPutsBack
<1>8. CASE StoreError(p)
  BY <1>2, <1>8 DEF StoreError
<1> QED
  BY <1>1, <1>3, <1>4, <1>5, <1>6, <1>7, <1>8 DEF Serve, Cancel, Restock, Update, Archive

\* What is written back is what the store holds, and the units the handler credits.
LEMMA WrittenBack ==
    ASSUME Typed, NEW p \in Requests, pc[p] = "SaveRecord", Current(p), ~wrapped,
           ~(req[p].op = "update" /\ SetsStock(req[p]))
    PROVE  rec[p] \in Doc /\ rec[p].stock = Stock(Target(p)) + Credit(p)
<1> DEFINE doc == records[Target(p)]
<1>1. TypeOK /\ Control(p) /\ Target(p) \in Records /\ Credit(p) \in Nat /\ rec[p] \in Doc
  BY SaveRecordTarget DEF Typed, ControlOK, Control
<1>2. req[p].op \in {"cancel", "restock", "archive", "add", "update"}
  BY <1>1, RequestFields DEF TypeOK, Control, Serving, Calls, CallsOf
<1>3. CASE req[p].op = "add"
  <2>1. doc = NoRecord /\ rec[p].stock = Credit(p)
    BY <1>3 DEF Current
  <2> QED
    BY <1>1, <2>1 DEF Stock
<1>4. CASE req[p].op \in {"archive", "update"}
  <2>1. doc # NoRecord /\ \/ rec[p] = [doc EXCEPT !.archived = TRUE]
                          \/ rec[p] = Patch(doc, req[p]) /\ ~SetsStock(req[p])
    BY <1>4 DEF Current
  <2>2. doc \in Doc
    BY <1>1, <2>1 DEF TypeOK
  <2>3. rec[p].stock = doc.stock /\ doc.stock \in Int
    <3>1. [doc EXCEPT !.archived = TRUE].stock = doc.stock /\ doc.stock \in Int
      BY <2>2, IntAssumption DEF Doc
    <3>2. ~SetsStock(req[p]) => Patch(doc, req[p]).stock = doc.stock
      BY <2>2 DEF Patch, Doc
    <3> QED
      BY <2>1, <3>1, <3>2
  <2>4. Credit(p) = 0
    BY <1>4 DEF Credit, SetsStock
  <2> QED
    BY <1>1, <2>1, <2>3, <2>4 DEF Stock
<1>5. CASE req[p].op \in {"cancel", "restock"}
  <2>1. doc # NoRecord /\ rec[p] = Stocked(doc, Credit(p))
    BY <1>5 DEF Current
  <2>2. doc.stock + Credit(p) <= MaxInt
    <3>1. wrapped \/ doc.stock + Credit(p) <= MaxInt
      BY <1>5 DEF Current
    <3> QED
      BY <3>1, Zenon
  <2>3. doc \in Doc
    BY <1>1, <2>1 DEF TypeOK
  <2>4. doc.stock \in Int
    BY <2>3, IntAssumption DEF Doc
  <2>5. Wrap(doc.stock + Credit(p)) = doc.stock + Credit(p)
    BY <1>1, <2>2, <2>4, IntAssumption DEF Wrap
  <2>6. rec[p].stock = doc.stock + Credit(p)
    BY <2>1, <2>3, <2>5 DEF Stocked, Doc
  <2> QED
    BY <1>1, <2>1, <2>6 DEF Stock
<1> QED
  BY <1>1, <1>2, <1>3, <1>4, <1>5

\* The numbers of the books are numbers.
LEMMA BookTypes ==
    ASSUME TypeOK, NEW r \in Records
    PROVE  Stock(r) \in Int /\ taken[r] \in Nat /\ supply[r] \in Nat /\ returned[r] \in Nat
<1>1. records[r] # NoRecord => records[r] \in Doc /\ records[r].stock \in Int
  BY IntAssumption DEF TypeOK, Doc
<1> QED
  BY <1>1 DEF TypeOK, Stock

\* DecrementStock moves units from the shelf to the books of what was taken.
LEMMA TakesEven ==
    ASSUME Typed, Typed', NEW p \in Requests, Takes(p), NEW r \in Records,
           Stock(r) + taken[r] = supply[r] + returned[r]
    PROVE  Stock(r)' + taken'[r] = supply'[r] + returned'[r]
<1>1. TypeOK /\ TypeOK' /\ Line(p) \in Item
  BY Creating DEF Typed, Takes, Calls, At
<1>2. PICK t \in Records : t = Line(p).id
  BY <1>1 DEF Item
<1>3. records[t] \in Doc /\ Line(p).qty \in Nat
  BY <1>1, <1>2, StockRange DEF Takes, CanDecrement, TypeOK, Item
<1>4. /\ Stock(r) \in Int /\ taken[r] \in Nat /\ supply[r] \in Nat /\ returned[r] \in Nat
      /\ records[t].stock \in Int
  BY <1>1, <1>3, BookTypes, IntAssumption DEF Doc
<1>5. CASE r = t
  <2>1. records'[t] = [records[t] EXCEPT !.stock = @ - Line(p).qty] /\ taken'[t] = taken[t] + Line(p).qty
    BY <1>1, <1>2 DEF Takes, Decrement, Gain, TypeOK
  <2>2. records'[t].stock = records[t].stock - Line(p).qty /\ records[t] # NoRecord
    BY <1>2, <1>3, <2>1 DEF Takes, Doc, CanDecrement
  <2>3. records'[t] # NoRecord
    BY <1>2, <2>2, DecrementStays DEF Takes, RecordsStay
  <2>4. Stock(t) = records[t].stock /\ Stock(t)' = records'[t].stock
    BY <2>2, <2>3 DEF Stock
  <2>5. supply'[r] = supply[r] /\ returned'[r] = returned[r]
    BY DEF Takes
  <2> QED
    BY <1>3, <1>4, <1>5, <2>1, <2>2, <2>4, <2>5
<1>6. CASE r # t
  <2>1. Stock(r)' = Stock(r) /\ taken'[r] = taken[r] /\ supply'[r] = supply[r] /\ returned'[r] = returned[r]
    BY <1>1, <1>2, <1>6 DEF Takes, Decrement, Gain, Stock, TypeOK
  <2> QED
    BY <2>1
<1> QED
  BY <1>5, <1>6

\* A copy that is current adds to the shelf what it adds to the books.
LEMMA PutsBackEven ==
    ASSUME Typed, Typed', NEW p \in Requests, PutsBack(p), ~wrapped, NEW r \in Records,
           r = Target(p) => Current(p) /\ ~(req[p].op = "update" /\ SetsStock(req[p])),
           Stock(r) + taken[r] = supply[r] + returned[r]
    PROVE  Stock(r)' + taken'[r] = supply'[r] + returned'[r]
<1>1. TypeOK /\ TypeOK' /\ Target(p) \in Records /\ Credit(p) \in Nat /\ taken'[r] = taken[r]
  BY SaveRecordTarget DEF Typed, PutsBack
<1>2. /\ Stock(r) \in Int /\ taken[r] \in Nat /\ supply[r] \in Nat /\ returned[r] \in Nat
      /\ supply'[r] \in Nat /\ returned'[r] \in Nat
  BY <1>1, BookTypes DEF TypeOK
<1>3. CASE r = Target(p)
  <2>1. rec[p] \in Doc /\ rec[p].stock = Stock(r) + Credit(p)
    <3>1. Current(p) /\ ~(req[p].op = "update" /\ SetsStock(req[p])) /\ pc[p] = "SaveRecord"
      BY <1>3 DEF PutsBack
    <3> QED
      BY <1>3, <3>1, WrittenBack
  <2>2. Stock(r)' = rec[p].stock
    BY <1>1, <1>3, <2>1, SentinelAssumption DEF PutsBack, Replace, Stock, TypeOK
  <2>3. supply'[r] + returned'[r] = supply[r] + returned[r] + Credit(p)
    BY <1>3 DEF PutsBack
  <2> QED
    BY <1>1, <1>2, <2>1, <2>2, <2>3
<1>4. CASE r # Target(p)
  <2>1. Stock(r)' = Stock(r)
    BY <1>1, <1>4 DEF PutsBack, Replace, Stock, TypeOK
  <2>2. supply'[r] + returned'[r] = supply[r] + returned[r]
    <3>1. supply'[r] + returned'[r] = supply[r] + returned[r] + 0
      BY <1>4 DEF PutsBack
    <3> QED
      BY <1>2, <3>1
  <2> QED
    BY <1>1, <2>1, <2>2
<1> QED
  BY <1>3, <1>4

\* Every step keeps the books balanced, or is the stale write that spoils them.
LEMMA BalancesStep ==
    ASSUME ShopSound, Typed', Currents, Balances, RacesNext, NEW p \in Requests, Accept(p) \/ Serve(p)
    PROVE  Balances'
<1> SUFFICES ASSUME NEW r \in Records, r \notin spoilt', ~wrapped', ~Restated(r)'
             PROVE  Stock(r)' + taken'[r] = supply'[r] + returned'[r]
  BY DEF Balances, Balanced
<1>1. Typed /\ TypeOK /\ OnlyMoves(p)
  BY StepMoves DEF ShopSound, Typed
<1>2. r \notin spoilt /\ ~Clobbers(r)
  BY DEF RacesNext
<1>3. ~wrapped
  <2>1. wrapped => wrapped'
    BY <1>1, CopiesOfOthers
  <2> QED
    BY <2>1, Zenon
<1>4. ~Restated(r)
  <2>1. ASSUME NEW q \in Requests, req[q] # NoRequest PROVE req'[q] = req[q]
    BY <1>1, <2>1 DEF OnlyMoves
  <2> QED
    BY <2>1 DEF Restated
<1>5. Stock(r) + taken[r] = supply[r] + returned[r]
  BY <1>2, <1>3, <1>4 DEF Balances, Balanced
<1>6. CASE Quiet
  BY <1>5, <1>6 DEF Quiet, Stock
<1>7. CASE Takes(p)
  BY <1>1, <1>5, <1>7, TakesEven
<1>8. CASE PutsBack(p) /\ ~Quiet
  <2>1. ASSUME r = Target(p) PROVE Current(p) /\ ~(req[p].op = "update" /\ SetsStock(req[p]))
    <3>1. p \notin overtaken
      BY <1>2, <1>8, <2>1 DEF Clobbers, PutsBack, Quiet, history
    <3>2. req[p] # NoRequest
      BY <1>1, <1>8 DEF PutsBack, Typed, ControlOK, Control
    <3>3. ~(req[p].op = "update" /\ SetsStock(req[p]))
      BY <1>4, <2>1, <3>2 DEF Restated, Target
    <3> QED
      BY <3>1, <3>3 DEF Currents
  <2> QED
    BY <1>1, <1>3, <1>5, <1>8, <2>1, PutsBackEven
<1> QED
  BY <1>1, <1>6, <1>7, <1>8, Ledger

\* The shop opens with its books in order.
LEMMA RacesInitOK == RacesInit => RacesOK
<1> SUFFICES ASSUME RacesInit PROVE RacesOK
  OBVIOUS
<1>1. Init
  BY DEF RacesInit
<1>2. ShopSound
  <2>1. Existing
    BY <1>1 DEF Init, Existing, Serves, Serving, Calls
  <2> QED
    BY <1>1, <2>1, TypedInit, OrdersInit DEF ShopSound
<1>3. Currents
  BY <1>1 DEF Init, Currents, Current
<1>4. ASSUME NEW r \in Records PROVE Balanced(r)
  <2>1. supply[r] = Stock(r) /\ taken[r] = 0 /\ returned[r] = 0
    BY <1>1 DEF Init, Stock
  <2>2. Stock(r) \in Int
    BY <1>2, BookTypes DEF ShopSound, Typed
  <2> QED
    BY <2>1, <2>2 DEF Balanced
<1> QED
  BY <1>2, <1>3, <1>4 DEF RacesOK, Balances

\* Every step keeps the invariant.
LEMMA RacesOKStep == RacesOK /\ [RacesNext]_racesVars => RacesOK'
<1> SUFFICES ASSUME RacesOK, [RacesNext]_racesVars PROVE RacesOK'
  OBVIOUS
<1>1. Typed /\ OrdersOK /\ Existing /\ [Next]_vars /\ ShopSound
  BY DEF RacesOK, ShopSound, RacesNext, racesVars
<1>2. Typed' /\ OrdersOK'
  BY <1>1, TypedStep, OrdersStep
<1>3. CASE UNCHANGED vars
  <2>1. ShopSound'
    BY <1>1, <1>2, <1>3 DEF ShopSound, Existing, Exists, Serves, Serving, vars, store, locals
  <2>2. Currents'
    <3> SUFFICES ASSUME NEW p \in Requests, p \notin overtaken' PROVE Current(p)'
      BY DEF Currents
    <3>1. Current(p) => Current(p)'
      BY <1>3 DEF Current, Target, Credit, Ordered, vars, store, locals, history
    <3>2. pc[p] = "SaveRecord" => p \notin overtaken
      BY <1>3 DEF RacesNext, racesVars, races, vars
    <3>3. pc[p] # "SaveRecord" => Current(p)
      BY DEF Current
    <3> QED
      BY <3>1, <3>2, <3>3 DEF RacesOK, Currents
  <2>3. Balances'
    <3> SUFFICES ASSUME NEW r \in Records, r \notin spoilt' PROVE Balanced(r)'
      BY DEF Balances
    <3>1. Balanced(r) => Balanced(r)'
      BY <1>3 DEF Balanced, Restated, Stock, vars, store, history
    <3>2. r \notin spoilt
      BY DEF RacesNext, racesVars, races
    <3> QED
      BY <3>1, <3>2 DEF RacesOK, Balances
  <2> QED
    BY <2>1, <2>2, <2>3 DEF RacesOK
<1>4. ASSUME NEW p \in Requests, Accept(p) \/ Serve(p), RacesNext PROVE RacesOK'
  <2>1. ShopSound'
    BY <1>1, <1>2, <1>4, ExistingStep DEF ShopSound
  <2>2. Currents' /\ Balances'
    BY <1>1, <1>2, <1>4, CurrentsStep, BalancesStep DEF RacesOK
  <2> QED
    BY <2>1, <2>2 DEF RacesOK
<1> QED
  BY <1>3, <1>4 DEF RacesNext, Next, racesVars

\* The invariant of the races holds in every reachable state.
LEMMA RacesOKAlways == RacesSpec => []RacesOK
  BY RacesInitOK, RacesOKStep, PTL DEF RacesSpec

\* Whatever handlers overlap and whatever store calls fail, stock and units taken
\* are what was supplied and returned for every record no stale SaveRecord has
\* written, until an UpdateRecord sets its stock or an addition overflows.
THEOREM BooksBalanceAlways == RacesSpec => []BooksBalance
<1>1. RacesOK => BooksBalance
  BY DEF RacesOK, Balances, Balanced, BooksBalance
<1> QED
  BY <1>1, RacesOKAlways, PTL

-----------------------------------------------------------------------------
(* What each handler changes *)

\* A handler changes the fields that are its own.
Disciplined(r) ==
    /\ records'[r] # NoRecord
    /\ records'[r].archived # records[r].archived => records'[r].archived /\ By("archive")
    /\ records'[r].info # records[r].info => By("update")
    /\ records'[r].stock # records[r].stock => ~By("archive")

\* The copy it writes back is current, so only what it changed changes.
LEMMA DisciplinedStep ==
    ASSUME Typed, Typed', OrdersOK, NEW p \in Requests, Accept(p) \/ Serve(p),
           NEW r \in Records, records[r] # NoRecord, r = Target(p) /\ PutsBack(p) => Quiet \/ Current(p)
    PROVE  Disciplined(r)
<1>1. TypeOK /\ records[r] \in Doc /\ records'[r] # NoRecord /\ OnlyMoves(p)
  BY StepsStay, StepMoves DEF Typed, TypeOK, RecordsStay
<1>2. \A op : req[p].op # op => ~By(op)
  BY <1>1 DEF By, OnlyMoves
<1>3. CASE records'[r] = records[r]
  BY <1>1, <1>3 DEF Disciplined
<1>4. CASE Takes(p)
  <2>1. PICK t \in Records : t = Line(p).id
    BY <1>4, Creating DEF Takes, Calls, Item, At
  <2>2. req[p].op # "archive"
    BY <1>4 DEF Takes, At
  <2>3. CASE r # t
    BY <1>1, <1>3, <1>4, <2>1, <2>3 DEF Takes, Decrement, TypeOK
  <2>4. CASE r = t
    <3>1. records'[r] = [records[r] EXCEPT !.stock = @ - Line(p).qty]
      BY <1>1, <1>4, <2>1, <2>4 DEF Takes, Decrement, TypeOK
    <3>2. records'[r].archived = records[r].archived /\ records'[r].info = records[r].info
      BY <1>1, <3>1 DEF Doc
    <3> QED
      BY <1>1, <1>2, <2>2, <3>2 DEF Disciplined
  <2> QED
    BY <2>3, <2>4
<1>5. CASE PutsBack(p) /\ ~Quiet
  <2>1. Target(p) \in Records /\ pc[p] = "SaveRecord" /\ Replace(p, Target(p)) /\ By(req[p].op)
    BY <1>5, SaveRecordTarget DEF PutsBack, By
  <2>2. CASE r # Target(p)
    BY <1>1, <1>3, <2>1, <2>2 DEF Replace, TypeOK
  <2>3. CASE r = Target(p)
    <3>1. records'[r] = rec[p] /\ Current(p)
      BY <1>1, <1>5, <2>1, <2>3 DEF Replace, TypeOK
    <3>2. req[p].op \in {"cancel", "restock", "update", "archive"}
      <4>1. req[p].op # "add"
        BY <2>1, <2>3, <3>1 DEF Current
      <4>2. Control(p)
        BY DEF Typed, ControlOK
      <4> QED
        BY <1>1, <2>1, <4>1, <4>2, RequestFields DEF TypeOK, Control, Serving, Calls, CallsOf
    <3>3. CASE req[p].op \in {"cancel", "restock"}
      <4>1. rec[p] = Stocked(records[r], Credit(p))
        BY <2>1, <2>3, <3>1, <3>3 DEF Current
      <4>2. rec[p].archived = records[r].archived /\ rec[p].info = records[r].info
        BY <1>1, <4>1 DEF Stocked, Doc
      <4> QED
        BY <1>1, <1>2, <3>1, <3>3, <4>2 DEF Disciplined
    <3>4. CASE req[p].op = "update"
      <4>1. rec[p] = Patch(records[r], req[p])
        BY <2>1, <2>3, <3>1, <3>4 DEF Current
      <4>2. rec[p].archived = records[r].archived
        BY <1>1, <4>1 DEF Patch, Doc
      <4>3. By("update") /\ ~By("archive")
        BY <1>2, <2>1, <3>4
      <4> QED
        BY <1>1, <3>1, <4>2, <4>3 DEF Disciplined
    <3>5. CASE req[p].op = "archive"
      <4>1. rec[p] = [records[r] EXCEPT !.archived = TRUE]
        BY <2>1, <2>3, <3>1, <3>5 DEF Current
      <4>2. rec[p].archived /\ rec[p].info = records[r].info /\ rec[p].stock = records[r].stock
        BY <1>1, <4>1 DEF Doc
      <4>3. By("archive")
        BY <2>1, <3>5
      <4> QED
        BY <1>1, <3>1, <4>2, <4>3 DEF Disciplined
    <3> QED
      BY <3>2, <3>3, <3>4, <3>5
  <2> QED
    BY <2>2, <2>3
<1>6. CASE Quiet
  BY <1>3, <1>6 DEF Quiet
<1> QED
  BY <1>4, <1>5, <1>6, Ledger

\* Though every handler but CreateOrder writes whole documents, only a handler
\* that was overtaken unarchives a record, changes a description without
\* being an UpdateRecord or a stock while being an ArchiveRecord.
THEOREM FieldDisciplineAlways == RacesSpec => FieldDiscipline
<1>1. RacesOK /\ [RacesNext]_racesVars =>
         [\A r \in Records : records[r] # NoRecord /\ ~Clobbers(r) => Disciplined(r)]_racesVars
  <2> SUFFICES ASSUME RacesOK, RacesNext, NEW r \in Records, records[r] # NoRecord, ~Clobbers(r)
               PROVE  Disciplined(r)
    OBVIOUS
  <2>1. Typed /\ OrdersOK /\ Typed'
    BY TypedStep DEF RacesOK, ShopSound, RacesNext
  <2>2. ASSUME NEW p \in Requests, Accept(p) \/ Serve(p) PROVE Disciplined(r)
    <3>1. ASSUME r = Target(p), PutsBack(p), ~Quiet PROVE Current(p)
      <4>1. p \notin overtaken
        BY <3>1 DEF Clobbers, PutsBack, Quiet, history
      <4> QED
        BY <4>1 DEF RacesOK, Currents
    <3> QED
      BY <2>1, <2>2, <3>1, DisciplinedStep
  <2>3. CASE UNCHANGED vars
    BY <2>3 DEF Disciplined, vars, store
  <2> QED
    BY <2>2, <2>3 DEF RacesNext, Next
<1> QED
  BY <1>1, RacesOKAlways, PTL DEF RacesSpec, FieldDiscipline, Disciplined

-----------------------------------------------------------------------------
(* What cancellations bring back *)

\* The units of r that the first n lines bring back, those a cancellation has
\* brought back so far, and those of the order it names.
UpTo(items, n, r) == SumFunctionOnSet([i \in DOMAIN items |-> IF items[i].id = r THEN items[i].qty ELSE 0], 1..n)
Back(p, r) == IF Serves(p, "cancel") /\ pc[p] # "GetOrder" THEN UpTo(ord[p].items, idx[p] - 1, r) ELSE 0
OfOrder(p, r) == IF req[p] # NoRequest /\ req[p].op = "cancel" /\ orders[req[p].order] # NoOrder
                 THEN Units(orders[req[p].order].items, r) ELSE 0

\* The loop of CancelOrder ends behind the last line.
Ended(p) == Serves(p, "cancel") /\ pc[p] = "SaveOrder" => idx[p] = Len(ord[p].items) + 1
LoopsEnd == \A p \in Requests : Ended(p)

\* Before the first line nothing has come back.
LEMMA UpToNone == ASSUME NEW items, NEW r PROVE UpTo(items, 0, r) = 0
<1>1. 1..0 = {}
  OBVIOUS
<1> QED
  BY <1>1, SumNone DEF UpTo

\* A line brings back its own units, and after the last one all have come back.
LEMMA UpToLine ==
    ASSUME NEW items \in Seq(OrderItem), NEW r, NEW n \in 1..Len(items)
    PROVE  /\ UpTo(items, n, r) = UpTo(items, n - 1, r) + UnitsOf(items[n], r)
           /\ UpTo(items, n - 1, r) \in Nat /\ UnitsOf(items[n], r) \in Nat
<1> DEFINE f == [i \in DOMAIN items |-> IF items[i].id = r THEN items[i].qty ELSE 0]
<1>1. DOMAIN items = 1..Len(items) /\ Len(items) \in Nat
  BY LenProperties
<1>2. \A i \in 1..Len(items) : f[i] = UnitsOf(items[i], r) /\ f[i] \in Nat
  <2> TAKE i \in 1..Len(items)
  <2>1. items[i] \in OrderItem
    BY ElementOfSeq
  <2> QED
    BY <1>1, <2>1, StockRange DEF OrderItem, UnitsOf
<1> HIDE DEF f
<1>3. IsFiniteSet(1..n) /\ IsFiniteSet(1..(n - 1))
  BY <1>1, FS_Interval
<1>4. \A i \in 1..n : f[i] \in Nat
  BY <1>1, <1>2
<1>5. n \in 1..n /\ (1..n) \ {n} = 1..(n - 1)
  BY <1>1
<1>6. SumFunctionOnSet(f, 1..n) = f[n] + SumFunctionOnSet(f, 1..(n - 1))
  BY <1>3, <1>4, <1>5, SumRemove
<1>7. \A i \in 1..(n - 1) : f[i] \in Nat
  BY <1>1, <1>4
<1>8. SumFunctionOnSet(f, 1..(n - 1)) \in Nat
  BY <1>3, <1>7, SumNat
<1>9. UpTo(items, n, r) = SumFunctionOnSet(f, 1..n) /\ UpTo(items, n - 1, r) = SumFunctionOnSet(f, 1..(n - 1))
  BY DEF UpTo, f
<1> QED
  BY <1>2, <1>6, <1>8, <1>9

\* All the lines together are all the units.
LEMMA UpToAll ==
    ASSUME NEW items \in Seq(OrderItem), NEW r
    PROVE  UpTo(items, Len(items), r) = Units(items, r)
<1>1. DOMAIN items = 1..Len(items)
  BY LenProperties
<1> QED
  BY <1>1 DEF UpTo, Units, SumFunction

\* Some of the lines bring back some of the units.
LEMMA UpToSome ==
    ASSUME NEW items \in Seq(OrderItem), NEW r, NEW n \in 0..Len(items)
    PROVE  UpTo(items, n, r) \in Nat /\ UpTo(items, n, r) <= Units(items, r) /\ Units(items, r) \in Nat
<1> DEFINE f == [i \in DOMAIN items |-> IF items[i].id = r THEN items[i].qty ELSE 0]
<1> DEFINE S == 1..Len(items)
<1>1. DOMAIN items = S /\ Len(items) \in Nat
  BY LenProperties
<1>2. \A i \in S : f[i] \in Nat
  <2> TAKE i \in S
  <2>1. items[i] \in OrderItem
    BY ElementOfSeq
  <2> QED
    BY <1>1, <2>1, StockRange DEF OrderItem
<1>3. UpTo(items, n, r) = SumFunctionOnSet(f, 1..n) /\ UpTo(items, Len(items), r) = SumFunctionOnSet(f, S)
  BY DEF UpTo, f
<1>4. 1..n \subseteq S /\ IsFiniteSet(S)
  BY <1>1, FS_Interval
<1>5. IsFiniteSet(1..n) /\ IsFiniteSet(S \ (1..n))
  BY <1>4, FS_Subset
<1> HIDE DEF f, S
<1>6. SumFunctionOnSet(f, S) = SumFunctionOnSet(f, 1..n) + SumFunctionOnSet(f, S \ (1..n))
  BY <1>2, <1>4, SumSplit
<1>7. SumFunctionOnSet(f, 1..n) \in Nat /\ SumFunctionOnSet(f, S \ (1..n)) \in Nat
  BY <1>2, <1>4, <1>5, SumNat
<1>8. UpTo(items, Len(items), r) = Units(items, r)
  BY UpToAll
<1> QED
  BY <1>3, <1>6, <1>7, <1>8

\* A cancellation that is through all its checks works on the order it names.
LEMMA RestoringOrder ==
    ASSUME Typed, OrdersOK, NEW p \in Requests, Serves(p, "cancel"), pc[p] # "GetOrder", NEW r
    PROVE  /\ req[p].order \in Requests /\ orders[req[p].order] # NoOrder
           /\ ord[p] \in Order /\ ord[p].items \in Seq(OrderItem) /\ Len(ord[p].items) \in Nat
           /\ orders[req[p].order].items = ord[p].items
           /\ OfOrder(p, r) = Units(ord[p].items, r) /\ OfOrder(p, r) \in Nat
<1>1. At(p, "cancel", pc[p]) /\ pc[p] \in Calls /\ req[p] # NoRequest
  BY DEF At, Serves, Serving, Typed, ControlOK, Control, Calls
<1>2. req[p].order \in Requests /\ ord[p] \in Order
  BY <1>1, Cancelling
<1>3. ord[p].items \in Seq(OrderItem) /\ Len(ord[p].items) \in Nat
  BY <1>2, LenProperties DEF Order
<1>4. orders[req[p].order] # NoOrder /\ orders[req[p].order].items = ord[p].items
  BY DEF OrdersOK, Copying
<1>5. OfOrder(p, r) = Units(ord[p].items, r)
  BY <1>1, <1>4 DEF OfOrder, Serves
<1> QED
  BY <1>2, <1>3, <1>4, <1>5, UnitsNat

\* It brings back no more than the order holds.
LEMMA BackBounds ==
    ASSUME Typed, OrdersOK, LoopsEnd, NEW p \in Requests, NEW r
    PROVE  Back(p, r) \in Nat /\ Back(p, r) <= OfOrder(p, r) /\ OfOrder(p, r) \in Nat
<1>1. OfOrder(p, r) \in Nat
  <2>1. CASE req[p] # NoRequest /\ req[p].op = "cancel" /\ orders[req[p].order] # NoOrder
    <3>1. req[p].order \in Requests
      BY <2>1, RequestFields DEF Typed, TypeOK, CancelRequest
    <3>2. orders[req[p].order].items \in Seq(OrderItem)
      BY <2>1, <3>1 DEF Typed, TypeOK, Order
    <3> QED
      BY <2>1, <3>2, UnitsNat DEF OfOrder
  <2> QED
    BY <2>1 DEF OfOrder
<1>2. CASE Serves(p, "cancel") /\ pc[p] # "GetOrder"
  <2>1. /\ ord[p].items \in Seq(OrderItem) /\ Len(ord[p].items) \in Nat
        /\ OfOrder(p, r) = Units(ord[p].items, r)
    BY <1>2, RestoringOrder
  <2>2. idx[p] - 1 \in 0..Len(ord[p].items)
    <3>1. CASE pc[p] = "SaveOrder"
      BY <1>2, <2>1, <3>1 DEF LoopsEnd, Ended
    <3>2. CASE pc[p] # "SaveOrder"
      <4>1. pc[p] \in {"GetRecord", "SaveRecord"}
        BY <1>2, <3>2 DEF Typed, ControlOK, Control, Serves, Serving, CallsOf
      <4>2. idx[p] \in 1..Len(ord[p].items)
        BY <1>2, <4>1 DEF Typed, ControlOK, Control
      <4> QED
        BY <2>1, <4>2
    <3> QED
      BY <3>1, <3>2
  <2>3. PICK n : n = idx[p] - 1
    OBVIOUS
  <2> QED
    BY <1>1, <1>2, <2>1, <2>2, <2>3, UpToSome DEF Back
<1>3. CASE ~(Serves(p, "cancel") /\ pc[p] # "GetOrder")
  BY <1>1, <1>3 DEF Back
<1> QED
  BY <1>2, <1>3

\* What a step brings back of r: d units, by a cancellation that goes on with its
\* next line, by one that fails, or none by one that has all its lines behind it.
GoesOn(p, r, d) == /\ Back(p, r)' = Back(p, r) + d
                   /\ p \notin (CancelsAnswered(204) \union CancelsAnswered(500))'
                   /\ \A o \in Requests : Cancelled(o)' <=> Cancelled(o)
Fails(p, r, d) == /\ Answered(p, "cancel", 500)' /\ Back(p, r)' = 0
                  /\ Back(p, r) + d <= OfOrder(p, r)
Succeeds(p, r, d) == /\ CancelSaveOrder(p) /\ Return(p, 204) /\ d = 0
                     /\ Back(p, r)' = 0 /\ Back(p, r) = OfOrder(p, r)
Brings(p, r) == \E d \in Nat : /\ returned'[r] = returned[r] + d
                               /\ GoesOn(p, r, d) \/ Fails(p, r, d) \/ Succeeds(p, r, d)

\* A handler that has nothing in hand brings nothing back.
LEMMA BringsNothing ==
    ASSUME Typed, NEW p \in Requests, NEW r \in Records, UNCHANGED returned,
           Back(p, r) = 0, Back(p, r)' = 0,
           ~Answered(p, "cancel", 204)', ~Answered(p, "cancel", 500)',
           \A o \in Requests : Cancelled(o)' <=> Cancelled(o)
    PROVE  Brings(p, r)
<1>1. returned'[r] = returned[r] + 0
  BY DEF Typed, TypeOK
<1>2. GoesOn(p, r, 0)
  BY DEF GoesOn, CancelsAnswered
<1> QED
  BY <1>1, <1>2 DEF Brings

\* The arrival of a request, and the handlers that cancel no order.
LEMMA OthersBring ==
    ASSUME Typed, Typed', OrdersOK, NEW p \in Requests, Accept(p) \/ (Serve(p) /\ req[p].op # "cancel"), NEW r \in Records
    PROVE  Brings(p, r) /\ Ended(p)'
<1>1. TypeOK /\ TypeOK'
  BY DEF Typed
<1>2. UNCHANGED returned
  BY DEF Accept, Serve, Create, CreateGetRecord, CreateDecrementStock, CreateSaveOrder,
         Cancel, CancelGetOrder, CancelGetRecord, CancelSaveRecord, CancelSaveOrder, At,
         Restock, RestockGetRecord, RestockSaveRecord, Update, UpdateGetRecord, UpdateSaveRecord,
         Archive, ArchiveGetRecord, ArchiveSaveRecord, AddSaveRecord, SaveBack, StoreError, Refuse, history
<1>3. CASE Accept(p)
  <2>1. pc[p] = "idle" /\ UNCHANGED orders
    BY <1>3 DEF Accept, store
  <2>2. PICK q \in Request : req' = [req EXCEPT ![p] = q] /\ Goto(p, FirstCall(q))
    BY <1>3 DEF Accept
  <2>3. req'[p] = q /\ pc'[p] = FirstCall(q)
    BY <1>1, <2>2 DEF Goto, TypeOK
  <2>4. pc'[p] # "done" /\ (Serves(p, "cancel")' => pc'[p] = "GetOrder")
    BY <2>3 DEF FirstCall, Serves
  <2>5. resp'[p] = 0
    BY <2>4 DEF Typed, ControlOK, Control
  <2>6. Back(p, r) = 0 /\ Back(p, r)' = 0 /\ Ended(p)'
    BY <2>1, <2>4 DEF Back, Ended, Serves, Serving, Calls
  <2>7. ~Answered(p, "cancel", 204)' /\ ~Answered(p, "cancel", 500)'
    BY <2>5 DEF Answered
  <2>8. \A o \in Requests : Cancelled(o)' <=> Cancelled(o)
    BY <2>1 DEF Cancelled
  <2> QED
    BY <1>2, <2>6, <2>7, <2>8, BringsNothing
<1>4. CASE Serve(p) /\ req[p].op # "cancel"
  <2>1. UNCHANGED req
    BY <1>4, ServeServes DEF OneServes
  <2>2. Back(p, r) = 0 /\ Back(p, r)' = 0 /\ Ended(p)'
    BY <1>4, <2>1 DEF Back, Ended, Serves
  <2>3. ~Answered(p, "cancel", 204)' /\ ~Answered(p, "cancel", 500)'
    BY <1>4, <2>1 DEF Answered
  <2>4. \A o \in Requests : Cancelled(o)' <=> Cancelled(o)
    <3>1. CASE UNCHANGED orders
      BY <3>1 DEF Cancelled
    <3>2. CASE CreateSaveOrder(p)
      <4>1. orders[p] = NoOrder /\ ord[p].status = "pending" /\ orders' = [orders EXCEPT ![p] = ord[p]]
        BY <3>2 DEF CreateSaveOrder, OrdersOK, Building, At, Serves, Serving, Calls
      <4> QED
        BY <1>1, <4>1 DEF Cancelled, TypeOK
    <3> QED
      BY <1>4, <3>1, <3>2
         DEF Serve, Create, CreateGetRecord, CreateDecrementStock,
             Cancel, CancelGetOrder, CancelGetRecord, CancelSaveRecord, CancelSaveOrder, At,
             Restock, RestockGetRecord, RestockSaveRecord, Update, UpdateGetRecord, UpdateSaveRecord,
             Archive, ArchiveGetRecord, ArchiveSaveRecord, AddSaveRecord, SaveBack, StoreError, Refuse, Hold, store
  <2> QED
    BY <1>2, <2>2, <2>3, <2>4, BringsNothing
<1> QED
  BY <1>3, <1>4

\* A cancellation that answers has nothing in hand.
LEMMA ReturnBack ==
    ASSUME TypeOK, NEW p \in Requests, NEW code, Return(p, code), UNCHANGED req, req[p].op = "cancel", NEW r
    PROVE  /\ Back(p, r)' = 0 /\ Ended(p)'
           /\ \A c : Answered(p, "cancel", c)' <=> c = code
<1>1. pc'[p] = "done" /\ resp'[p] = code
  BY DEF Return, TypeOK
<1> QED
  BY <1>1 DEF Back, Ended, Answered, Serves, Serving, Calls

\* A cancellation that fails before its call has an effect brings back nothing more.
LEMMA CancelFails ==
    ASSUME Typed, OrdersOK, LoopsEnd, NEW p \in Requests, Return(p, 500), UNCHANGED <<req, returned>>,
           req[p].op = "cancel", NEW r \in Records
    PROVE  Brings(p, r) /\ Ended(p)'
<1>1. TypeOK /\ returned'[r] = returned[r] + 0
  BY DEF Typed, TypeOK
<1>2. Back(p, r)' = 0 /\ Ended(p)' /\ Answered(p, "cancel", 500)'
  BY <1>1, ReturnBack
<1>3. Back(p, r) + 0 <= OfOrder(p, r)
  BY BackBounds
<1> QED
  BY <1>1, <1>2, <1>3 DEF Brings, Fails

\* The checks of CancelOrder bring nothing back.
LEMMA ChecksBring ==
    ASSUME Typed, Typed', OrdersOK, NEW p \in Requests, CancelGetOrder(p), NEW r \in Records
    PROVE  Brings(p, r) /\ Ended(p)'
<1>1. TypeOK /\ At(p, "cancel", "GetOrder") /\ UNCHANGED <<req, orders, returned>>
  BY DEF Typed, CancelGetOrder, Refuse, store, history
<1>2. Back(p, r) = 0 /\ \A o \in Requests : Cancelled(o)' <=> Cancelled(o)
  BY <1>1 DEF At, Back, Cancelled
<1>3. ASSUME NEW code \in {403, 404, 409}, Return(p, code)
      PROVE  Brings(p, r) /\ Ended(p)'
  <2>1. Back(p, r)' = 0 /\ Ended(p)' /\ ~Answered(p, "cancel", 204)' /\ ~Answered(p, "cancel", 500)'
    BY <1>1, <1>3, ReturnBack DEF At
  <2> QED
    BY <1>1, <1>2, <2>1, BringsNothing
<1>4. CASE Goto(p, "GetRecord") /\ UNCHANGED idx
  <2>1. idx[p] = 1
    BY <1>1 DEF At, Typed, ControlOK, Control
  <2>2. pc'[p] = "GetRecord" /\ idx'[p] - 1 = 0
    BY <1>1, <1>4, <2>1 DEF Goto, TypeOK
  <2>3. Back(p, r)' = 0 /\ Ended(p)'
    BY <2>2, UpToNone DEF Back, Ended
  <2>4. resp'[p] = 0
    BY <2>2 DEF Typed, ControlOK, Control
  <2> QED
    BY <1>1, <1>2, <2>3, <2>4, BringsNothing DEF Answered
<1> QED
  BY <1>3, <1>4 DEF CancelGetOrder, Refuse

\* Reading the record of a line brings nothing back, and skips no line.
LEMMA ReadsBring ==
    ASSUME ShopSound, Typed', NEW p \in Requests, CancelGetRecord(p), NEW r \in Records
    PROVE  Brings(p, r) /\ Ended(p)'
<1>1. Typed /\ TypeOK /\ At(p, "cancel", "GetRecord") /\ UNCHANGED req
  BY DEF ShopSound, Typed, CancelGetRecord
<1>2. \E doc : Hold(p, doc, "SaveRecord") /\ UNCHANGED <<idx, returned>>
  BY NoneSkipped DEF CancelGetRecord, Restorable
<1>3. pc'[p] = "SaveRecord" /\ UNCHANGED <<orders, ord, idx, returned>>
  BY <1>1, <1>2 DEF Hold, Goto, TypeOK, store
<1>4. Ended(p)' /\ resp'[p] = 0
  BY <1>3 DEF Ended, Typed, ControlOK, Control
<1>5. Back(p, r)' = Back(p, r)
  BY <1>1, <1>3 DEF Back, At, Serves, Serving, Calls
<1>6. Back(p, r) = Back(p, r) + 0 /\ returned'[r] = returned[r] + 0
  <2>1. Serves(p, "cancel") /\ pc[p] = "GetRecord"
    BY <1>1 DEF At, Serves, Serving, Calls
  <2>2. ord[p].items \in Seq(OrderItem) /\ Len(ord[p].items) \in Nat
    BY <1>1, <2>1, RestoringOrder DEF ShopSound
  <2>3. idx[p] \in 1..Len(ord[p].items)
    BY <1>1, <2>1 DEF Typed, ControlOK, Control
  <2>4. PICK n \in 0..Len(ord[p].items) : n = idx[p] - 1
    BY <2>2, <2>3
  <2>5. Back(p, r) \in Nat
    BY <2>1, <2>2, <2>4, UpToSome DEF Back
  <2>6. returned[r] \in Nat
    BY <1>1 DEF TypeOK
  <2> QED
    BY <1>3, <2>5, <2>6
<1>7. GoesOn(p, r, 0)
  BY <1>3, <1>4, <1>5, <1>6 DEF GoesOn, CancelsAnswered, Answered, Cancelled
<1> QED
  BY <1>4, <1>6, <1>7 DEF Brings

\* A SaveRecord brings back the units of its line, also when its answer is lost.
LEMMA SavesBring ==
    ASSUME ShopSound, LoopsEnd, Typed', NEW p \in Requests, CancelSaveRecord(p), NEW r \in Records
    PROVE  Brings(p, r) /\ Ended(p)'
<1> DEFINE items == ord[p].items
<1> DEFINE d == UnitsOf(Ordered(p), r)
<1>1. Typed /\ TypeOK /\ OrdersOK /\ At(p, "cancel", "SaveRecord") /\ UNCHANGED <<req, orders>>
  BY DEF ShopSound, Typed, CancelSaveRecord
<1>2. Serves(p, "cancel") /\ pc[p] = "SaveRecord" /\ req[p].op = "cancel"
  BY <1>1 DEF At, Serves, Serving, Calls
<1>3. items \in Seq(OrderItem) /\ Len(items) \in Nat /\ OfOrder(p, r) = Units(items, r)
  BY <1>1, <1>2, RestoringOrder
<1>4. idx[p] \in 1..Len(items) /\ Ordered(p) \in OrderItem
  BY <1>1, Cancelling DEF Calls
<1>5. PICK n \in 1..Len(items) : n = idx[p]
  BY <1>4
<1>6. /\ UpTo(items, n, r) = UpTo(items, n - 1, r) + d
      /\ UpTo(items, n - 1, r) \in Nat /\ d \in Nat
  BY <1>3, <1>5, UpToLine DEF Ordered
<1>7. UpTo(items, n, r) <= Units(items, r)
  <2>1. n \in 0..Len(items)
    BY <1>3, <1>5
  <2> QED
    BY <1>3, <2>1, UpToSome
<1>8. Back(p, r) = UpTo(items, n - 1, r)
  BY <1>2, <1>5 DEF Back
<1>9. returned'[r] = returned[r] + d
  <2>1. returned' = Gain(returned, Ordered(p).id, Ordered(p).qty) /\ Ordered(p).id \in Records
    BY <1>4 DEF CancelSaveRecord, OrderItem
  <2>2. Ordered(p).qty \in Nat
    BY <1>4, StockRange DEF OrderItem
  <2> QED
    BY <1>1, <2>1, <2>2 DEF Gain, UnitsOf, TypeOK
<1>10. CASE Return(p, 500)
  <2>1. Back(p, r)' = 0 /\ Ended(p)' /\ Answered(p, "cancel", 500)'
    BY <1>1, <1>2, <1>10, ReturnBack
  <2>2. Back(p, r) + d <= OfOrder(p, r)
    BY <1>3, <1>6, <1>7, <1>8
  <2>3. Fails(p, r, d)
    BY <2>1, <2>2 DEF Fails
  <2> QED
    BY <1>6, <1>9, <2>1, <2>3 DEF Brings
<1>11. CASE /\ idx' = [idx EXCEPT ![p] = @ + 1]
            /\ Goto(p, NextLine(p, Len(items), "SaveOrder"))
            /\ UNCHANGED <<rec, ord, resp>>
  <2>1. idx'[p] = n + 1 /\ \/ pc'[p] = "SaveOrder" /\ n = Len(items)
                           \/ pc'[p] = "GetRecord"
    BY <1>1, <1>3, <1>4, <1>5, <1>11, NextLineCases DEF Goto, TypeOK
  <2>2. Ended(p)' /\ resp'[p] = 0
    BY <1>11, <2>1 DEF Ended, Typed, ControlOK, Control
  <2>3. Back(p, r)' = UpTo(items, n, r)
    <3>1. idx'[p] - 1 = n /\ Serves(p, "cancel")' /\ pc'[p] # "GetOrder"
      BY <1>1, <1>2, <1>3, <2>1 DEF Serves, Serving, Calls
    <3> QED
      BY <1>11, <3>1 DEF Back
  <2>4. Back(p, r)' = Back(p, r) + d
    BY <1>6, <1>8, <2>3
  <2>5. GoesOn(p, r, d)
    BY <1>1, <2>2, <2>4 DEF GoesOn, CancelsAnswered, Answered, Cancelled
  <2> QED
    BY <1>6, <1>9, <2>2, <2>5 DEF Brings
<1> QED
  BY <1>10, <1>11 DEF CancelSaveRecord

\* When the order is saved as cancelled, all its lines have been brought back.
LEMMA SaveOrderBrings ==
    ASSUME ShopSound, LoopsEnd, Typed', NEW p \in Requests, CancelSaveOrder(p), NEW r \in Records
    PROVE  Brings(p, r) /\ Ended(p)'
<1> DEFINE items == ord[p].items
<1>1. Typed /\ TypeOK /\ OrdersOK /\ At(p, "cancel", "SaveOrder") /\ UNCHANGED <<req, returned>>
  BY DEF ShopSound, Typed, CancelSaveOrder, history
<1>2. Serves(p, "cancel") /\ pc[p] = "SaveOrder" /\ req[p].op = "cancel"
  BY <1>1 DEF At, Serves, Serving, Calls
<1>3. CASE Return(p, 500)
  BY <1>1, <1>2, <1>3, CancelFails
<1>4. CASE Return(p, 204)
  <2>1. items \in Seq(OrderItem) /\ Len(items) \in Nat /\ OfOrder(p, r) = Units(items, r)
    BY <1>1, <1>2, RestoringOrder
  <2>2. idx[p] - 1 = Len(items)
    BY <1>2, <2>1 DEF LoopsEnd, Ended
  <2>3. Back(p, r) = OfOrder(p, r)
    BY <1>2, <2>1, <2>2, UpToAll DEF Back
  <2>4. Back(p, r)' = 0 /\ Ended(p)' /\ returned'[r] = returned[r] + 0
    BY <1>1, <1>2, <1>4, ReturnBack DEF TypeOK
  <2>5. Succeeds(p, r, 0)
    BY <1>4, <2>3, <2>4 DEF Succeeds
  <2> QED
    BY <2>4, <2>5 DEF Brings
<1> QED
  BY <1>3, <1>4, WrittenReturns DEF CancelSaveOrder

\* There are no other steps.
LEMMA StepBrings ==
    ASSUME ShopSound, LoopsEnd, Typed', NEW p \in Requests, Accept(p) \/ Serve(p), NEW r \in Records
    PROVE  Brings(p, r) /\ Ended(p)'
<1>1. Typed /\ OrdersOK
  BY DEF ShopSound
<1>2. CASE Accept(p) \/ (Serve(p) /\ req[p].op # "cancel")
  BY <1>1, <1>2, OthersBring
<1>3. CASE Cancel(p)
  BY <1>1, <1>3, ChecksBring, ReadsBring, SavesBring, SaveOrderBrings DEF Cancel
<1>4. CASE StoreError(p) /\ req[p].op = "cancel"
  BY <1>1, <1>4, CancelFails DEF StoreError, Refuse, history
<1>5. CASE Serve(p) /\ req[p].op = "cancel" /\ ~Cancel(p)
  BY <1>4, <1>5 DEF Serve, Create, CreateGetRecord, CreateDecrementStock, CreateSaveOrder, At,
         Restock, RestockGetRecord, RestockSaveRecord, Update, UpdateGetRecord, UpdateSaveRecord,
         Archive, ArchiveGetRecord, ArchiveSaveRecord, AddSaveRecord
<1> QED
  BY <1>2, <1>3, <1>5

\* The others bring nothing.
LEMMA OthersBack ==
    ASSUME NEW p \in Requests, OnlyMoves(p), NEW q \in Requests \ {p}, NEW r
    PROVE  /\ Back(q, r)' = Back(q, r) /\ (Ended(q) => Ended(q)')
           /\ \A code : Answered(q, "cancel", code)' <=> Answered(q, "cancel", code)
<1>1. pc'[q] = pc[q] /\ req'[q] = req[q] /\ ord'[q] = ord[q] /\ idx'[q] = idx[q] /\ resp'[q] = resp[q]
  BY DEF OnlyMoves
<1> QED
  BY <1>1 DEF Back, Ended, Answered, Serves, Serving

-----------------------------------------------------------------------------
(* What every attempt at a cancellation brings back *)

\* What the cancellation p has brought back for certain, and at most.
Least(p, r) == IF Answered(p, "cancel", 204) THEN OfOrder(p, r) ELSE Back(p, r)
Most(p, r) == IF Answered(p, "cancel", 500) THEN OfOrder(p, r) ELSE Least(p, r)

AllLeast(r) == SumFunctionOnSet([p \in Requests |-> Least(p, r)], Requests)
AllMost(r) == SumFunctionOnSet([p \in Requests |-> Most(p, r)], Requests)
Accounted == \A r \in Records : AllLeast(r) <= returned[r] /\ returned[r] <= AllMost(r)
AttemptsOK == ShopSound /\ LoopsEnd /\ Accounted

\* They are numbers, also in the next state.
Numbers == \A p \in Requests, r \in Records :
    /\ Back(p, r) \in Nat /\ Least(p, r) \in Nat /\ Most(p, r) \in Nat /\ OfOrder(p, r) \in Nat
    /\ Back(p, r) <= OfOrder(p, r) /\ Most(p, r) <= OfOrder(p, r)
LEMMA AttemptNumbers == ShopSound /\ LoopsEnd => Numbers
  BY BackBounds DEF ShopSound, Numbers, Least, Most
LEMMA AttemptNumbersNext == ShopSound' /\ LoopsEnd' => Numbers'
  BY AttemptNumbers, PTL

\* A sum whose terms do not fall but at one member.
LEMMA SumShift ==
    ASSUME NEW f, NEW h, NEW S, IsFiniteSet(S), NEW x \in S,
           \A y \in S : f[y] \in Nat /\ h[y] \in Nat, \A y \in S \ {x} : f[y] <= h[y]
    PROVE  SumFunctionOnSet(f, S) + h[x] <= SumFunctionOnSet(h, S) + f[x]
<1>1. IsFiniteSet(S \ {x})
  BY FS_Subset
<1>2. /\ SumFunctionOnSet(f, S) = f[x] + SumFunctionOnSet(f, S \ {x})
      /\ SumFunctionOnSet(h, S) = h[x] + SumFunctionOnSet(h, S \ {x})
  BY SumRemove
<1>3. SumFunctionOnSet(f, S \ {x}) <= SumFunctionOnSet(h, S \ {x})
  BY <1>1, SumAtMost
<1>4. SumFunctionOnSet(f, S \ {x}) \in Nat /\ SumFunctionOnSet(h, S \ {x}) \in Nat
  BY <1>1, SumNat
<1> QED
  BY <1>2, <1>3, <1>4

\* A stored order keeps its units; one that is stored now had none before.
LEMMA OrderKept ==
    ASSUME Typed, Frozen, NEW p \in Requests, req[p] # NoRequest => req'[p] = req[p], NEW r \in Records, Numbers, Numbers'
    PROVE  /\ OfOrder(p, r) <= OfOrder(p, r)'
           /\ req[p] # NoRequest /\ req[p].op = "cancel" /\ orders[req[p].order] # NoOrder => OfOrder(p, r)' = OfOrder(p, r)
<1>1. OfOrder(p, r) \in Nat /\ OfOrder(p, r)' \in Nat
  BY DEF Numbers
<1>2. CASE req[p] # NoRequest /\ req[p].op = "cancel" /\ orders[req[p].order] # NoOrder
  <2>1. req[p].order \in Requests
    BY <1>2, RequestFields DEF Typed, TypeOK, CancelRequest
  <2>2. orders'[req[p].order].items = orders[req[p].order].items /\ orders'[req[p].order] # NoOrder
    BY <1>2, <2>1, FrozenFields DEF Frozen
  <2>3. OfOrder(p, r)' = OfOrder(p, r)
    BY <1>2, <2>2 DEF OfOrder
  <2> QED
    BY <1>1, <2>3
<1>3. CASE ~(req[p] # NoRequest /\ req[p].op = "cancel" /\ orders[req[p].order] # NoOrder)
  <2>1. OfOrder(p, r) = 0
    BY <1>3 DEF OfOrder
  <2> QED
    BY <1>1, <1>3, <2>1
<1> QED
  BY <1>2, <1>3

\* A handler that has a step to make has not answered.
LEMMA NotAnswered ==
    ASSUME Typed, Typed', NEW p \in Requests, Accept(p) \/ Serve(p)
    PROVE  \A code \in Codes : ~Answered(p, "cancel", code)
<1>1. pc[p] # "done"
  BY ServeServes DEF Accept, OneServes, Calls
<1>2. resp[p] = 0
  BY <1>1 DEF Typed, ControlOK, Control
<1> QED
  BY <1>2 DEF Answered, Codes

\* The account of the cancellation that makes the step ...
LEMMA OwnAccount ==
    ASSUME ShopSound, LoopsEnd, Typed', Frozen, Numbers, Numbers',
           NEW p \in Requests, OnlyMoves(p), Accept(p) \/ Serve(p), NEW r \in Records
    PROVE  \E d \in Nat : /\ returned'[r] = returned[r] + d
                          /\ Least(p, r)' <= Least(p, r) + d
                          /\ Most(p, r) + d <= Most(p, r)'
<1>1. Typed /\ OrdersOK /\ TypeOK
  BY DEF ShopSound, Typed
<1>2. ~Answered(p, "cancel", 204) /\ ~Answered(p, "cancel", 500)
  BY <1>1, NotAnswered DEF Codes
<1>3. Least(p, r) = Back(p, r) /\ Most(p, r) = Back(p, r)
  BY <1>2 DEF Least, Most
<1>4. PICK d \in Nat : /\ returned'[r] = returned[r] + d
                       /\ GoesOn(p, r, d) \/ Fails(p, r, d) \/ Succeeds(p, r, d)
  BY StepBrings DEF Brings
<1>5. /\ Back(p, r) \in Nat /\ OfOrder(p, r) \in Nat /\ OfOrder(p, r)' \in Nat
      /\ OfOrder(p, r) <= OfOrder(p, r)'
  BY <1>1, OrderKept DEF Numbers, OnlyMoves
<1>6. CASE GoesOn(p, r, d)
  <2>1. Least(p, r)' = Back(p, r)' /\ Most(p, r)' = Back(p, r)'
    BY <1>6 DEF GoesOn, CancelsAnswered, Least, Most
  <2> QED
    BY <1>3, <1>4, <1>5, <1>6, <2>1 DEF GoesOn
<1>7. CASE Fails(p, r, d)
  <2>1. Least(p, r)' = Back(p, r)' /\ Most(p, r)' = OfOrder(p, r)'
    BY <1>7 DEF Fails, Answered, Least, Most
  <2> QED
    BY <1>3, <1>4, <1>5, <1>7, <2>1 DEF Fails
<1>8. CASE Succeeds(p, r, d)
  <2>1. Answered(p, "cancel", 204)' /\ ~Answered(p, "cancel", 500)' /\ Serves(p, "cancel") /\ pc[p] # "GetOrder"
    BY <1>1, <1>8 DEF Succeeds, CancelSaveOrder, At, Serves, Serving, Calls, Answered, Return, TypeOK
  <2>2. Least(p, r)' = OfOrder(p, r)' /\ Most(p, r)' = OfOrder(p, r)'
    BY <2>1 DEF Least, Most
  <2>3. OfOrder(p, r)' = OfOrder(p, r)
    <3>1. orders[req[p].order] # NoOrder
      BY <1>1, <2>1, RestoringOrder
    <3>2. req[p] # NoRequest /\ req[p].op = "cancel"
      BY <1>1, <2>1 DEF Serves, Serving, Typed, ControlOK, Control, Calls
    <3> QED
      BY <1>1, <3>1, <3>2, OrderKept DEF OnlyMoves
  <2> QED
    BY <1>3, <1>4, <1>5, <1>8, <2>2, <2>3 DEF Succeeds
<1> QED
  BY <1>4, <1>6, <1>7, <1>8

\* ... and those of the others.
LEMMA OthersAccount ==
    ASSUME ShopSound, Typed', Frozen, Numbers, Numbers', NEW p \in Requests, OnlyMoves(p),
           NEW q \in Requests \ {p}, NEW r \in Records
    PROVE  Least(q, r)' <= Least(q, r) /\ Most(q, r) <= Most(q, r)'
<1>1. Typed /\ OrdersOK
  BY DEF ShopSound
<1>2. /\ Back(q, r)' = Back(q, r)
      /\ Answered(q, "cancel", 204)' <=> Answered(q, "cancel", 204)
      /\ Answered(q, "cancel", 500)' <=> Answered(q, "cancel", 500)
  BY OthersBack
<1>3. /\ Back(q, r) \in Nat /\ OfOrder(q, r) \in Nat /\ OfOrder(q, r)' \in Nat
      /\ OfOrder(q, r) <= OfOrder(q, r)'
  BY <1>1, OrderKept DEF Numbers, OnlyMoves
<1>4. CASE Answered(q, "cancel", 204)
  <2>1. Cancelled(req[q].order) /\ req[q] # NoRequest /\ req[q].op = "cancel"
    <3>1. pc[q] # "idle"
      BY <1>1, <1>4 DEF Answered, Typed, ControlOK, Control
    <3> QED
      BY <1>1, <1>4, <3>1 DEF OrdersOK, Promise, Answered, Typed, ControlOK, Control
  <2>2. OfOrder(q, r)' = OfOrder(q, r)
    BY <1>1, <2>1, OrderKept DEF OnlyMoves, Cancelled
  <2>3. ~Answered(q, "cancel", 500)
    BY <1>4 DEF Answered
  <2> QED
    BY <1>2, <1>3, <1>4, <2>2, <2>3 DEF Least, Most
<1>5. CASE ~Answered(q, "cancel", 204)
  BY <1>2, <1>3, <1>5 DEF Least, Most
<1> QED
  BY <1>4, <1>5

\* Every step keeps the account.
LEMMA AccountedStep ==
    ASSUME AttemptsOK, ShopSound', LoopsEnd', Frozen, NEW p \in Requests, OnlyMoves(p), Accept(p) \/ Serve(p)
    PROVE  Accounted'
<1> SUFFICES ASSUME NEW r \in Records PROVE AllLeast(r)' <= returned'[r] /\ returned'[r] <= AllMost(r)'
  BY DEF Accounted
<1> DEFINE f == [q \in Requests |-> Least(q, r)]
<1> DEFINE g == [q \in Requests |-> Least(q, r)']
<1> DEFINE h == [q \in Requests |-> Most(q, r)]
<1> DEFINE k == [q \in Requests |-> Most(q, r)']
<1>1. ShopSound /\ LoopsEnd /\ Typed' /\ Numbers /\ Numbers' /\ returned[r] \in Nat
  BY AttemptNumbers, AttemptNumbersNext DEF AttemptsOK, ShopSound, Typed, TypeOK
<1>2. PICK d \in Nat : /\ returned'[r] = returned[r] + d
                       /\ g[p] <= f[p] + d
                       /\ h[p] + d <= k[p]
  BY <1>1, OwnAccount
<1>3. \A q \in Requests \ {p} : g[q] <= f[q] /\ h[q] <= k[q]
  BY <1>1, OthersAccount
<1>4. \A q \in Requests : f[q] \in Nat /\ g[q] \in Nat /\ h[q] \in Nat /\ k[q] \in Nat
  BY <1>1 DEF Numbers
<1>5. /\ AllLeast(r) = SumFunctionOnSet(f, Requests) /\ AllLeast(r)' = SumFunctionOnSet(g, Requests)
      /\ AllMost(r) = SumFunctionOnSet(h, Requests) /\ AllMost(r)' = SumFunctionOnSet(k, Requests)
  BY DEF AllLeast, AllMost
<1>6. AllLeast(r) <= returned[r] /\ returned[r] <= AllMost(r)
  BY DEF AttemptsOK, Accounted
<1> HIDE DEF f, g, h, k
<1>7. /\ SumFunctionOnSet(f, Requests) \in Nat /\ SumFunctionOnSet(g, Requests) \in Nat
      /\ SumFunctionOnSet(h, Requests) \in Nat /\ SumFunctionOnSet(k, Requests) \in Nat
  BY <1>4, FiniteAssumption, SumNat
<1>8. SumFunctionOnSet(g, Requests) + f[p] <= SumFunctionOnSet(f, Requests) + g[p]
  BY <1>3, <1>4, FiniteAssumption, SumShift
<1>9. SumFunctionOnSet(h, Requests) + k[p] <= SumFunctionOnSet(k, Requests) + h[p]
  BY <1>3, <1>4, FiniteAssumption, SumShift
<1>10. f[p] \in Nat /\ g[p] \in Nat /\ h[p] \in Nat /\ k[p] \in Nat
  BY <1>4
<1>11. AllLeast(r)' <= returned'[r]
  BY <1>1, <1>2, <1>5, <1>6, <1>7, <1>8, <1>10
<1>12. returned'[r] <= AllMost(r)'
  BY <1>1, <1>2, <1>5, <1>6, <1>7, <1>9, <1>10
<1> QED
  BY <1>11, <1>12

\* What holds of the orders and carts holds after every step.
LEMMA SoundStep == ShopSound /\ [Next]_vars => ShopSound' /\ Frozen
<1> SUFFICES ASSUME ShopSound, [Next]_vars PROVE ShopSound' /\ Frozen
  OBVIOUS
<1>1. Typed' /\ OrdersOK' /\ Frozen
  BY TypedStep, OrdersStep DEF ShopSound
<1>2. CASE UNCHANGED vars
  BY <1>1, <1>2 DEF ShopSound, Existing, Exists, Serves, Serving, vars, store, locals
<1>3. ASSUME NEW p \in Requests, Accept(p) \/ Serve(p) PROVE ShopSound'
  BY <1>1, <1>3, ExistingStep DEF ShopSound
<1> QED
  BY <1>1, <1>2, <1>3 DEF Next

\* So does that the loops end behind the last line.
LEMMA LoopsEndStep ==
    ASSUME ShopSound, ShopSound', LoopsEnd, NEW p \in Requests, Accept(p) \/ Serve(p)
    PROVE  LoopsEnd' /\ OnlyMoves(p)
<1>1. Typed /\ OrdersOK /\ Typed' /\ OnlyMoves(p)
  BY StepMoves DEF ShopSound
<1>2. Ended(p)'
  <2> SUFFICES ASSUME Serves(p, "cancel")', pc'[p] = "SaveOrder" PROVE Ended(p)'
    BY DEF Ended
  <2>1. ord'[p] \in Order /\ ord'[p].items # << >>
    BY <1>1 DEF Typed, ControlOK, Control
  <2>2. ord'[p].items \in Seq(OrderItem)
    BY <2>1 DEF Order
  <2>3. ord'[p].items[1] \in OrderItem
    BY <2>1, <2>2, NonEmptySeq, ElementOfSeq
  <2>4. ord'[p].items[1].id \in Records
    BY <2>3 DEF OrderItem
  <2> QED
    BY <1>1, <2>4, StepBrings
<1>3. \A q \in Requests \ {p} : Ended(q)'
  BY <1>1, OthersBack DEF LoopsEnd
<1> QED
  BY <1>1, <1>2, <1>3 DEF LoopsEnd

\* When the shop opens nothing has come back.
LEMMA AttemptsInit == Init => AttemptsOK
<1> SUFFICES ASSUME Init PROVE AttemptsOK
  OBVIOUS
<1>1. ShopSound
  <2>1. Existing
    BY DEF Init, Existing, Serves, Serving, Calls
  <2> QED
    BY <2>1, TypedInit, OrdersInit DEF ShopSound
<1>2. LoopsEnd
  BY DEF Init, LoopsEnd, Ended, Serves, Serving, Calls
<1>3. ASSUME NEW r \in Records PROVE AllLeast(r) = 0 /\ AllMost(r) = 0 /\ returned[r] = 0
  <2>1. \A p \in Requests : Least(p, r) = 0 /\ Most(p, r) = 0
    BY DEF Init, Least, Most, Answered, Back, Serves, Serving, Calls
  <2> DEFINE f == [p \in Requests |-> Least(p, r)]
  <2> DEFINE h == [p \in Requests |-> Most(p, r)]
  <2>2. \A p \in Requests : f[p] = 0 /\ h[p] = 0
    BY <2>1
  <2>3. AllLeast(r) = SumFunctionOnSet(f, Requests) /\ AllMost(r) = SumFunctionOnSet(h, Requests)
    BY DEF AllLeast, AllMost
  <2> HIDE DEF f, h
  <2>4. AllLeast(r) = 0 /\ AllMost(r) = 0
    BY <2>2, <2>3, FiniteAssumption, SumZero
  <2> QED
    BY <2>4 DEF Init
<1> QED
  BY <1>1, <1>2, <1>3 DEF AttemptsOK, Accounted

\* Every step keeps the invariant.
LEMMA AttemptsStep == AttemptsOK /\ [Next]_vars => AttemptsOK'
<1> SUFFICES ASSUME AttemptsOK, [Next]_vars PROVE AttemptsOK'
  OBVIOUS
<1>1. ShopSound /\ LoopsEnd /\ Accounted /\ ShopSound' /\ Frozen
  BY SoundStep DEF AttemptsOK
<1>2. CASE UNCHANGED vars
  <2>1. LoopsEnd'
    BY <1>1, <1>2 DEF LoopsEnd, Ended, Serves, Serving, vars, locals
  <2>2. \A p, r : Least(p, r)' = Least(p, r) /\ Most(p, r)' = Most(p, r)
    BY <1>2 DEF Least, Most, Answered, Back, OfOrder, Serves, Serving, vars, store, locals
  <2>3. Accounted'
    BY <1>1, <1>2, <2>2 DEF Accounted, AllLeast, AllMost, vars, history
  <2> QED
    BY <1>1, <2>1, <2>3 DEF AttemptsOK
<1>3. ASSUME NEW p \in Requests, Accept(p) \/ Serve(p) PROVE AttemptsOK'
  <2>1. LoopsEnd' /\ OnlyMoves(p)
    BY <1>1, <1>3, LoopsEndStep
  <2> QED
    BY <1>1, <1>3, <2>1, AccountedStep DEF AttemptsOK
<1> QED
  BY <1>2, <1>3 DEF Next

\* The invariant of the attempts holds in every reachable state.
LEMMA AttemptsAlways == Spec => []AttemptsOK
  BY AttemptsInit, AttemptsStep, PTL DEF Spec

\* The claims of cancellations are the units of the orders they name.
LEMMA ClaimsOfOrders ==
    ASSUME NEW P, P \subseteq Requests, \A p \in P : req[p] # NoRequest /\ req[p].op = "cancel", NEW r
    PROVE  Claims(P, r) = SumFunctionOnSet([p \in Requests |-> OfOrder(p, r)], {p \in P : orders[req[p].order] # NoOrder})
<1> DEFINE S == {p \in P : orders[req[p].order] # NoOrder}
<1> DEFINE c == [p \in S |-> Units(orders[req[p].order].items, r)]
<1> DEFINE u == [p \in Requests |-> OfOrder(p, r)]
<1>1. IsFiniteSet(S)
  BY FiniteAssumption, FS_Subset
<1>2. \A p \in S : c[p] = u[p]
  BY DEF OfOrder
<1>3. Claims(P, r) = SumFunction(c) /\ DOMAIN c = S
  BY DEF Claims
<1> HIDE DEF c, u
<1>4. SumFunctionOnSet(c, S) = SumFunctionOnSet(u, S)
  BY <1>1, <1>2, SumSame
<1> QED
  BY <1>3, <1>4 DEF SumFunction, u

\* A 204 of a cancellation means that every unit of its order went back on the
\* shelf, line by line; and what came back are at most the units of the
\* orders the attempts name, once for each, also of those that failed.
THEOREM ReturnedByAttemptsAlways == Spec => []ReturnedByAttempts
<1>1. AttemptsOK => ReturnedByAttempts
  <2> SUFFICES ASSUME AttemptsOK, NEW r \in Records
               PROVE  /\ Claims(CancelsAnswered(204), r) <= returned[r]
                      /\ returned[r] <= Claims(CancelsAnswered(204) \union CancelsAnswered(500) \union Restoring, r)
    BY DEF ReturnedByAttempts
  <2> DEFINE P == CancelsAnswered(204)
  <2> DEFINE Q == CancelsAnswered(204) \union CancelsAnswered(500) \union Restoring
  <2> DEFINE A == {p \in P : orders[req[p].order] # NoOrder}
  <2> DEFINE B == {p \in Q : orders[req[p].order] # NoOrder}
  <2> DEFINE f == [p \in Requests |-> Least(p, r)]
  <2> DEFINE h == [p \in Requests |-> Most(p, r)]
  <2> DEFINE u == [p \in Requests |-> OfOrder(p, r)]
  <2>1. Typed /\ OrdersOK /\ Numbers /\ Accounted
    BY AttemptNumbers DEF AttemptsOK, ShopSound
  <2>2. P \subseteq Requests /\ Q \subseteq Requests
    BY DEF CancelsAnswered, Restoring
  <2>3. ASSUME NEW p \in Q PROVE req[p] # NoRequest /\ req[p].op = "cancel"
    <3>1. CASE p \in Restoring
      BY <3>1 DEF Restoring, At
    <3>2. CASE Answered(p, "cancel", 204) \/ Answered(p, "cancel", 500)
      <4>1. pc[p] # "idle"
        BY <2>1, <2>2, <2>3, <3>2 DEF Answered, Typed, ControlOK, Control
      <4> QED
        BY <2>1, <2>2, <2>3, <3>2, <4>1 DEF Answered, Typed, ControlOK, Control
    <3> QED
      BY <2>3, <3>1, <3>2 DEF CancelsAnswered
  <2>4. Claims(P, r) = SumFunctionOnSet(u, A) /\ Claims(Q, r) = SumFunctionOnSet(u, B)
    <3>1. \A p \in P : req[p] # NoRequest /\ req[p].op = "cancel"
      BY <2>3
    <3> HIDE DEF P, Q
    <3> QED
      BY <2>2, <2>3, <3>1, ClaimsOfOrders
  <2>5. \A p \in A : u[p] = f[p]
    BY <2>2 DEF Least, CancelsAnswered
  <2>6. \A p \in Requests : f[p] \in Nat /\ h[p] \in Nat /\ u[p] \in Nat /\ h[p] <= u[p]
    BY <2>1 DEF Numbers
  <2>7. \A p \in Requests \ B : h[p] = 0
    <3> TAKE p \in Requests \ B
    <3>1. CASE OfOrder(p, r) = 0
      BY <2>6, <3>1
    <3>2. CASE OfOrder(p, r) # 0
      <4>1. req[p] # NoRequest /\ req[p].op = "cancel" /\ orders[req[p].order] # NoOrder
        BY <3>2 DEF OfOrder
      <4>2. p \notin Q
        BY <4>1
      <4>3. ~Answered(p, "cancel", 204) /\ ~Answered(p, "cancel", 500) /\ p \notin Restoring
        BY <4>2 DEF CancelsAnswered
      <4>4. Back(p, r) = 0
        BY <2>1, <4>1, <4>3 DEF Restoring, At, Back, Serves, Serving, Calls, Typed, ControlOK, Control, CallsOf
      <4> QED
        BY <4>3, <4>4 DEF Most, Least
    <3> QED
      BY <3>1, <3>2
  <2>8. A \subseteq Requests /\ B \subseteq Requests /\ IsFiniteSet(A) /\ IsFiniteSet(B)
    BY <2>2, FiniteAssumption, FS_Subset
  <2>9. SumFunctionOnSet(f, Requests) <= returned[r] /\ returned[r] <= SumFunctionOnSet(h, Requests)
    BY <2>1 DEF Accounted, AllLeast, AllMost
  <2>10. returned[r] \in Nat
    BY <2>1 DEF Typed, TypeOK
  <2> HIDE DEF A, B, f, h, u
  <2>11. IsFiniteSet(Requests \ A) /\ IsFiniteSet(Requests \ B)
    BY FiniteAssumption, FS_Subset
  <2>12. SumFunctionOnSet(u, A) <= SumFunctionOnSet(f, Requests)
    <3>1. SumFunctionOnSet(u, A) = SumFunctionOnSet(f, A)
      BY <2>5, <2>8, SumSame
    <3>2. SumFunctionOnSet(f, Requests) = SumFunctionOnSet(f, A) + SumFunctionOnSet(f, Requests \ A)
      BY <2>6, <2>8, FiniteAssumption, SumSplit
    <3>3. SumFunctionOnSet(f, A) \in Nat /\ SumFunctionOnSet(f, Requests \ A) \in Nat
      BY <2>6, <2>8, <2>11, SumNat
    <3> QED
      BY <3>1, <3>2, <3>3
  <2>13. SumFunctionOnSet(h, Requests) <= SumFunctionOnSet(u, B)
    <3>1. SumFunctionOnSet(h, Requests) = SumFunctionOnSet(h, B) + SumFunctionOnSet(h, Requests \ B)
      BY <2>6, <2>8, FiniteAssumption, SumSplit
    <3>2. SumFunctionOnSet(h, Requests \ B) = 0
      BY <2>7, <2>11, SumZero
    <3>3. SumFunctionOnSet(h, B) \in Nat /\ SumFunctionOnSet(h, B) <= SumFunctionOnSet(u, B)
      BY <2>6, <2>8, SumNat, SumAtMost
    <3> QED
      BY <3>1, <3>2, <3>3
  <2>14. /\ SumFunctionOnSet(u, A) \in Nat /\ SumFunctionOnSet(u, B) \in Nat
         /\ SumFunctionOnSet(f, Requests) \in Nat /\ SumFunctionOnSet(h, Requests) \in Nat
    BY <2>6, <2>8, FiniteAssumption, SumNat
  <2> QED
    BY <2>4, <2>9, <2>10, <2>12, <2>13, <2>14
<1> QED
  BY <1>1, AttemptsAlways, PTL

-----------------------------------------------------------------------------
(* What cancellations without a rival bring back *)

AllBack(r) == SumFunctionOnSet([p \in Requests |-> Back(p, r)], Requests)

\* As long as no cancellation had a rival or failed, an order that is being
\* cancelled is pending, and what came back are the units of the cancelled
\* orders and of the lines so far of those that are being cancelled.
Halfway(p) == p \in Restoring => Pending(req[p].order)
Settled == /\ \A p \in Requests : Halfway(p)
           /\ \A r \in Records : returned[r] = Refunds(r) + AllBack(r)
RefundsOK == ShopSound /\ LoopsEnd /\ (Contest => contested) /\ (~contested => Settled)

\* The cancelled orders have a number of units.
LEMMA RefundsNat == ASSUME Typed, OrdersOK, NEW r PROVE Refunds(r) \in Nat
  BY HeldIsBooked

\* Refunds count the cancelled orders only.
LEMMA RefundsSame ==
    ASSUME \A o \in Requests : Cancelled(o)' <=> Cancelled(o),
           \A o \in Requests : Cancelled(o) => orders'[o].items = orders[o].items, NEW r
    PROVE  Refunds(r)' = Refunds(r)
<1> DEFINE S == {o \in Requests : Cancelled(o)}
<1> DEFINE f == [o \in S |-> Units(orders[o].items, r)]
<1> DEFINE g == [o \in S |-> Units(orders'[o].items, r)]
<1>1. {o \in Requests : Cancelled(o)'} = S
  OBVIOUS
<1>2. f = g
  OBVIOUS
<1>3. Refunds(r) = SumFunction(f)
  BY DEF Refunds
<1>4. Refunds(r)' = SumFunction(g)
  BY <1>1 DEF Refunds
<1> QED
  BY <1>2, <1>3, <1>4

\* A cancelled order adds its units.
LEMMA RefundsMore ==
    ASSUME Typed, Typed', Frozen, NEW o \in Requests, Pending(o), Cancelled(o)',
           \A s \in Requests \ {o} : orders'[s] = orders[s], NEW r
    PROVE  Refunds(r)' = Refunds(r) + Units(orders[o].items, r) /\ Refunds(r) \in Nat
<1> DEFINE S == {s \in Requests : Cancelled(s)}
<1> DEFINE T == {s \in Requests : Cancelled(s)'}
<1> DEFINE f == [s \in S |-> Units(orders[s].items, r)]
<1> DEFINE g == [s \in T |-> Units(orders'[s].items, r)]
<1>1. o \in T /\ o \notin S /\ T \ {o} = S
  BY DEF Cancelled, Pending
<1>2. IsFiniteSet(S) /\ IsFiniteSet(T)
  BY FiniteAssumption, FS_Subset
<1>3. \A s \in T : g[s] \in Nat
  <2> TAKE s \in T
  <2>1. orders'[s] \in Order
    BY DEF Cancelled, Typed, TypeOK
  <2> QED
    BY <2>1, UnitsNat DEF Order
<1>4. \A s \in S : f[s] = g[s] /\ s \in T
  BY <1>1
<1>5. g[o] = Units(orders[o].items, r)
  BY <1>1, FrozenFields DEF Pending
<1>6. Refunds(r) = SumFunction(f) /\ Refunds(r)' = SumFunction(g)
  BY DEF Refunds
<1>7. DOMAIN f = S /\ DOMAIN g = T
  OBVIOUS
<1> HIDE DEF f, g, S, T
<1>8. SumFunctionOnSet(g, T) = g[o] + SumFunctionOnSet(g, S)
  BY <1>1, <1>2, <1>3, SumRemove
<1>9. SumFunctionOnSet(f, S) = SumFunctionOnSet(g, S)
  BY <1>2, <1>4, SumSame
<1>10. SumFunctionOnSet(g, S) \in Nat
  BY <1>2, <1>3, <1>4, SumNat
<1>11. g[o] \in Nat
  BY <1>1, <1>3
<1> QED
  BY <1>5, <1>6, <1>7, <1>8, <1>9, <1>10, <1>11 DEF SumFunction

\* A cancellation past its checks.
LEMMA RestoringServes ==
    ASSUME Typed, NEW p \in Requests
    PROVE  p \in Restoring <=> Serves(p, "cancel") /\ pc[p] # "GetOrder"
  BY DEF Restoring, At, Serves, Serving, Calls, Typed, ControlOK, Control, CallsOf

\* What the cancellations at work have brought back changes by one of them.
LEMMA AllBackStep ==
    ASSUME Numbers, Numbers', NEW p \in Requests, OnlyMoves(p), NEW r \in Records
    PROVE  /\ AllBack(r)' + Back(p, r) = AllBack(r) + Back(p, r)'
           /\ AllBack(r) \in Nat /\ AllBack(r)' \in Nat
           /\ Back(p, r) \in Nat /\ Back(p, r)' \in Nat
<1> DEFINE f == [q \in Requests |-> Back(q, r)]
<1> DEFINE g == [q \in Requests |-> Back(q, r)']
<1>1. \A q \in Requests : f[q] \in Nat /\ g[q] \in Nat
  BY DEF Numbers
<1>2. \A q \in Requests \ {p} : g[q] = f[q]
  BY OthersBack
<1>3. AllBack(r) = SumFunctionOnSet(f, Requests) /\ AllBack(r)' = SumFunctionOnSet(g, Requests)
  BY DEF AllBack
<1>4. f[p] = Back(p, r) /\ g[p] = Back(p, r)'
  OBVIOUS
<1> HIDE DEF f, g
<1>5. SumFunctionOnSet(g, Requests) + f[p] = SumFunctionOnSet(f, Requests) + g[p]
  BY <1>1, <1>2, FiniteAssumption, SumChange
<1>6. SumFunctionOnSet(f, Requests) \in Nat /\ SumFunctionOnSet(g, Requests) \in Nat
  BY <1>1, FiniteAssumption, SumNat
<1> QED
  BY <1>1, <1>3, <1>4, <1>5, <1>6

\* Without a rival an order stays pending until its cancellation ends.
LEMMA HalfwayStep ==
    ASSUME ShopSound, ShopSound', NEW p \in Requests, Accept(p) \/ Serve(p), OnlyMoves(p),
           ~Contest, \A q \in Requests : Halfway(q), NEW q \in Requests
    PROVE  Halfway(q)'
<1> SUFFICES ASSUME q \in Restoring' PROVE Pending(req[q].order)'
  BY DEF Halfway
<1>1. Typed /\ Typed' /\ TypeOK /\ TypeOK' /\ OrdersOK
  BY DEF ShopSound, Typed
<1>2. Serves(q, "cancel")' /\ pc'[q] # "GetOrder"
  BY <1>1 DEF Restoring, At, Serves, Serving, Calls
<1>3. CASE q # p
  <2>1. q \in Restoring /\ req'[q] = req[q]
    BY <1>1, <1>2, <1>3, RestoringServes DEF OnlyMoves, Serves, Serving
  <2>2. PICK o \in Requests : o = req[q].order
    BY <1>1, <2>1, RestoringServes, RestoringOrder
  <2>3. Pending(o)
    BY <2>1, <2>2 DEF Halfway
  <2>4. orders'[o] = orders[o]
    <3>1. CASE UNCHANGED orders
      BY <3>1
    <3>2. CASE CreateSaveOrder(p)
      <4>1. orders[p] = NoOrder /\ orders' = [orders EXCEPT ![p] = ord[p]]
        BY <1>1, <3>2 DEF CreateSaveOrder, OrdersOK, Building, At, Serves, Serving, Calls
      <4> QED
        BY <1>1, <2>3, <4>1 DEF Pending, TypeOK
    <3>3. CASE CancelSaveOrder(p)
      <4>1. p \in Restoring /\ orders' = [orders EXCEPT ![req[p].order] = AsCancelled(p)]
        BY <3>3 DEF CancelSaveOrder, Restoring
      <4>2. req[p].order # o
        BY <1>3, <2>1, <2>2, <4>1 DEF Contest
      <4> QED
        BY <1>1, <4>1, <4>2 DEF TypeOK
    <3> QED
      BY <3>1, <3>2, <3>3 DEF Accept, Serve, Create, CreateGetRecord, CreateDecrementStock,
         Cancel, CancelGetOrder, CancelGetRecord, CancelSaveRecord,
         Restock, RestockGetRecord, RestockSaveRecord, Update, UpdateGetRecord, UpdateSaveRecord,
         Archive, ArchiveGetRecord, ArchiveSaveRecord, AddSaveRecord, SaveBack, StoreError, Refuse, Hold, store
  <2> QED
    BY <2>1, <2>2, <2>3, <2>4 DEF Pending
<1>4. CASE q = p
  <2>1. ~Accept(p)
    <3> SUFFICES ASSUME Accept(p) PROVE FALSE
      OBVIOUS
    <3>1. PICK x \in Request : req' = [req EXCEPT ![p] = x] /\ Goto(p, FirstCall(x))
      BY DEF Accept
    <3>2. req'[p] = x /\ pc'[p] = FirstCall(x)
      BY <1>1, <3>1 DEF Goto, TypeOK
    <3> QED
      BY <1>2, <1>4, <3>2 DEF FirstCall, Serves
  <2>2. req'[p] = req[p] /\ req[p].op = "cancel" /\ Serve(p)
    BY <1>1, <1>2, <1>4, <2>1, ServeServes DEF OneServes, Serves
  <2>3. \A code : ~Return(p, code)
    BY <1>1, <1>2, <1>4 DEF Return, Serves, Serving, Calls, TypeOK
  <2>4. CASE CancelGetOrder(p)
    <3>1. orders[req[p].order] # NoOrder /\ Cancellable(orders[req[p].order]) /\ UNCHANGED orders
      BY <2>3, <2>4 DEF CancelGetOrder, Refuse, store
    <3> QED
      BY <1>4, <2>2, <3>1 DEF Cancellable, Pending
  <2>5. CASE CancelGetRecord(p) \/ CancelSaveRecord(p)
    <3>1. p \in Restoring /\ UNCHANGED orders
      BY <2>5 DEF CancelGetRecord, CancelSaveRecord, Restoring, Hold, store
    <3>2. Pending(req[p].order)
      BY <3>1 DEF Halfway
    <3> QED
      BY <1>4, <2>2, <3>1, <3>2 DEF Pending
  <2>6. ~CancelSaveOrder(p) /\ ~StoreError(p)
    BY <2>3 DEF CancelSaveOrder, Written, StoreError, Refuse
  <2> QED
    BY <2>2, <2>4, <2>5, <2>6 DEF Serve, Create, CreateGetRecord, CreateDecrementStock, CreateSaveOrder, At,
       Cancel, Restock, RestockGetRecord, RestockSaveRecord, Update, UpdateGetRecord, UpdateSaveRecord,
       Archive, ArchiveGetRecord, ArchiveSaveRecord, AddSaveRecord
<1> QED
  BY <1>3, <1>4

\* A step of a shop in which no cancellation fails or has a rival.
LEMMA SettledStep ==
    ASSUME ShopSound, ShopSound', LoopsEnd, LoopsEnd', Frozen, NEW p \in Requests, Accept(p) \/ Serve(p), OnlyMoves(p),
           ~Contest, ~Contest', Settled
    PROVE  Settled'
<1>1. Typed /\ Typed' /\ TypeOK /\ TypeOK' /\ OrdersOK /\ OrdersOK' /\ Numbers /\ Numbers'
  BY AttemptNumbers, AttemptNumbersNext DEF ShopSound, Typed
<1>2. \A q \in Requests : Halfway(q)'
  BY HalfwayStep DEF Settled
<1>3. ASSUME NEW r \in Records PROVE returned'[r] = Refunds(r)' + AllBack(r)'
  <2>1. PICK d \in Nat : /\ returned'[r] = returned[r] + d
                         /\ GoesOn(p, r, d) \/ Fails(p, r, d) \/ Succeeds(p, r, d)
    BY StepBrings, <1>1 DEF Brings
  <2>2. /\ AllBack(r)' + Back(p, r) = AllBack(r) + Back(p, r)'
        /\ AllBack(r) \in Nat /\ AllBack(r)' \in Nat
        /\ Back(p, r) \in Nat /\ Back(p, r)' \in Nat
    BY <1>1, AllBackStep
  <2>3. Refunds(r) \in Nat /\ returned[r] = Refunds(r) + AllBack(r)
    BY <1>1, RefundsNat DEF Settled
  <2>4. CASE GoesOn(p, r, d)
    <3>1. Refunds(r)' = Refunds(r)
      <4>1. \A o \in Requests : Cancelled(o)' <=> Cancelled(o)
        BY <2>4 DEF GoesOn
      <4>2. \A o \in Requests : Cancelled(o) => orders'[o].items = orders[o].items
        BY <1>1, FrozenFields DEF Cancelled
      <4> QED
        BY <4>1, <4>2, RefundsSame
    <3>2. Back(p, r)' = Back(p, r) + d
      BY <2>4 DEF GoesOn
    <3> QED
      BY <2>1, <2>2, <2>3, <3>1, <3>2
  <2>5. ~Fails(p, r, d)
    BY DEF Fails, Contest, CancelsAnswered
  <2>6. CASE Succeeds(p, r, d)
    <3>1. p \in Restoring /\ Serves(p, "cancel") /\ pc[p] # "GetOrder"
      BY <1>1, <2>6, RestoringServes DEF Succeeds, CancelSaveOrder, Restoring
    <3>2. PICK o \in Requests : o = req[p].order
      BY <1>1, <3>1, RestoringOrder
    <3>3. Pending(o) /\ ord[p] \in Order /\ orders[o].items = ord[p].items /\ OfOrder(p, r) = Units(ord[p].items, r)
      BY <1>1, <3>1, <3>2, RestoringOrder DEF Settled, Halfway
    <3>4. orders'[o] = AsCancelled(p) /\ \A s \in Requests \ {o} : orders'[s] = orders[s]
      BY <1>1, <2>6, <3>2 DEF Succeeds, CancelSaveOrder, TypeOK
    <3>5. Cancelled(o)'
      <4>1. AsCancelled(p) \in Order /\ AsCancelled(p).status = "cancelled"
        BY <3>3 DEF AsCancelled, Order
      <4> QED
        BY <3>4, <4>1, SentinelAssumption DEF Cancelled
    <3>6. Refunds(r)' = Refunds(r) + Units(orders[o].items, r)
      BY <1>1, <3>3, <3>4, <3>5, RefundsMore
    <3>7. Refunds(r)' = Refunds(r) + Back(p, r) /\ Back(p, r)' = 0 /\ d = 0
      BY <2>6, <3>3, <3>6 DEF Succeeds
    <3> QED
      BY <2>1, <2>2, <2>3, <3>7
  <2> QED
    BY <2>1, <2>4, <2>5, <2>6
<1> QED
  BY <1>2, <1>3 DEF Settled

\* When the shop opens nothing has come back.
LEMMA RefundsInit == RacesInit => RefundsOK
<1> SUFFICES ASSUME RacesInit PROVE RefundsOK
  OBVIOUS
<1>1. ShopSound /\ LoopsEnd /\ Init
  BY AttemptsInit DEF RacesInit, AttemptsOK
<1>2. Restoring = {} /\ CancelsAnswered(500) = {}
  BY <1>1 DEF Init, Restoring, CancelsAnswered, Answered, At
<1>3. ASSUME NEW r \in Records PROVE returned[r] = Refunds(r) + AllBack(r)
  <2>1. \A p \in Requests : Back(p, r) = 0
    BY <1>1 DEF Init, Back, Serves, Serving, Calls
  <2> DEFINE f == [p \in Requests |-> Back(p, r)]
  <2> DEFINE c == [o \in {o \in Requests : Cancelled(o)} |-> Units(orders[o].items, r)]
  <2>2. \A p \in Requests : f[p] = 0
    BY <2>1
  <2>3. AllBack(r) = SumFunctionOnSet(f, Requests)
    BY DEF AllBack
  <2>4. DOMAIN c = {} /\ Refunds(r) = SumFunction(c)
    BY <1>1 DEF Init, Cancelled, Refunds
  <2> HIDE DEF f, c
  <2>5. AllBack(r) = 0 /\ Refunds(r) = 0
    BY <2>2, <2>3, <2>4, FiniteAssumption, SumZero, SumNone DEF SumFunction
  <2> QED
    BY <1>1, <2>5 DEF Init
<1> QED
  BY <1>1, <1>2, <1>3 DEF RefundsOK, Settled, Halfway, Contest

\* Every step keeps the invariant.
LEMMA RefundsStep == RefundsOK /\ [RacesNext]_racesVars => RefundsOK'
<1> SUFFICES ASSUME RefundsOK, [RacesNext]_racesVars PROVE RefundsOK'
  OBVIOUS
<1>1. ShopSound /\ LoopsEnd /\ [Next]_vars
  BY DEF RefundsOK, RacesNext, racesVars
<1>2. ShopSound' /\ Frozen
  BY <1>1, SoundStep
<1>3. CASE UNCHANGED vars
  <2>1. LoopsEnd' /\ (Contest' <=> Contest)
    BY <1>1, <1>3 DEF LoopsEnd, Ended, Contest, CancelsAnswered, Answered, Restoring, At, Serves, Serving, vars, locals
  <2>2. Settled => Settled'
    <3>1. \A r : Refunds(r)' = Refunds(r)
      BY <1>3, RefundsSame DEF vars, store, Cancelled
    <3>2. \A p, r : Back(p, r)' = Back(p, r)
      BY <1>3 DEF Back, Serves, Serving, vars, locals
    <3>3. \A r : AllBack(r)' = AllBack(r)
      BY <3>2 DEF AllBack
    <3>4. \A p \in Requests : Halfway(p) => Halfway(p)'
      BY <1>3 DEF Halfway, Restoring, At, Pending, vars, store
    <3> QED
      BY <1>3, <3>1, <3>3, <3>4 DEF Settled, vars, history
  <2>3. contested => contested'
    BY Zenon DEF RacesNext, racesVars, races
  <2>4. (Contest => contested) /\ (~contested => Settled)
    BY Zenon DEF RefundsOK
  <2> QED
    BY <1>2, <2>1, <2>2, <2>3, <2>4, Zenon DEF RefundsOK
<1>4. ASSUME NEW p \in Requests, Accept(p) \/ Serve(p), RacesNext PROVE RefundsOK'
  <2>1. LoopsEnd' /\ OnlyMoves(p)
    BY <1>1, <1>2, <1>4, LoopsEndStep
  <2>2. /\ ~contested' => ~contested /\ ~Contest'
        /\ Contest' => contested'
    BY <1>4, Zenon DEF RacesNext
  <2>3. ~contested => ~Contest /\ Settled
    BY Zenon DEF RefundsOK
  <2>4. ASSUME ~Contest, ~Contest', Settled PROVE Settled'
    BY <1>1, <1>2, <1>4, <2>1, <2>4, SettledStep
  <2> QED
    BY <1>2, <2>1, <2>2, <2>3, <2>4, Zenon DEF RefundsOK
<1> QED
  BY <1>3, <1>4 DEF RacesNext, Next, racesVars

\* The invariant of the refunds holds in every reachable state.
LEMMA RefundsAlways == RacesSpec => []RefundsOK
  BY RefundsInit, RefundsStep, PTL DEF RacesSpec

\* Whatever other handlers run and whatever their store calls do, what came back
\* are the units of the cancelled orders, once for each, as long as no
\* cancellation failed or met another of the same order.
THEOREM RefundedOnceAlways == RacesSpec => []RefundedOnce
<1>1. RefundsOK => RefundedOnce
  <2> SUFFICES ASSUME RefundsOK, ~contested, Restoring = {}, NEW r \in Records PROVE returned[r] = Refunds(r)
    BY DEF RefundedOnce
  <2>1. Settled
    BY Zenon DEF RefundsOK
  <2>2. Typed /\ OrdersOK
    BY DEF RefundsOK, ShopSound
  <2> DEFINE f == [p \in Requests |-> Back(p, r)]
  <2>3. \A p \in Requests : f[p] = 0
    BY <2>2, RestoringServes DEF Back
  <2>4. AllBack(r) = SumFunctionOnSet(f, Requests)
    BY DEF AllBack
  <2> HIDE DEF f
  <2>5. AllBack(r) = 0
    BY <2>3, <2>4, FiniteAssumption, SumZero
  <2>6. Refunds(r) \in Nat /\ returned[r] = Refunds(r) + AllBack(r)
    BY <2>1, <2>2, RefundsNat DEF Settled
  <2> QED
    BY <2>5, <2>6
<1> QED
  BY <1>1, RefundsAlways, PTL
=============================================================================
