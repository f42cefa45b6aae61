----------------------------- MODULE ShopProofs -----------------------------
(***************************************************************************)
(* Theorems about Shop, for every number of requests, records and users    *)
(* and every catalogue: the types and the control state of the handlers,   *)
(* and what holds of the orders.  What holds of stocks is in               *)
(* ShopAccountingProofs.                                                   *)
(***************************************************************************)
EXTENDS Shop, SequenceTheorems, TLAPS

-----------------------------------------------------------------------------
(* The requests and the arithmetic *)

\* The fields of a request are those of its operation.
LEMMA RequestFields ==
    ASSUME NEW q \in Request
    PROVE  /\ q.op \in {"create", "cancel", "restock", "update", "archive", "add"}
           /\ q.op = "create" => q \in CreateRequest
           /\ q.op = "cancel" => q \in CancelRequest
           /\ q.op = "restock" => q \in RestockRequest
           /\ q.op = "update" => q \in UpdateRequest
           /\ q.op = "archive" => q \in ArchiveRequest
           /\ q.op = "add" => q \in AddRequest
  BY DEF Request, CreateRequest, CancelRequest, RestockRequest, UpdateRequest, ArchiveRequest, AddRequest

\* An order that passed validation has at least one item.
LEMMA RequestItems ==
    ASSUME NEW q \in CreateRequest
    PROVE  /\ q.user \in Users
           /\ q.items \in Seq(Item)
           /\ Len(q.items) \in Nat \ {0}
           /\ \A i \in 1..Len(q.items) : q.items[i] \in Item
<1>1. PICK n \in 1..MaxItems : q.items \in [1..n -> Item]
  BY DEF CreateRequest
<1>2. n \in Nat
  BY <1>1, BoundAssumption
<1>3. q.items \in Seq(Item) /\ Len(q.items) = n
  BY <1>1, <1>2, SeqDef, LenProperties
<1>4. q.user \in Users
  BY DEF CreateRequest
<1> QED
  BY <1>1, <1>2, <1>3, <1>4

\* The numbers a request names are ints.
LEMMA StockRange ==
    /\ \A n \in 0..MaxInt : n \in (-MaxInt - 1)..MaxInt
    /\ \A n \in Stocks \union {0} : n \in Nat /\ n \in (-MaxInt - 1)..MaxInt
    /\ \A n \in Quantities : n \in 1..MaxInt /\ n \in Nat
<1>1. MaxInt \in Nat
  BY IntAssumption
<1>2. \A n \in 0..MaxInt : n \in (-MaxInt - 1)..MaxInt
  BY <1>1
<1> QED
  BY <1>2, IntAssumption

\* Go's addition stays within the ints, and never exceeds the sum.
LEMMA WrapRange ==
    ASSUME NEW m \in (-MaxInt - 1)..MaxInt, NEW k \in 1..MaxInt
    PROVE  /\ Wrap(m + k) \in (-MaxInt - 1)..MaxInt
           /\ Wrap(m + k) <= m + k
           /\ m + k <= MaxInt => Wrap(m + k) = m + k
  BY IntAssumption DEF Wrap

-----------------------------------------------------------------------------
(* Types and control *)

CallsOf(op) == IF op = "create" THEN {"GetRecord", "DecrementStock", "SaveOrder"}
               ELSE IF op = "cancel" THEN {"GetOrder", "GetRecord", "SaveRecord", "SaveOrder"}
               ELSE IF op = "add" THEN {"SaveRecord"}
               ELSE {"GetRecord", "SaveRecord"}

Serving(p) == pc[p] \in Calls
Serves(p, op) == Serving(p) /\ req[p].op = op

\* The control state of a handler: which calls its operation makes, and which
\* of its variables are set when it makes them.
Control(p) ==
    /\ pc[p] = "idle" <=> req[p] = NoRequest
    /\ pc[p] # "done" => resp[p] = 0
    /\ Serving(p) => pc[p] \in CallsOf(req[p].op)
    /\ ~Serving(p) => rec[p] = NoRecord /\ ord[p] = NoOrder
    /\ pc[p] \in {"DecrementStock", "SaveRecord"} => rec[p] \in Doc
    /\ Serves(p, "create") => ord[p] \in Order
    /\ Serves(p, "create") /\ pc[p] # "SaveOrder" => idx[p] \in 1..Len(req[p].items)
    /\ Serves(p, "create") /\ pc[p] = "SaveOrder" => ord[p].items # << >>
    /\ pc[p] = "GetOrder" => idx[p] = 1
    /\ Serves(p, "cancel") /\ pc[p] # "GetOrder" => ord[p] \in Order /\ ord[p].items # << >>
    /\ Serves(p, "cancel") /\ pc[p] \in {"GetRecord", "SaveRecord"} => idx[p] \in 1..Len(ord[p].items)

ControlOK == \A p \in Requests : Control(p)

\* CancelOrder finds at least one item in every order.
NoEmptyOrder == \A o \in Requests : orders[o] # NoOrder => orders[o].items # << >>

Typed == TypeOK /\ ControlOK /\ NoEmptyOrder

\* The types and the control state hold when the shop opens.
LEMMA TypedInit == Init => Typed
<1> SUFFICES ASSUME Init PROVE Typed
  OBVIOUS
<1>1. records \in [Records -> Doc \union {NoRecord}]
  BY ShelfAssumption DEF Init
<1>2. supply \in [Records -> Nat]
  <2>1. \A r \in Records : records[r] # NoRecord => records[r].stock \in Nat
    BY <1>1, ShelfAssumption, IntAssumption DEF Init, Doc
  <2> QED
    BY <2>1 DEF Init
<1>3. TypeOK
  BY <1>1, <1>2 DEF Init, TypeOK, Codes
<1>4. ControlOK
  BY DEF Init, ControlOK, Control, Serving, Serves, Calls
<1>5. NoEmptyOrder
  BY DEF Init, NoEmptyOrder
<1> QED
  BY <1>3, <1>4, <1>5 DEF Typed

\* Handlers do not share their variables: a step of p that leaves the types
\* right and keeps p's control state right keeps everybody's.
LEMMA OthersControl ==
    ASSUME Typed, NEW p \in Requests, Control(p)',
           \A q \in Requests \ {p} : /\ pc'[q] = pc[q]
                                     /\ req'[q] = req[q]
                                     /\ rec'[q] = rec[q]
                                     /\ ord'[q] = ord[q]
                                     /\ idx'[q] = idx[q]
                                     /\ resp'[q] = resp[q]
    PROVE  ControlOK'
<1> SUFFICES ASSUME NEW q \in Requests \ {p} PROVE Control(q)'
  BY DEF ControlOK
<1>1. Control(q)
  BY DEF Typed, ControlOK
<1> QED
  BY <1>1 DEF Control, Serving, Serves

\* Answering ends a handler in good order, whatever it wrote before.
LEMMA ReturnTyped ==
    ASSUME Typed, NEW p \in Requests, NEW code \in Codes,
           req[p] # NoRequest, Return(p, code), UNCHANGED req
    PROVE  /\ ControlOK'
           /\ pc' \in [Requests -> Calls \union {"idle", "done"}]
           /\ resp' \in [Requests -> Codes \union {0}]
           /\ rec' \in [Requests -> Doc \union {NoRecord}]
           /\ ord' \in [Requests -> Order \union {NoOrder}]
           /\ idx' \in [Requests -> Nat]
           /\ req' \in [Requests -> Request \union {NoRequest}]
<1>1. TypeOK
  BY DEF Typed
<1>2. Control(p)'
  BY <1>1 DEF Control, Return, Serving, Serves, Calls, TypeOK
<1>3. ControlOK'
  BY <1>1, <1>2, OthersControl DEF Return, TypeOK
<1> QED
  BY <1>1, <1>3 DEF TypeOK, Return

\* An early return changes nothing but the answer.
LEMMA RefuseTyped ==
    ASSUME Typed, NEW p \in Requests, NEW code \in Codes,
           req[p] # NoRequest, Refuse(p, code), UNCHANGED req
    PROVE  Typed'
<1>1. Return(p, code) /\ UNCHANGED <<store, history>>
  BY DEF Refuse
<1>2. NoEmptyOrder'
  BY <1>1 DEF Typed, NoEmptyOrder, store
<1> QED
  BY <1>1, <1>2, ReturnTyped DEF Typed, TypeOK, store, history

\* Adding to the stock of a record gives a record, also where it wraps.
LEMMA StockedDoc ==
    ASSUME NEW doc \in Doc, NEW qty \in Quantities
    PROVE  /\ Stocked(doc, qty) \in Doc
           /\ Stocked(doc, qty) = [doc EXCEPT !.stock = Wrap(doc.stock + qty)]
<1>1. doc.stock \in (-MaxInt - 1)..MaxInt /\ qty \in 1..MaxInt
  BY IntAssumption DEF Doc
<1>2. Wrap(doc.stock + qty) \in (-MaxInt - 1)..MaxInt
  BY <1>1, WrapRange
<1> QED
  BY <1>2 DEF Stocked, Doc

\* The arrival of a request keeps the types.
LEMMA AcceptTyped ==
    ASSUME Typed, NEW p \in Requests, Accept(p)
    PROVE  Typed'
<1>1. TypeOK /\ Control(p)
  BY DEF Typed, ControlOK
<1>2. PICK q \in Request :
          /\ Acceptable(q)
          /\ req' = [req EXCEPT ![p] = q]
          /\ Goto(p, FirstCall(q))
          /\ idx' = [idx EXCEPT ![p] = 1]
          /\ ord' = IF q.op = "create" THEN [ord EXCEPT ![p] = NewOrder(q.user)] ELSE ord
          /\ rec' = IF q.op = "add" THEN [rec EXCEPT ![p] = NewRecord(q)] ELSE rec
  BY DEF Accept
<1>3. q # NoRequest
  BY RequestAssumption
<1>4. q.op = "create" => NewOrder(q.user) \in Order
  <2>1. << >> \in Seq(OrderItem)
    BY EmptySeq
  <2> QED
    BY <2>1, RequestFields, RequestItems DEF NewOrder, Order
<1>5. q.op = "add" => NewRecord(q) \in Doc
  <2> HAVE q.op = "add"
  <2>1. q.info \in Infos /\ q.stock \in Stocks
    BY RequestFields DEF AddRequest
  <2>2. q.stock \in (-MaxInt - 1)..MaxInt
    BY <2>1, StockRange
  <2> QED
    BY <2>1, <2>2 DEF NewRecord, Doc
<1>6. q.op = "create" => 1 \in 1..Len(q.items)
  BY RequestFields, RequestItems
<1>7. FirstCall(q) \in CallsOf(q.op)
  BY RequestFields DEF FirstCall, CallsOf
<1>8. CallsOf(q.op) \subseteq Calls
  BY RequestFields DEF CallsOf, Calls
<1>9. TypeOK'
  BY <1>1, <1>2, <1>4, <1>5, <1>7, <1>8 DEF TypeOK, Accept, Goto, store, history
<1>10. Control(p)'
  BY <1>1, <1>2, <1>3, <1>4, <1>5, <1>6, <1>7, <1>8, RequestFields
     DEF Control, Serving, Serves, Accept, Goto, FirstCall, Calls, TypeOK
<1>11. ControlOK'
  BY <1>1, <1>2, <1>10, OthersControl DEF Accept, Goto, TypeOK
<1>12. NoEmptyOrder'
  BY DEF Accept, Typed, NoEmptyOrder, store
<1> QED
  BY <1>9, <1>11, <1>12 DEF Typed

\* What holds of a create request that is served.
LEMMA Creating ==
    ASSUME Typed, NEW p \in Requests, NEW call, At(p, "create", call), call \in Calls
    PROVE  /\ req[p] \in CreateRequest
           /\ req[p].items \in Seq(Item)
           /\ Len(req[p].items) \in Nat \ {0}
           /\ ord[p] \in Order
           /\ call # "SaveOrder" => idx[p] \in 1..Len(req[p].items) /\ Line(p) \in Item
           /\ call = "SaveOrder" => ord[p].items # << >>
           /\ call = "DecrementStock" => rec[p] \in Doc
<1>1. TypeOK /\ Control(p)
  BY DEF Typed, ControlOK
<1>2. req[p] \in CreateRequest
  BY <1>1, RequestFields DEF At, TypeOK
<1>3. Serves(p, "create") /\ pc[p] = call
  BY DEF At, Serves, Serving
<1> QED
  BY <1>1, <1>2, <1>3, RequestItems DEF Control, Line

\* The read of CreateOrder keeps the types.
LEMMA CreateGetRecordTyped ==
    ASSUME Typed, NEW p \in Requests, CreateGetRecord(p)
    PROVE  Typed'
<1> DEFINE doc == records[Line(p).id]
<1>1. TypeOK /\ Control(p) /\ At(p, "create", "GetRecord")
  BY DEF Typed, ControlOK, CreateGetRecord
<1>2. Line(p) \in Item /\ ord[p] \in Order /\ idx[p] \in 1..Len(req[p].items)
  BY <1>1, Creating DEF Calls
<1>3. doc \in Doc \union {NoRecord}
  BY <1>1, <1>2 DEF TypeOK, Item
<1>4. CASE Refuse(p, 404) \/ Refuse(p, 409)
  BY <1>1, <1>4, RefuseTyped DEF CreateGetRecord, At, Codes
<1>5. CASE doc # NoRecord /\ Hold(p, doc, "DecrementStock") /\ UNCHANGED <<idx, history>>
  <2>1. TypeOK'
    BY <1>1, <1>3, <1>5 DEF TypeOK, Hold, Goto, Calls, CreateGetRecord, store, history
  <2>2. Control(p)'
    BY <1>1, <1>2, <1>3, <1>5 DEF Control, Hold, Goto, Calls, CallsOf, Serving, Serves, At, CreateGetRecord, TypeOK
  <2>3. ControlOK'
    BY <1>1, <1>5, <2>2, OthersControl DEF Hold, Goto, CreateGetRecord, TypeOK
  <2>4. NoEmptyOrder'
    BY <1>5 DEF Hold, Typed, NoEmptyOrder, store
  <2> QED
    BY <2>1, <2>3, <2>4 DEF Typed
<1> QED
  BY <1>4, <1>5 DEF CreateGetRecord

\* The loop's step to the next line, or out of the loop after the last one.
LEMMA NextLineCases ==
    ASSUME NEW p, NEW n \in Nat, idx[p] \in 1..n, NEW call
    PROVE  \/ NextLine(p, n, call) = call /\ idx[p] = n
           \/ NextLine(p, n, call) = "GetRecord" /\ idx[p] + 1 \in 1..n
  BY DEF NextLine

\* DecrementStock keeps the stock in range and the loop in its bounds.
LEMMA CreateDecrementStockTyped ==
    ASSUME Typed, NEW p \in Requests, CreateDecrementStock(p)
    PROVE  Typed'
<1> DEFINE r == Line(p).id
<1> DEFINE qty == Line(p).qty
<1>1. TypeOK /\ Control(p) /\ At(p, "create", "DecrementStock")
  BY DEF Typed, ControlOK, CreateDecrementStock
<1>2. /\ Line(p) \in Item /\ ord[p] \in Order /\ rec[p] \in Doc
      /\ idx[p] \in 1..Len(req[p].items) /\ Len(req[p].items) \in Nat
  BY <1>1, Creating DEF Calls
<1>3. r \in Records /\ qty \in Quantities /\ qty \in 1..MaxInt
  BY <1>2, StockRange DEF Item
<1>4. CASE Refuse(p, 409)
  BY <1>1, <1>4, RefuseTyped DEF CreateDecrementStock, At, Codes
<1>5. CASE CanDecrement(r, qty) /\ Decrement(p) /\ taken' = Gain(taken, r, qty)
           /\ UNCHANGED <<orders, supply, returned, wrapped, req>>
  <2>1. records[r] \in Doc /\ records[r].stock - qty \in (-MaxInt - 1)..MaxInt
    <3>1. records[r] \in Doc /\ records[r].stock >= qty
      BY <1>1, <1>3, <1>5 DEF TypeOK, CanDecrement
    <3>2. records[r].stock \in (-MaxInt - 1)..MaxInt
      BY <3>1 DEF Doc
    <3> QED
      BY <1>3, <3>1, <3>2, IntAssumption
  <2>2. records' \in [Records -> Doc \union {NoRecord}]
    <3>1. [records[r] EXCEPT !.stock = @ - qty] \in Doc
      BY <2>1 DEF Doc
    <3>2. records' = [records EXCEPT ![r] = [records[r] EXCEPT !.stock = @ - qty]]
      BY <1>1, <1>3, <1>5 DEF Decrement, TypeOK
    <3> QED
      BY <1>1, <1>3, <3>1, <3>2 DEF TypeOK
  <2>3. taken' \in [Records -> Nat]
    BY <1>1, <1>3, <1>5, IntAssumption DEF Gain, TypeOK
  <2>4. NoEmptyOrder'
    BY <1>5 DEF Typed, NoEmptyOrder
  <2>5. CASE Return(p, 500)
    BY <1>1, <1>5, <2>2, <2>3, <2>4, <2>5, ReturnTyped DEF Typed, TypeOK, At, Codes
  <2>6. CASE /\ ord' = [ord EXCEPT ![p].items = Append(@, Sold(p))]
             /\ idx' = [idx EXCEPT ![p] = @ + 1]
             /\ Goto(p, NextLine(p, Len(req[p].items), "SaveOrder"))
             /\ UNCHANGED <<rec, resp>>
    <3>1. Sold(p) \in OrderItem
      BY <1>2, <1>3 DEF Sold, OrderItem, Doc
    <3>2. ord[p].items \in Seq(OrderItem)
      BY <1>2 DEF Order
    <3>3. /\ Append(ord[p].items, Sold(p)) \in Seq(OrderItem)
          /\ Append(ord[p].items, Sold(p)) # << >>
      BY <3>1, <3>2, AppendProperties
    <3>4. ord'[p] = [ord[p] EXCEPT !.items = Append(ord[p].items, Sold(p))]
      BY <1>1, <2>6 DEF TypeOK
    <3>5. ord'[p] \in Order /\ ord'[p].items # << >>
      BY <1>2, <3>3, <3>4 DEF Order
    <3>6. NextLine(p, Len(req[p].items), "SaveOrder") \in {"SaveOrder", "GetRecord"}
      BY DEF NextLine
    <3>7. TypeOK'
      BY <1>1, <1>5, <2>2, <2>3, <2>6, <3>5, <3>6 DEF TypeOK, Goto, Calls
    <3>8. Control(p)'
      BY <1>1, <1>2, <1>5, <2>6, <3>5, NextLineCases
         DEF Control, Serving, Serves, At, Goto, Calls, CallsOf, TypeOK
    <3>9. ControlOK'
      BY <1>1, <1>5, <2>6, <3>8, OthersControl DEF Goto, TypeOK
    <3> QED
      BY <2>4, <3>7, <3>9 DEF Typed
  <2> QED
    BY <1>5, <2>5, <2>6 DEF CreateDecrementStock
<1> QED
  BY <1>4, <1>5 DEF CreateDecrementStock

\* A write is answered by its code or by 500.
LEMMA WrittenReturns ==
    ASSUME NEW p, NEW code, Written(p, code)
    PROVE  Return(p, code) \/ Return(p, 500)
  BY DEF Written

\* The SaveOrder of CreateOrder stores an order with items.
LEMMA CreateSaveOrderTyped ==
    ASSUME Typed, NEW p \in Requests, CreateSaveOrder(p)
    PROVE  Typed'
<1>1. TypeOK /\ At(p, "create", "SaveOrder")
  BY DEF Typed, CreateSaveOrder
<1>2. ord[p] \in Order /\ ord[p].items # << >>
  BY <1>1, Creating DEF Calls
<1>3. NoEmptyOrder' /\ orders' \in [Requests -> Order \union {NoOrder}]
  BY <1>1, <1>2 DEF CreateSaveOrder, Typed, NoEmptyOrder, TypeOK
<1>4. Return(p, 201) \/ Return(p, 500)
  BY WrittenReturns DEF CreateSaveOrder
<1> QED
  BY <1>1, <1>3, <1>4, ReturnTyped DEF CreateSaveOrder, Typed, TypeOK, At, Codes, history

\* What holds of a cancellation that is served.
LEMMA Cancelling ==
    ASSUME Typed, NEW p \in Requests, NEW call, At(p, "cancel", call), call \in Calls
    PROVE  /\ req[p].user \in Users /\ req[p].order \in Requests
           /\ call = "GetOrder" => idx[p] = 1
           /\ call # "GetOrder" => ord[p] \in Order /\ ord[p].items # << >>
           /\ call \in {"GetRecord", "SaveRecord"} =>
                 /\ Len(ord[p].items) \in Nat
                 /\ idx[p] \in 1..Len(ord[p].items)
                 /\ Ordered(p) \in OrderItem
           /\ call = "SaveRecord" => rec[p] \in Doc
<1>1. TypeOK /\ Control(p)
  BY DEF Typed, ControlOK
<1>2. req[p] \in CancelRequest
  BY <1>1, RequestFields DEF At, TypeOK
<1>3. Serves(p, "cancel") /\ pc[p] = call
  BY DEF At, Serves, Serving
<1>4. ASSUME call # "GetOrder" PROVE ord[p].items \in Seq(OrderItem)
  BY <1>1, <1>3, <1>4 DEF Control, Order
<1>5. ASSUME call \in {"GetRecord", "SaveRecord"}
      PROVE  Len(ord[p].items) \in Nat /\ Ordered(p) \in OrderItem
  <2>1. ord[p].items \in Seq(OrderItem) /\ idx[p] \in 1..Len(ord[p].items)
    BY <1>1, <1>3, <1>4, <1>5 DEF Control
  <2> QED
    BY <2>1, LenProperties, ElementOfSeq DEF Ordered
<1> QED
  BY <1>1, <1>2, <1>3, <1>5 DEF Control, CancelRequest

\* A sequence that is not empty has a first item.
LEMMA NonEmptySeq ==
    ASSUME NEW S, NEW s \in Seq(S), s # << >>
    PROVE  Len(s) \in Nat /\ 1 \in 1..Len(s)
  BY EmptySeq, LenProperties

\* CancelOrder starts its loop inside the bounds of the order.
LEMMA CancelGetOrderTyped ==
    ASSUME Typed, NEW p \in Requests, CancelGetOrder(p)
    PROVE  Typed'
<1> DEFINE order == orders[req[p].order]
<1>1. TypeOK /\ Control(p) /\ At(p, "cancel", "GetOrder")
  BY DEF Typed, ControlOK, CancelGetOrder
<1>2. req[p].order \in Requests /\ idx[p] = 1
  BY <1>1, Cancelling DEF Calls
<1>3. CASE Refuse(p, 404) \/ Refuse(p, 403) \/ Refuse(p, 409)
  BY <1>1, <1>3, RefuseTyped DEF CancelGetOrder, At, Codes
<1>4. CASE /\ order # NoOrder
           /\ ord' = [ord EXCEPT ![p] = order]
           /\ Goto(p, "GetRecord")
           /\ UNCHANGED <<store, rec, idx, resp, history>>
  <2>1. order \in Order /\ order.items # << >>
    BY <1>1, <1>2, <1>4 DEF Typed, TypeOK, NoEmptyOrder
  <2>2. 1 \in 1..Len(order.items)
    BY <2>1, NonEmptySeq DEF Order
  <2>3. TypeOK'
    BY <1>1, <1>4, <2>1 DEF TypeOK, Goto, Calls, CancelGetOrder, store, history
  <2>4. Control(p)'
    BY <1>1, <1>2, <1>4, <2>1, <2>2
       DEF Control, Goto, Calls, CallsOf, Serving, Serves, At, CancelGetOrder, TypeOK
  <2>5. ControlOK'
    BY <1>1, <1>4, <2>4, OthersControl DEF Goto, CancelGetOrder, TypeOK
  <2>6. NoEmptyOrder'
    BY <1>4 DEF Typed, NoEmptyOrder, store
  <2> QED
    BY <2>3, <2>5, <2>6 DEF Typed
<1> QED
  BY <1>3, <1>4 DEF CancelGetOrder

\* A handler holds the copy it has read and will write back.
LEMMA HoldTyped ==
    ASSUME Typed, NEW p \in Requests, NEW doc \in Doc, NEW op,
           At(p, op, "GetRecord"), op \in {"cancel", "restock", "update", "archive"},
           Hold(p, doc, "SaveRecord"), wrapped' \in BOOLEAN,
           UNCHANGED <<req, idx, supply, taken, returned>>
    PROVE  Typed'
<1>1. TypeOK /\ Control(p)
  BY DEF Typed, ControlOK
<1>2. TypeOK'
  BY <1>1 DEF TypeOK, Hold, Goto, Calls, store
<1>3. Control(p)'
  BY <1>1 DEF Control, Hold, Goto, Calls, CallsOf, Serving, Serves, At, TypeOK
<1>4. ControlOK'
  BY <1>1, <1>3, OthersControl DEF Hold, Goto, TypeOK
<1>5. NoEmptyOrder'
  BY DEF Hold, Typed, NoEmptyOrder, store
<1> QED
  BY <1>2, <1>4, <1>5 DEF Typed

\* The read of CancelOrder keeps the types, the skipped records included.
LEMMA CancelGetRecordTyped ==
    ASSUME Typed, NEW p \in Requests, CancelGetRecord(p)
    PROVE  Typed'
<1> DEFINE doc == records[Ordered(p).id]
<1> DEFINE qty == Ordered(p).qty
<1>1. TypeOK /\ Control(p) /\ At(p, "cancel", "GetRecord") /\ UNCHANGED req
  BY DEF Typed, ControlOK, CancelGetRecord
<1>2. /\ Ordered(p) \in OrderItem /\ ord[p] \in Order /\ ord[p].items # << >>
      /\ Len(ord[p].items) \in Nat /\ idx[p] \in 1..Len(ord[p].items)
  BY <1>1, Cancelling DEF Calls
<1>3. qty \in Quantities /\ doc \in Doc \union {NoRecord}
  BY <1>1, <1>2 DEF OrderItem, TypeOK
<1>4. CASE doc # NoRecord
  <2>1. /\ Hold(p, Stocked(doc, qty), "SaveRecord")
        /\ wrapped' = (wrapped \/ doc.stock + qty > MaxInt)
        /\ UNCHANGED <<idx, supply, taken, returned>>
    BY <1>4 DEF CancelGetRecord, Restorable
  <2>2. wrapped' \in BOOLEAN
    BY <1>1, <2>1 DEF TypeOK
  <2> QED
    BY <1>1, <1>3, <1>4, <2>1, <2>2, StockedDoc, HoldTyped
<1>5. CASE doc = NoRecord
  <2>1. /\ idx' = [idx EXCEPT ![p] = @ + 1]
        /\ Goto(p, NextLine(p, Len(ord[p].items), "SaveOrder"))
        /\ UNCHANGED <<store, rec, ord, resp, history>>
    BY <1>5 DEF CancelGetRecord, Restorable
  <2>2. NextLine(p, Len(ord[p].items), "SaveOrder") \in {"SaveOrder", "GetRecord"}
    BY DEF NextLine
  <2>3. TypeOK'
    BY <1>1, <2>1, <2>2 DEF TypeOK, Goto, Calls, store, history
  <2>4. Control(p)'
    BY <1>1, <1>2, <2>1, NextLineCases DEF Control, Goto, Calls, CallsOf, Serving, Serves, At, TypeOK
  <2>5. ControlOK'
    BY <1>1, <2>1, <2>4, OthersControl DEF Goto, TypeOK
  <2>6. NoEmptyOrder'
    BY <2>1 DEF Typed, NoEmptyOrder, store
  <2> QED
    BY <2>3, <2>5, <2>6 DEF Typed
<1> QED
  BY <1>4, <1>5

\* What ReplaceOne leaves in the collection.
LEMMA ReplaceTyped ==
    ASSUME TypeOK, NEW p, rec[p] \in Doc, NEW r \in Records, Replace(p, r)
    PROVE  records' \in [Records -> Doc \union {NoRecord}]
  BY DEF TypeOK, Replace

\* The SaveRecord of CancelOrder keeps the types and the loop in its bounds.
LEMMA CancelSaveRecordTyped ==
    ASSUME Typed, NEW p \in Requests, CancelSaveRecord(p)
    PROVE  Typed'
<1> DEFINE r == Ordered(p).id
<1> DEFINE qty == Ordered(p).qty
<1>1. TypeOK /\ Control(p) /\ At(p, "cancel", "SaveRecord")
  BY DEF Typed, ControlOK, CancelSaveRecord
<1>2. /\ Ordered(p) \in OrderItem /\ ord[p] \in Order /\ ord[p].items # << >> /\ rec[p] \in Doc
      /\ Len(ord[p].items) \in Nat /\ idx[p] \in 1..Len(ord[p].items)
  BY <1>1, Cancelling DEF Calls
<1>3. r \in Records /\ qty \in Nat
  BY <1>2, StockRange DEF OrderItem
<1>4. /\ Replace(p, r) /\ returned' = Gain(returned, r, qty)
      /\ UNCHANGED <<orders, req, supply, taken, wrapped>>
  BY DEF CancelSaveRecord
<1>5. records' \in [Records -> Doc \union {NoRecord}] /\ returned' \in [Records -> Nat]
  BY <1>1, <1>2, <1>3, <1>4, ReplaceTyped DEF Gain, TypeOK
<1>6. NoEmptyOrder'
  BY <1>4 DEF Typed, NoEmptyOrder
<1>7. CASE Return(p, 500)
  BY <1>1, <1>4, <1>5, <1>6, <1>7, ReturnTyped DEF Typed, TypeOK, At, Codes
<1>8. CASE /\ idx' = [idx EXCEPT ![p] = @ + 1]
           /\ Goto(p, NextLine(p, Len(ord[p].items), "SaveOrder"))
           /\ UNCHANGED <<rec, ord, resp>>
  <2>1. NextLine(p, Len(ord[p].items), "SaveOrder") \in {"SaveOrder", "GetRecord"}
    BY DEF NextLine
  <2>2. TypeOK'
    BY <1>1, <1>4, <1>5, <1>8, <2>1 DEF TypeOK, Goto, Calls
  <2>3. Control(p)'
    BY <1>1, <1>2, <1>4, <1>8, NextLineCases DEF Control, Goto, Calls, CallsOf, Serving, Serves, At, TypeOK
  <2>4. ControlOK'
    BY <1>1, <1>4, <1>8, <2>3, OthersControl DEF Goto, TypeOK
  <2> QED
    BY <1>6, <2>2, <2>4 DEF Typed
<1> QED
  BY <1>7, <1>8 DEF CancelSaveRecord

\* The SaveOrder of CancelOrder keeps the types.
LEMMA CancelSaveOrderTyped ==
    ASSUME Typed, NEW p \in Requests, CancelSaveOrder(p)
    PROVE  Typed'
<1>1. TypeOK /\ At(p, "cancel", "SaveOrder")
  BY DEF Typed, CancelSaveOrder
<1>2. ord[p] \in Order /\ ord[p].items # << >> /\ req[p].order \in Requests
  BY <1>1, Cancelling DEF Calls
<1>3. AsCancelled(p) \in Order /\ AsCancelled(p).items # << >>
  BY <1>2 DEF AsCancelled, Order
<1>4. NoEmptyOrder' /\ orders' \in [Requests -> Order \union {NoOrder}]
  BY <1>1, <1>2, <1>3 DEF CancelSaveOrder, Typed, NoEmptyOrder, TypeOK
<1>5. Return(p, 204) \/ Return(p, 500)
  BY WrittenReturns DEF CancelSaveOrder
<1> QED
  BY <1>1, <1>4, <1>5, ReturnTyped DEF CancelSaveOrder, Typed, TypeOK, At, Codes, history

\* A handler that ends by writing back its copy keeps the types.
LEMMA SaveBackTyped ==
    ASSUME Typed, NEW p \in Requests, NEW op, At(p, op, "SaveRecord"),
           req[p].id \in Records, NEW n \in Nat, NEW code \in Codes, SaveBack(p, n, code)
    PROVE  Typed'
<1>1. TypeOK /\ Control(p)
  BY DEF Typed, ControlOK
<1>2. rec[p] \in Doc
  BY <1>1 DEF Control, At
<1>3. records' \in [Records -> Doc \union {NoRecord}] /\ supply' \in [Records -> Nat]
  BY <1>1, <1>2, ReplaceTyped DEF SaveBack, Gain, TypeOK
<1>4. NoEmptyOrder'
  BY DEF SaveBack, Typed, NoEmptyOrder
<1>5. Return(p, code) \/ Return(p, 500)
  BY WrittenReturns DEF SaveBack
<1> QED
  BY <1>1, <1>3, <1>4, <1>5, ReturnTyped DEF SaveBack, Typed, TypeOK, At, Codes

\* RestockRecord keeps the types.
LEMMA RestockTyped ==
    ASSUME Typed, NEW p \in Requests, Restock(p)
    PROVE  Typed'
<1> DEFINE doc == records[req[p].id]
<1> DEFINE qty == req[p].qty
<1>1. TypeOK
  BY DEF Typed
<1>2. At(p, "restock", "GetRecord") \/ At(p, "restock", "SaveRecord")
  BY DEF Restock, RestockGetRecord, RestockSaveRecord
<1>3. req[p] \in RestockRequest
  BY <1>1, <1>2, RequestFields DEF At, TypeOK
<1>4. req[p].id \in Records /\ qty \in Quantities /\ qty \in Nat
  BY <1>3, StockRange DEF RestockRequest
<1>5. doc \in Doc \union {NoRecord}
  BY <1>1, <1>4 DEF TypeOK
<1>6. CASE RestockGetRecord(p)
  <2>1. CASE Refuse(p, 404) \/ Refuse(p, 409)
    BY <1>6, <2>1, RefuseTyped DEF RestockGetRecord, At, Codes
  <2>2. CASE /\ doc # NoRecord
             /\ Hold(p, Stocked(doc, qty), "SaveRecord")
             /\ wrapped' = (wrapped \/ doc.stock + qty > MaxInt)
             /\ UNCHANGED <<idx, supply, taken, returned>>
    <3>1. wrapped' \in BOOLEAN
      BY <1>1, <2>2 DEF TypeOK
    <3> QED
      BY <1>4, <1>5, <1>6, <2>2, <3>1, StockedDoc, HoldTyped DEF RestockGetRecord
  <2> QED
    BY <1>6, <2>1, <2>2 DEF RestockGetRecord
<1>7. CASE RestockSaveRecord(p)
  BY <1>4, <1>7, SaveBackTyped DEF RestockSaveRecord, Codes
<1> QED
  BY <1>6, <1>7 DEF Restock

\* The copy UpdateRecord changes is a record.
LEMMA PatchDoc ==
    ASSUME NEW doc \in Doc, NEW q \in UpdateRequest
    PROVE  Patch(doc, q) \in Doc
<1>1. q.stock \in (-MaxInt - 1)..MaxInt
  BY StockRange DEF UpdateRequest
<1> QED
  BY <1>1 DEF Patch, Doc, UpdateRequest

\* UpdateRecord keeps the types.
LEMMA UpdateTyped ==
    ASSUME Typed, NEW p \in Requests, Update(p)
    PROVE  Typed'
<1> DEFINE doc == records[req[p].id]
<1>1. TypeOK
  BY DEF Typed
<1>2. At(p, "update", "GetRecord") \/ At(p, "update", "SaveRecord")
  BY DEF Update, UpdateGetRecord, UpdateSaveRecord
<1>3. req[p] \in UpdateRequest
  BY <1>1, <1>2, RequestFields DEF At, TypeOK
<1>4. req[p].id \in Records /\ req[p].stock \in Nat
  BY <1>3, StockRange DEF UpdateRequest
<1>5. doc \in Doc \union {NoRecord}
  BY <1>1, <1>4 DEF TypeOK
<1>6. CASE UpdateGetRecord(p)
  <2>1. CASE Refuse(p, 404)
    BY <1>6, <2>1, RefuseTyped DEF UpdateGetRecord, At, Codes
  <2>2. CASE doc # NoRecord /\ Hold(p, Patch(doc, req[p]), "SaveRecord") /\ UNCHANGED <<idx, history>>
    <3>1. Patch(doc, req[p]) \in Doc
      BY <1>3, <1>5, <2>2, PatchDoc
    <3> QED
      BY <1>1, <1>6, <2>2, <3>1, HoldTyped DEF UpdateGetRecord, TypeOK, history
  <2> QED
    BY <1>6, <2>1, <2>2 DEF UpdateGetRecord
<1>7. CASE UpdateSaveRecord(p)
  BY <1>4, <1>7, SaveBackTyped DEF UpdateSaveRecord, Codes
<1> QED
  BY <1>6, <1>7 DEF Update

\* ArchiveRecord keeps the types.
LEMMA ArchiveTyped ==
    ASSUME Typed, NEW p \in Requests, Archive(p)
    PROVE  Typed'
<1> DEFINE doc == records[req[p].id]
<1>1. TypeOK
  BY DEF Typed
<1>2. At(p, "archive", "GetRecord") \/ At(p, "archive", "SaveRecord")
  BY DEF Archive, ArchiveGetRecord, ArchiveSaveRecord
<1>3. req[p] \in ArchiveRequest
  BY <1>1, <1>2, RequestFields DEF At, TypeOK
<1>4. req[p].id \in Records /\ doc \in Doc \union {NoRecord}
  BY <1>1, <1>3 DEF TypeOK, ArchiveRequest
<1>5. CASE ArchiveGetRecord(p)
  <2>1. CASE Refuse(p, 404) \/ Refuse(p, 409)
    BY <1>5, <2>1, RefuseTyped DEF ArchiveGetRecord, At, Codes
  <2>2. CASE /\ doc # NoRecord
             /\ Hold(p, [doc EXCEPT !.archived = TRUE], "SaveRecord")
             /\ UNCHANGED <<idx, history>>
    <3>1. [doc EXCEPT !.archived = TRUE] \in Doc
      BY <1>4, <2>2 DEF Doc
    <3> QED
      BY <1>1, <1>5, <2>2, <3>1, HoldTyped DEF ArchiveGetRecord, TypeOK, history
  <2> QED
    BY <1>5, <2>1, <2>2 DEF ArchiveGetRecord
<1>6. CASE ArchiveSaveRecord(p)
  BY <1>4, <1>6, SaveBackTyped DEF ArchiveSaveRecord, Codes
<1> QED
  BY <1>5, <1>6 DEF Archive

\* CreateRecord keeps the types.
LEMMA AddTyped ==
    ASSUME Typed, NEW p \in Requests, AddSaveRecord(p)
    PROVE  Typed'
<1>1. req[p] \in AddRequest
  BY RequestFields DEF AddSaveRecord, At, Typed, TypeOK
<1>2. req[p].id \in Records /\ req[p].stock \in Nat
  BY <1>1, StockRange DEF AddRequest
<1> QED
  BY <1>2, SaveBackTyped DEF AddSaveRecord, Codes

\* A failing store call keeps the types.
LEMMA StoreErrorTyped ==
    ASSUME Typed, NEW p \in Requests, StoreError(p)
    PROVE  Typed'
<1>1. req[p] # NoRequest
  BY DEF Typed, ControlOK, Control, StoreError, Calls
<1> QED
  BY <1>1, RefuseTyped DEF StoreError, Codes

\* Every step keeps the types and the control state.
LEMMA TypedStep == Typed /\ [Next]_vars => Typed'
<1> SUFFICES ASSUME Typed, [Next]_vars PROVE Typed'
  OBVIOUS
<1>1. ASSUME NEW p \in Requests, Accept(p) PROVE Typed'
  BY <1>1, AcceptTyped
<1>2. ASSUME NEW p \in Requests, Create(p) PROVE Typed'
  BY <1>2, CreateGetRecordTyped, CreateDecrementStockTyped, CreateSaveOrderTyped DEF Create
<1>3. ASSUME NEW p \in Requests, Cancel(p) PROVE Typed'
  BY <1>3, CancelGetOrderTyped, CancelGetRecordTyped, CancelSaveRecordTyped, CancelSaveOrderTyped DEF Cancel
<1>4. ASSUME NEW p \in Requests, Restock(p) \/ Update(p) \/ Archive(p) \/ AddSaveRecord(p) PROVE Typed'
  BY <1>4, RestockTyped, UpdateTyped, ArchiveTyped, AddTyped
<1>5. ASSUME NEW p \in Requests, StoreError(p) PROVE Typed'
  BY <1>5, StoreErrorTyped
<1>6. CASE UNCHANGED vars
  BY <1>6 DEF vars, store, locals, history, Typed, TypeOK, ControlOK, Control, Serving, Serves, NoEmptyOrder
<1> QED
  BY <1>1, <1>2, <1>3, <1>4, <1>5, <1>6 DEF Next, Serve

\* The types and the control state hold in every reachable state.
LEMMA TypedAlways == Spec => []Typed
  BY TypedInit, TypedStep, PTL DEF Spec

\* In every reachable state every variable has its type, stocks stay Go ints
\* and every handler is where its operation can be.
THEOREM TypeCorrect == Spec => []TypeOK
<1>1. Typed => TypeOK
  BY DEF Typed
<1> QED
  BY <1>1, TypedAlways, PTL
-----------------------------------------------------------------------------
(***************************************************************************)
(* The orders: they are what was asked, they never change but to be        *)
(* cancelled, and an answer given stays true.                              *)
(***************************************************************************)

\* The items are the first n lines of request p.
Lines(items, n, p) ==
    /\ Len(items) = n
    /\ \A i \in 1..n : items[i].id = req[p].items[i].id /\ items[i].qty = req[p].items[i].qty

Stored(o) == orders[o] # NoOrder => /\ req[o] # NoRequest /\ req[o].op = "create"
                                    /\ orders[o].user = req[o].user
                                    /\ Lines(orders[o].items, Len(req[o].items), o)

\* CreateOrder has appended the lines before idx, and nobody has stored its order.
Building(p) == Serves(p, "create") => /\ orders[p] = NoOrder
                                      /\ ord[p].user = req[p].user
                                      /\ ord[p].status = "pending"
                                      /\ Lines(ord[p].items, idx[p] - 1, p)
                                      /\ pc[p] = "SaveOrder" => idx[p] = Len(req[p].items) + 1

\* The order CancelOrder has read is still the stored one but for its status,
\* and the caller had the right to cancel it.
Copying(p) == Serves(p, "cancel") /\ pc[p] # "GetOrder" =>
                  /\ orders[req[p].order] # NoOrder
                  /\ ord[p].user = orders[req[p].order].user
                  /\ ord[p].items = orders[req[p].order].items
                  /\ MayAccess(req[p].user, ord[p])

Promise(p) == /\ Answered(p, "create", 201) => orders[p] # NoOrder
              /\ Answered(p, "cancel", 204) => Cancelled(req[p].order)

ByRight(o) == Cancelled(o) =>
    \E p \in Requests : /\ req[p] # NoRequest /\ req[p].op = "cancel" /\ req[p].order = o
                        /\ req[p].user \in Admins \union {orders[o].user}

OrdersOK == /\ \A o \in Requests : Stored(o) /\ ByRight(o)
            /\ \A p \in Requests : Building(p) /\ Copying(p) /\ Promise(p)

\* No order, no cart and no answer: the invariant holds at the start.
LEMMA OrdersInit == Init => OrdersOK
  BY DEF Init, OrdersOK, Stored, ByRight, Building, Copying, Promise, Serves, Serving, Calls, Cancelled, Answered

\* The documents after a step of p: none is lost, and a stored one changes only
\* to be cancelled.
Frozen == \A o \in Requests : orders[o] # NoOrder =>
              /\ orders'[o] # NoOrder
              /\ orders'[o] \in {orders[o], [orders[o] EXCEPT !.status = "cancelled"]}

\* A step of p leaves the variables of the other handlers and all requests
\* already received alone.
OnlyMoves(p) ==
    /\ \A q \in Requests : req[q] # NoRequest => req'[q] = req[q]
    /\ \A q \in Requests \ {p} : /\ pc'[q] = pc[q] /\ req'[q] = req[q] /\ ord'[q] = ord[q]
                                 /\ idx'[q] = idx[q] /\ resp'[q] = resp[q]

\* A cancelled copy of an order differs from it in the status only.
LEMMA FrozenFields ==
    ASSUME Typed, Frozen, NEW o \in Requests, orders[o] # NoOrder
    PROVE  /\ orders'[o].user = orders[o].user
           /\ orders'[o].items = orders[o].items
           /\ orders'[o].status \in {orders[o].status, "cancelled"}
           /\ orders[o].status = "cancelled" => orders'[o] = orders[o]
<1>1. orders[o] \in Order
  BY DEF Typed, TypeOK
<1> QED
  BY <1>1 DEF Frozen, Order

\* A step of p that leaves the orders alone keeps what concerns the others.
LEMMA OrdersFrame ==
    ASSUME Typed, Typed', OrdersOK, NEW p \in Requests, OnlyMoves(p), Frozen,
           \A o \in Requests \ {p} : orders[o] = NoOrder => orders'[o] = NoOrder,
           orders[p] = NoOrder => Stored(p)',
           \A o \in Requests : Cancelled(o)' => Cancelled(o) \/ ByRight(o)',
           Building(p)', Copying(p)', Promise(p)'
    PROVE  OrdersOK'
<1>1. ASSUME NEW o \in Requests PROVE Stored(o)'
  <2>1. CASE orders[o] # NoOrder
    <3>1. Stored(o)
      BY DEF OrdersOK
    <3>2. req'[o] = req[o]
      BY <2>1, <3>1 DEF Stored, OnlyMoves
    <3> QED
      BY <2>1, <3>1, <3>2, FrozenFields DEF Stored, Lines
  <2>2. CASE orders[o] = NoOrder
    BY <2>2 DEF Stored
  <2> QED
    BY <2>1, <2>2
<1>2. ASSUME NEW o \in Requests PROVE ByRight(o)'
  <2>1. CASE Cancelled(o)
    <3>1. PICK q \in Requests : /\ req[q] # NoRequest /\ req[q].op = "cancel" /\ req[q].order = o
                                /\ req[q].user \in Admins \union {orders[o].user}
      BY <2>1 DEF OrdersOK, ByRight
    <3>2. req'[q] = req[q]
      BY <3>1 DEF OnlyMoves
    <3> QED
      BY <2>1, <3>1, <3>2, FrozenFields DEF ByRight, Cancelled
  <2>2. CASE ~ Cancelled(o)
    BY <2>2 DEF ByRight
  <2> QED
    BY <2>1, <2>2
<1>3. ASSUME NEW q \in Requests \ {p} PROVE Building(q)'
  <2>1. Building(q)
    BY DEF OrdersOK
  <2> QED
    BY <1>3, <2>1 DEF Building, Serves, Serving, Lines, OnlyMoves
<1>4. ASSUME NEW q \in Requests \ {p} PROVE Copying(q)'
  <2>1. Copying(q)
    BY DEF OrdersOK
  <2>2. CASE Serves(q, "cancel") /\ pc[q] # "GetOrder"
    <3>1. req[q].order \in Requests
      <4>1. At(q, "cancel", pc[q]) /\ pc[q] \in Calls
        BY <2>2 DEF At, Serves, Serving, Typed, ControlOK, Control, Calls
      <4> QED
        BY <4>1, Cancelling
    <3> QED
      BY <1>4, <2>1, <2>2, <3>1, FrozenFields DEF Copying, Frozen, Serves, Serving, OnlyMoves, MayAccess
  <2>3. CASE ~ (Serves(q, "cancel") /\ pc[q] # "GetOrder")
    BY <1>4, <2>3 DEF Copying, Serves, Serving, OnlyMoves
  <2> QED
    BY <2>2, <2>3
<1>5. ASSUME NEW q \in Requests \ {p} PROVE Promise(q)'
  <2>1. Promise(q) /\ req'[q] = req[q] /\ resp'[q] = resp[q]
    BY DEF OrdersOK, OnlyMoves
  <2>2. Answered(q, "cancel", 204) => req[q].order \in Requests
    <3> HAVE Answered(q, "cancel", 204)
    <3>1. pc[q] = "done" /\ req[q] # NoRequest
      BY DEF Answered, Typed, ControlOK, Control
    <3>2. req[q] \in Request
      BY <3>1 DEF Typed, TypeOK
    <3> QED
      BY <3>2, RequestFields DEF Answered, CancelRequest
  <2>3. ASSUME NEW o \in Requests, Cancelled(o) PROVE Cancelled(o)'
    BY <2>3, FrozenFields DEF Cancelled, Frozen
  <2> QED
    BY <2>1, <2>2, <2>3 DEF Promise, Answered, Frozen
<1> QED
  BY <1>1, <1>2, <1>3, <1>4, <1>5 DEF OrdersOK

\* A step that writes no order and ends no handler with a promise.
LEMMA OrdersKept ==
    ASSUME Typed, Typed', OrdersOK, NEW p \in Requests, OnlyMoves(p), UNCHANGED orders,
           Building(p)', Copying(p)', Promise(p)'
    PROVE  OrdersOK' /\ Frozen
<1>1. Frozen
  BY DEF Frozen
<1>2. \A o \in Requests : Cancelled(o)' => Cancelled(o)
  BY DEF Cancelled
<1>3. orders[p] = NoOrder => Stored(p)'
  BY DEF Stored
<1> QED
  BY <1>1, <1>2, <1>3, OrdersFrame

\* What an answer leaves of p: no order in its hands.
LEMMA ReturnMoves ==
    ASSUME Typed, NEW p \in Requests, NEW code, Return(p, code), UNCHANGED req
    PROVE  OnlyMoves(p) /\ Building(p)' /\ Copying(p)' /\ resp'[p] = code /\ req'[p] = req[p]
  BY DEF Return, OnlyMoves, Building, Copying, Serves, Serving, Calls, Typed, TypeOK

\* An answer other than a success keeps the invariant, if the orders stay as they are.
LEMMA ReturnOrders ==
    ASSUME Typed, Typed', OrdersOK, NEW p \in Requests, NEW code,
           Return(p, code), UNCHANGED <<req, orders>>,
           req[p].op = "create" => code # 201,
           req[p].op = "cancel" => code # 204
    PROVE  OrdersOK' /\ Frozen
<1>1. OnlyMoves(p) /\ Building(p)' /\ Copying(p)' /\ resp'[p] = code /\ req'[p] = req[p]
  BY ReturnMoves
<1>2. Promise(p)'
  BY <1>1 DEF Promise, Answered
<1> QED
  BY <1>1, <1>2, OrdersKept

\* A handler that refuses its request keeps the invariant.
LEMMA RefuseOrders ==
    ASSUME Typed, Typed', OrdersOK, NEW p \in Requests, NEW code \in {403, 404, 409, 500},
           Refuse(p, code), UNCHANGED req
    PROVE  OrdersOK' /\ Frozen
  BY ReturnOrders DEF Refuse, store

-----------------------------------------------------------------------------
(* One lemma per handler *)

\* The arrival of a request keeps the invariant.
LEMMA AcceptOrders ==
    ASSUME Typed, Typed', OrdersOK, NEW p \in Requests, Accept(p)
    PROVE  OrdersOK' /\ Frozen
<1>1. TypeOK /\ UNCHANGED <<orders, resp>> /\ pc[p] = "idle" /\ req[p] = NoRequest /\ resp[p] = 0
  BY DEF Typed, ControlOK, Control, Accept, store
<1>2. PICK q \in Request :
          /\ req' = [req EXCEPT ![p] = q]
          /\ Goto(p, FirstCall(q))
          /\ idx' = [idx EXCEPT ![p] = 1]
          /\ ord' = IF q.op = "create" THEN [ord EXCEPT ![p] = NewOrder(q.user)] ELSE ord
  BY DEF Accept
<1>3. OnlyMoves(p)
  BY <1>1, <1>2 DEF OnlyMoves, Goto, TypeOK
<1>4. orders[p] = NoOrder
  BY <1>1 DEF OrdersOK, Stored
<1>5. req'[p] = q /\ pc'[p] = FirstCall(q) /\ idx'[p] = 1
  BY <1>1, <1>2 DEF Goto, TypeOK
<1>6. q.op = "create" => ord'[p] = NewOrder(q.user)
  BY <1>1, <1>2 DEF TypeOK
<1>7. Building(p)'
  <2>1. Len(<< >>) = 0 /\ \A i \in 1..0 : FALSE
    OBVIOUS
  <2> QED
    BY <1>1, <1>4, <1>5, <1>6, <2>1 DEF Building, Serves, FirstCall, NewOrder, Lines
<1>8. Copying(p)'
  BY <1>5 DEF Copying, Serves, FirstCall
<1>9. Promise(p)'
  BY <1>1 DEF Promise, Answered
<1> QED
  BY <1>1, <1>3, <1>7, <1>8, <1>9, OrdersKept

\* A handler that holds a copy of a record goes on with its order as it is.
LEMMA HoldOrders ==
    ASSUME Typed, Typed', OrdersOK, NEW p \in Requests, NEW doc, NEW call \in {"DecrementStock", "SaveRecord"},
           pc[p] = "GetRecord", Hold(p, doc, call), UNCHANGED <<req, idx>>
    PROVE  OrdersOK' /\ Frozen
<1>1. TypeOK /\ pc'[p] = call /\ UNCHANGED <<orders, ord, resp>>
  BY DEF Typed, TypeOK, Hold, Goto, store
<1>2. OnlyMoves(p)
  BY <1>1 DEF OnlyMoves, Hold, Goto, TypeOK
<1>3. Building(p) /\ Copying(p) /\ Promise(p)
  BY DEF OrdersOK
<1>4. Building(p)' /\ Copying(p)' /\ Promise(p)'
  BY <1>1, <1>3 DEF Building, Copying, Promise, Serves, Serving, Calls, Lines, MayAccess, Answered, Cancelled
<1> QED
  BY <1>1, <1>2, <1>4, OrdersKept

\* The cart of CreateOrder grows by the line at hand.
LEMMA CreateDecrementStockOrders ==
    ASSUME Typed, Typed', OrdersOK, NEW p \in Requests, CreateDecrementStock(p)
    PROVE  OrdersOK' /\ Frozen
<1>1. TypeOK /\ At(p, "create", "DecrementStock") /\ UNCHANGED req
  BY DEF Typed, CreateDecrementStock
<1>2. CASE Refuse(p, 409)
  BY <1>1, <1>2, RefuseOrders
<1>3. CASE UNCHANGED orders /\ Return(p, 500)
  BY <1>1, <1>3, ReturnOrders
<1>4. CASE /\ UNCHANGED orders
           /\ ord' = [ord EXCEPT ![p].items = Append(@, Sold(p))]
           /\ idx' = [idx EXCEPT ![p] = @ + 1]
           /\ Goto(p, NextLine(p, Len(req[p].items), "SaveOrder"))
           /\ UNCHANGED <<rec, resp>>
  <2> DEFINE items == ord[p].items
  <2> DEFINE last == Len(req[p].items)
  <2>1. ord[p] \in Order /\ last \in Nat /\ idx[p] \in 1..last /\ Line(p) \in Item /\ rec[p] \in Doc
    BY <1>1, Creating DEF Calls
  <2>2. Building(p) /\ Promise(p) /\ Serves(p, "create")
    BY <1>1 DEF OrdersOK, At, Serves, Serving, Calls
  <2>3. Sold(p) \in OrderItem
    BY <2>1 DEF Sold, OrderItem, Item, Doc
  <2>4. items \in Seq(OrderItem) /\ Len(items) = idx[p] - 1
    BY <2>1, <2>2 DEF Order, Building, Lines
  <2>5. /\ Len(Append(items, Sold(p))) = idx[p]
        /\ \A i \in 1..(idx[p] - 1) : Append(items, Sold(p))[i] = items[i]
        /\ Append(items, Sold(p))[idx[p]] = Sold(p)
    BY <2>1, <2>3, <2>4, AppendProperties
  <2>6. /\ ord'[p] = [ord[p] EXCEPT !.items = Append(items, Sold(p))]
        /\ ord'[p].user = ord[p].user /\ ord'[p].status = ord[p].status
        /\ ord'[p].items = Append(items, Sold(p))
    BY <1>1, <1>4, <2>1 DEF TypeOK, Order
  <2>7. idx'[p] = idx[p] + 1 /\ req'[p] = req[p]
    BY <1>1, <1>4 DEF TypeOK
  <2>8. pc'[p] = NextLine(p, last, "SaveOrder")
    BY <1>1, <1>4 DEF Goto, TypeOK
  <2>9. Sold(p).id = req[p].items[idx[p]].id /\ Sold(p).qty = req[p].items[idx[p]].qty
    BY DEF Sold, Line
  <2>10. Lines(ord'[p].items, idx[p], p)
    <3>1. \A i \in 1..idx[p] : i \in 1..(idx[p] - 1) \/ i = idx[p]
      BY <2>1
    <3>2. Lines(items, idx[p] - 1, p)
      BY <2>2 DEF Building
    <3> QED
      BY <2>5, <2>6, <2>9, <3>1, <3>2 DEF Lines
  <2>11. Building(p)'
    <3>1. Lines(ord[p].items, idx[p] - 1, p)'
      BY <2>1, <2>7, <2>10 DEF Lines
    <3>2. pc'[p] = "SaveOrder" => idx'[p] = last + 1
      BY <2>1, <2>7, <2>8 DEF NextLine
    <3> QED
      BY <1>4, <2>2, <2>6, <2>7, <3>1, <3>2 DEF Building
  <2>12. Copying(p)' /\ Promise(p)'
    BY <1>1, <1>4, <2>2, <2>7 DEF Copying, Promise, Serves, At, Answered, Cancelled
  <2>13. OnlyMoves(p)
    BY <1>1, <1>4 DEF OnlyMoves, Goto, TypeOK
  <2> QED
    BY <1>4, <2>11, <2>12, <2>13, OrdersKept
<1> QED
  BY <1>2, <1>3, <1>4 DEF CreateDecrementStock

\* The order CreateOrder saves is the request, line by line.
LEMMA CreateSaveOrderOrders ==
    ASSUME Typed, Typed', OrdersOK, NEW p \in Requests, CreateSaveOrder(p)
    PROVE  OrdersOK' /\ Frozen
<1>1. TypeOK /\ At(p, "create", "SaveOrder") /\ UNCHANGED req
  BY DEF Typed, CreateSaveOrder
<1>2. ord[p] \in Order /\ Len(req[p].items) \in Nat
  BY <1>1, Creating DEF Calls
<1>3. Building(p) /\ Serves(p, "create")
  BY <1>1 DEF OrdersOK, At, Serves, Serving, Calls
<1>4. /\ orders[p] = NoOrder /\ ord[p].user = req[p].user /\ ord[p].status = "pending"
      /\ Lines(ord[p].items, Len(req[p].items), p)
  BY <1>1, <1>2, <1>3 DEF Building, At
<1>5. orders'[p] = ord[p] /\ \A o \in Requests \ {p} : orders'[o] = orders[o]
  BY <1>1 DEF CreateSaveOrder, TypeOK
<1>6. PICK code \in {201, 500} : Return(p, code)
  BY WrittenReturns DEF CreateSaveOrder
<1>7. OnlyMoves(p) /\ Building(p)' /\ Copying(p)' /\ req'[p] = req[p]
  BY <1>1, <1>6, ReturnMoves
<1>8. orders'[p] # NoOrder
  BY <1>2, <1>5, SentinelAssumption
<1>9. Frozen
  BY <1>4, <1>5 DEF Frozen
<1>10. Promise(p)'
  BY <1>1, <1>7, <1>8 DEF Promise, Answered, At
<1>11. Stored(p)'
  BY <1>1, <1>4, <1>5, <1>7 DEF Stored, Lines, At
<1>12. \A o \in Requests : Cancelled(o)' => Cancelled(o)
  BY <1>4, <1>5 DEF Cancelled
<1> QED
  BY <1>5, <1>7, <1>9, <1>10, <1>11, <1>12, OrdersFrame

\* Every store call of CreateOrder keeps the invariant.
LEMMA CreateOrders ==
    ASSUME Typed, Typed', OrdersOK, NEW p \in Requests, Create(p)
    PROVE  OrdersOK' /\ Frozen
<1>1. CASE CreateGetRecord(p)
  BY <1>1, RefuseOrders, HoldOrders DEF CreateGetRecord, At
<1> QED
  BY <1>1, CreateDecrementStockOrders, CreateSaveOrderOrders DEF Create

\* CancelOrder goes on only with an order its caller may cancel.
LEMMA CancelGetOrderOrders ==
    ASSUME Typed, Typed', OrdersOK, NEW p \in Requests, CancelGetOrder(p)
    PROVE  OrdersOK' /\ Frozen
<1> DEFINE order == orders[req[p].order]
<1>1. TypeOK /\ At(p, "cancel", "GetOrder") /\ UNCHANGED req
  BY DEF Typed, CancelGetOrder
<1>2. CASE Refuse(p, 404) \/ Refuse(p, 403) \/ Refuse(p, 409)
  BY <1>1, <1>2, RefuseOrders
<1>3. CASE /\ order # NoOrder /\ MayAccess(req[p].user, order)
           /\ ord' = [ord EXCEPT ![p] = order]
           /\ Goto(p, "GetRecord")
           /\ UNCHANGED <<store, rec, idx, resp, history>>
  <2>1. UNCHANGED orders /\ ord'[p] = order /\ pc'[p] = "GetRecord" /\ req'[p] = req[p] /\ resp'[p] = resp[p]
    BY <1>1, <1>3 DEF store, Goto, TypeOK
  <2>2. Copying(p)'
    BY <1>1, <1>3, <2>1 DEF Copying, MayAccess
  <2>3. Building(p)' /\ Promise(p)'
    BY <1>1, <2>1 DEF OrdersOK, Building, Promise, Serves, At, Answered, Cancelled
  <2>4. OnlyMoves(p)
    BY <1>1, <1>3 DEF OnlyMoves, Goto, TypeOK
  <2> QED
    BY <2>1, <2>2, <2>3, <2>4, OrdersKept
<1> QED
  BY <1>2, <1>3 DEF CancelGetOrder

\* The loop of CancelOrder leaves the orders alone.
LEMMA CancelLoopOrders ==
    ASSUME Typed, Typed', OrdersOK, NEW p \in Requests, NEW call \in {"GetRecord", "SaveRecord"},
           At(p, "cancel", call),
           idx' = [idx EXCEPT ![p] = @ + 1],
           Goto(p, NextLine(p, Len(ord[p].items), "SaveOrder")),
           UNCHANGED <<orders, ord, resp, req>>
    PROVE  OrdersOK' /\ Frozen
<1>1. TypeOK /\ Copying(p) /\ Promise(p)
  BY DEF Typed, OrdersOK
<1>2. pc'[p] \in {"GetRecord", "SaveOrder"}
  BY <1>1 DEF Goto, NextLine, TypeOK
<1>3. OnlyMoves(p)
  BY <1>1 DEF OnlyMoves, Goto, TypeOK
<1>4. Building(p)' /\ Copying(p)' /\ Promise(p)'
  BY <1>1, <1>2 DEF Building, Copying, Promise, Serves, Serving, Calls, At, MayAccess, Answered, Cancelled
<1> QED
  BY <1>3, <1>4, OrdersKept

\* Reading a record of the order changes no order.
LEMMA CancelGetRecordOrders ==
    ASSUME Typed, Typed', OrdersOK, NEW p \in Requests, CancelGetRecord(p)
    PROVE  OrdersOK' /\ Frozen
<1>1. At(p, "cancel", "GetRecord") /\ UNCHANGED req
  BY DEF CancelGetRecord
<1>2. CASE records[Ordered(p).id] # NoRecord
  BY <1>1, <1>2, HoldOrders DEF CancelGetRecord, Restorable, At
<1>3. CASE records[Ordered(p).id] = NoRecord
  BY <1>1, <1>3, CancelLoopOrders DEF CancelGetRecord, Restorable, store
<1> QED
  BY <1>2, <1>3

\* Restoring the stock of a line changes no order.
LEMMA CancelSaveRecordOrders ==
    ASSUME Typed, Typed', OrdersOK, NEW p \in Requests, CancelSaveRecord(p)
    PROVE  OrdersOK' /\ Frozen
<1>1. At(p, "cancel", "SaveRecord") /\ UNCHANGED <<req, orders>>
  BY DEF CancelSaveRecord
<1>2. CASE Return(p, 500)
  BY <1>1, <1>2, ReturnOrders
<1>3. CASE /\ idx' = [idx EXCEPT ![p] = @ + 1]
           /\ Goto(p, NextLine(p, Len(ord[p].items), "SaveOrder"))
           /\ UNCHANGED <<rec, ord, resp>>
  BY <1>1, <1>3, CancelLoopOrders
<1> QED
  BY <1>2, <1>3 DEF CancelSaveRecord

\* The order CancelOrder saves is the stored one, cancelled.
LEMMA CancelSaveOrderOrders ==
    ASSUME Typed, Typed', OrdersOK, NEW p \in Requests, CancelSaveOrder(p)
    PROVE  OrdersOK' /\ Frozen
<1>1. TypeOK /\ At(p, "cancel", "SaveOrder") /\ UNCHANGED req
  BY DEF Typed, CancelSaveOrder
<1>2. ord[p] \in Order /\ req[p].order \in Requests
  BY <1>1, Cancelling DEF Calls
<1>3. Copying(p) /\ Serves(p, "cancel")
  BY <1>1 DEF OrdersOK, At, Serves, Serving, Calls
<1>4. PICK o \in Requests : o = req[p].order
  BY <1>2
<1>5. /\ orders[o] \in Order /\ orders[o] # NoOrder
      /\ ord[p].user = orders[o].user /\ ord[p].items = orders[o].items
      /\ MayAccess(req[p].user, ord[p])
  BY <1>1, <1>3, <1>4 DEF Copying, At, TypeOK
<1>6. AsCancelled(p) = [orders[o] EXCEPT !.status = "cancelled"]
  BY <1>2, <1>5 DEF AsCancelled, Order
<1>7. /\ orders'[o] = [orders[o] EXCEPT !.status = "cancelled"]
      /\ \A s \in Requests \ {o} : orders'[s] = orders[s]
  BY <1>1, <1>4, <1>6 DEF CancelSaveOrder, TypeOK
<1>8. orders'[o] \in Order /\ orders'[o].status = "cancelled" /\ orders'[o].user = orders[o].user
  BY <1>5, <1>7 DEF Order
<1>9. orders'[o] # NoOrder
  BY <1>8, SentinelAssumption
<1>10. Frozen
  BY <1>7, <1>9 DEF Frozen
<1>11. PICK code \in {204, 500} : Return(p, code)
  BY WrittenReturns DEF CancelSaveOrder
<1>12. OnlyMoves(p) /\ Building(p)' /\ Copying(p)' /\ req'[p] = req[p]
  BY <1>1, <1>11, ReturnMoves
<1>13. Promise(p)'
  BY <1>1, <1>4, <1>8, <1>9, <1>12 DEF Promise, Answered, At, Cancelled
<1>14. ASSUME NEW s \in Requests, Cancelled(s)' PROVE Cancelled(s) \/ ByRight(s)'
  <2>1. CASE s = o
    <3>1. req'[p] # NoRequest /\ req'[p].op = "cancel" /\ req'[p].order = o
      BY <1>1, <1>4, <1>12 DEF At
    <3>2. req'[p].user \in Admins \union {orders'[o].user}
      BY <1>5, <1>8, <1>12 DEF MayAccess
    <3> QED
      BY <2>1, <3>1, <3>2 DEF ByRight
  <2>2. CASE s # o
    BY <1>7, <1>14, <2>2 DEF Cancelled
  <2> QED
    BY <2>1, <2>2
<1>15. \A s \in Requests : orders[s] = NoOrder => orders'[s] = NoOrder
  BY <1>5, <1>7
<1>16. orders[p] = NoOrder => Stored(p)'
  BY <1>15 DEF Stored
<1> QED
  BY <1>10, <1>12, <1>13, <1>14, <1>15, <1>16, OrdersFrame

\* Every store call of CancelOrder keeps the invariant.
LEMMA CancelOrders ==
    ASSUME Typed, Typed', OrdersOK, NEW p \in Requests, Cancel(p)
    PROVE  OrdersOK' /\ Frozen
  BY CancelGetOrderOrders, CancelGetRecordOrders, CancelSaveRecordOrders, CancelSaveOrderOrders DEF Cancel

\* The handlers of records do not touch orders.
LEMMA RecordHandlersOrders ==
    ASSUME Typed, Typed', OrdersOK, NEW p \in Requests,
           Restock(p) \/ Update(p) \/ Archive(p) \/ AddSaveRecord(p)
    PROVE  OrdersOK' /\ Frozen
<1>1. ASSUME NEW n, NEW code, NEW op \in {"restock", "update", "archive", "add"},
             At(p, op, "SaveRecord"), SaveBack(p, n, code)
      PROVE  OrdersOK' /\ Frozen
  BY <1>1, ReturnOrders, WrittenReturns DEF SaveBack, At
<1>2. CASE Restock(p)
  BY <1>1, <1>2, RefuseOrders, HoldOrders DEF Restock, RestockGetRecord, RestockSaveRecord, At
<1>3. CASE Update(p)
  BY <1>1, <1>3, RefuseOrders, HoldOrders DEF Update, UpdateGetRecord, UpdateSaveRecord, At
<1>4. CASE Archive(p)
  BY <1>1, <1>4, RefuseOrders, HoldOrders DEF Archive, ArchiveGetRecord, ArchiveSaveRecord, At
<1>5. CASE AddSaveRecord(p)
  BY <1>1, <1>5 DEF AddSaveRecord
<1> QED
  BY <1>2, <1>3, <1>4, <1>5

\* Every step keeps the invariant, and stored orders but for their status.
LEMMA OrdersStep == Typed /\ Typed' /\ OrdersOK /\ [Next]_vars => OrdersOK' /\ Frozen
<1> SUFFICES ASSUME Typed, Typed', OrdersOK, [Next]_vars PROVE OrdersOK' /\ Frozen
  OBVIOUS
<1>1. ASSUME NEW p \in Requests, Accept(p) \/ Create(p) \/ Cancel(p) PROVE OrdersOK' /\ Frozen
  BY <1>1, AcceptOrders, CreateOrders, CancelOrders
<1>2. ASSUME NEW p \in Requests, Restock(p) \/ Update(p) \/ Archive(p) \/ AddSaveRecord(p)
      PROVE  OrdersOK' /\ Frozen
  BY <1>2, RecordHandlersOrders
<1>3. ASSUME NEW p \in Requests, StoreError(p) PROVE OrdersOK' /\ Frozen
  BY <1>3, RefuseOrders DEF StoreError
<1>4. CASE UNCHANGED vars
  <2>1. Frozen
    BY <1>4 DEF vars, store, Frozen
  <2>2. OrdersOK'
    BY <1>4 DEF vars, store, locals, OrdersOK, Stored, ByRight, Building, Copying, Promise,
                Serves, Serving, Lines, MayAccess, Answered, Cancelled
  <2> QED
    BY <2>1, <2>2
<1> QED
  BY <1>1, <1>2, <1>3, <1>4 DEF Next, Serve

\* The invariant about orders holds in every reachable state.
LEMMA OrdersAlways == Spec => []OrdersOK
  BY TypedAlways, OrdersInit, OrdersStep, PTL DEF Spec

\* A stored order is the order its request asked for, item by item.
THEOREM OrderMatchesRequestAlways == Spec => []OrderMatchesRequest
<1>1. OrdersOK => OrderMatchesRequest
  BY DEF OrdersOK, Stored, Lines, OrderMatchesRequest
<1> QED
  BY <1>1, OrdersAlways, PTL

\* An order whose creation was acknowledged exists, and a cancellation that was
\* acknowledged lasts.
THEOREM PromisesKeptAlways == Spec => []PromisesKept
<1>1. OrdersOK => PromisesKept
  BY DEF OrdersOK, Promise, PromisesKept
<1> QED
  BY <1>1, OrdersAlways, PTL

\* Only the owner of an order or an administrator ever gets it cancelled.
THEOREM CancelledByRightAlways == Spec => []CancelledByRight
<1>1. OrdersOK => CancelledByRight
  BY DEF OrdersOK, ByRight, CancelledByRight
<1> QED
  BY <1>1, OrdersAlways, PTL

\* The owner and the items of a stored order never change, nor is a cancelled
\* order ever pending again.
THEOREM OrderFrozenAlways == Spec => OrderFrozen
<1>1. Typed /\ Typed' /\ OrdersOK /\ [Next]_vars => [Frozen]_vars
  BY OrdersStep
<1>2. Spec => [][Frozen]_vars
  BY <1>1, TypedAlways, OrdersAlways, PTL DEF Spec
<1> QED
  BY <1>2 DEF OrderFrozen, Frozen
=============================================================================
