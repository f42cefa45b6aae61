-------------------------------- MODULE Shop --------------------------------
(***************************************************************************)
(* The handlers that write records and orders, running concurrently over   *)
(* the document store: CreateOrder and CancelOrder (handlers/order.go),    *)
(* CreateRecord, UpdateRecord and ArchiveRecord (handlers/record.go) and   *)
(* RestockRecord (handlers/inventory.go).                                  *)
(*                                                                         *)
(* Every HTTP request is a goroutine of its own.  The store is the only    *)
(* state they share, and one call of it (a FindOne, a ReplaceOne, a        *)
(* FindOneAndUpdate on one document) is atomic; nothing makes two calls    *)
(* atomic together.  So a handler is a sequence of store calls, pc[p] is   *)
(* the next call of request p, and an action is that call with all the     *)
(* code up to the next one.  Requests refused by the middleware (401, 403) *)
(* or by BindAndValidate (422; after the read in UpdateRecord and          *)
(* RestockRecord, before it elsewhere) write nothing and are left out: req *)
(* holds requests that pass.                                               *)
(*                                                                         *)
(* A request is served once, and the order a CreateOrder saves has the     *)
(* request's name for its id, as xid.New gives every order a fresh one.    *)
(***************************************************************************)
EXTENDS Integers, Sequences, FiniteSets

CONSTANTS
    Records,        \* ids of records
    Requests,       \* the HTTP requests the server receives
    Users,          \* subjects of the JWTs
    Admins,         \* the users whose token has the scope "admin"
    Infos,          \* title, artist, price, ... of a record, as one value
    Quantities,     \* quantities a request may name
    Stocks,         \* stock counts a CreateRecord or an UpdateRecord may name
    MaxItems,       \* items of an order, at most (bounds TLC only)
    MaxInt,         \* the largest Go int, 2^63 - 1 in the build
    Shelves,        \* the catalogues the shop may open with
    Ops,            \* the kinds of request received
    Faults,         \* whether store calls may fail
    MaxInFlight,    \* requests served at the same time, at most
    NoRecord, NoOrder, NoRequest, NoInfo

Doc == [stock : (-MaxInt - 1)..MaxInt, archived : BOOLEAN, info : Infos]
Item == [id : Records, qty : Quantities]
OrderItem == [id : Records, qty : Quantities, info : Infos]
Order == [user : Users, items : Seq(OrderItem), status : {"pending", "cancelled"}]

ASSUME IntAssumption == MaxInt \in Nat /\ Quantities \subseteq 1..MaxInt /\ Stocks \subseteq 0..MaxInt
ASSUME BoundAssumption == MaxItems \in Nat /\ MaxInFlight \in Nat /\ Faults \in BOOLEAN
ASSUME RoleAssumption == Admins \subseteq Users
ASSUME SentinelAssumption == NoRecord \notin Doc /\ NoOrder \notin Order /\ NoInfo \notin Infos
ASSUME ShelfAssumption ==
    \A shelf \in Shelves : /\ shelf \in [Records -> Doc \union {NoRecord}]
                           /\ \A r \in Records : shelf[r] # NoRecord => shelf[r].stock >= 0

VARIABLES
    records,        \* collection records: the document of each id, or NoRecord
    orders,         \* collection orders: the document of each id, or NoOrder
    pc,             \* the next store call of each request; "idle" before, "done" after
    req,            \* what each request asks
    rec,            \* the handler's variable record
    ord,            \* the handler's variable order, or the order it builds
    idx,            \* the index of the handler's loop over the items
    resp,           \* the status answered; 0 before
    supply,         \* history: units ever put on the shelf by the shop itself
    taken,          \* history: units ever taken by DecrementStock
    returned,       \* history: units ever put back by CancelOrder
    wrapped         \* history: an addition to a stock has overflowed

store == <<records, orders>>
locals == <<rec, ord, idx>>
history == <<supply, taken, returned, wrapped>>
vars == <<store, pc, req, locals, resp, history>>

-----------------------------------------------------------------------------
(* The requests, by operation *)

CreateRequest == [op : {"create"}, user : Users, items : UNION {[1..n -> Item] : n \in 1..MaxItems}]
CancelRequest == [op : {"cancel"}, user : Users, order : Requests]
RestockRequest == [op : {"restock"}, id : Records, qty : Quantities]
\* A stock the JSON body omits is the zero value of the Go field.
UpdateRequest == [op : {"update"}, id : Records, info : Infos \union {NoInfo},
                  stock : Stocks \union {0}, body : BOOLEAN]
ArchiveRequest == [op : {"archive"}, id : Records]
AddRequest == [op : {"add"}, id : Records, info : Infos, stock : Stocks]

Request == CreateRequest \union CancelRequest \union RestockRequest
           \union UpdateRequest \union ArchiveRequest \union AddRequest

ASSUME RequestAssumption == NoRequest \notin Request

Calls == {"GetRecord", "DecrementStock", "SaveRecord", "GetOrder", "SaveOrder"}
Codes == {200, 201, 204, 403, 404, 409, 500}

TypeOK ==
    /\ records \in [Records -> Doc \union {NoRecord}]
    /\ orders \in [Requests -> Order \union {NoOrder}]
    /\ pc \in [Requests -> Calls \union {"idle", "done"}]
    /\ req \in [Requests -> Request \union {NoRequest}]
    /\ rec \in [Requests -> Doc \union {NoRecord}]
    /\ ord \in [Requests -> Order \union {NoOrder}]
    /\ idx \in [Requests -> Nat]
    /\ resp \in [Requests -> Codes \union {0}]
    /\ supply \in [Records -> Nat]
    /\ taken \in [Records -> Nat]
    /\ returned \in [Records -> Nat]
    /\ wrapped \in BOOLEAN

Init ==
    /\ records \in Shelves
    /\ orders = [p \in Requests |-> NoOrder]
    /\ pc = [p \in Requests |-> "idle"]
    /\ req = [p \in Requests |-> NoRequest]
    /\ rec = [p \in Requests |-> NoRecord]
    /\ ord = [p \in Requests |-> NoOrder]
    /\ idx = [p \in Requests |-> 0]
    /\ resp = [p \in Requests |-> 0]
    /\ supply = [r \in Records |-> IF records[r] = NoRecord THEN 0 ELSE records[r].stock]
    /\ taken = [r \in Records |-> 0]
    /\ returned = [r \in Records |-> 0]
    /\ wrapped = FALSE

-----------------------------------------------------------------------------
(* What the handlers share *)

InFlight == {p \in Requests : pc[p] \notin {"idle", "done"}}

\* Request p serves op and its next store call is call.
At(p, op, call) == pc[p] = call /\ req[p] # NoRequest /\ req[p].op = op

\* Go's int addition, which wraps around.
Wrap(n) == IF n > MaxInt THEN n - 2 * (MaxInt + 1) ELSE n

\* The copy of doc a handler changes in memory by record.Stock += qty.
Stocked(doc, qty) == [doc EXCEPT !.stock = Wrap(doc.stock + qty)]

Goto(p, call) == pc' = [pc EXCEPT ![p] = call]

\* The handler answers; its local variables are gone.
Return(p, code) ==
    /\ pc' = [pc EXCEPT ![p] = "done"]
    /\ resp' = [resp EXCEPT ![p] = code]
    /\ rec' = [rec EXCEPT ![p] = NoRecord]
    /\ ord' = [ord EXCEPT ![p] = NoOrder]
    /\ idx' = [idx EXCEPT ![p] = 0]

Refuse(p, code) == Return(p, code) /\ UNCHANGED <<store, history>>

\* A write that took effect is answered with code, unless the store's answer
\* was lost: the handler then returns the error.
Written(p, code) == \/ Return(p, code)
                    \/ Faults /\ Return(p, 500)

\* The handler has read record and goes on with its copy.
Hold(p, doc, call) ==
    /\ rec' = [rec EXCEPT ![p] = doc]
    /\ Goto(p, call)
    /\ UNCHANGED <<store, ord, resp>>

\* ReplaceOne with upsert: the handler's whole copy replaces the document r.
Replace(p, r) == records' = [records EXCEPT ![r] = rec[p]]

Gain(counter, r, n) == [counter EXCEPT ![r] = @ + n]

-----------------------------------------------------------------------------
(* The arrival of a request *)

\* An id of NewRecord is fresh: no record has it, and no other request.
Fresh(r) == /\ records[r] = NoRecord
            /\ \A p \in Requests : req[p] # NoRequest /\ req[p].op = "add" => req[p].id # r

\* An order id a client can name: one the server makes, or has made, for a CreateOrder.
OrderIds == {p \in Requests : req[p] # NoRequest /\ req[p].op = "create"}

Acceptable(q) ==
    /\ q.op \in Ops
    /\ q.op = "cancel" => q.order \in OrderIds
    /\ q.op = "add" => Fresh(q.id)
    /\ q.op = "update" /\ ~q.body => q.stock = 0 /\ q.info = NoInfo

FirstCall(q) == IF q.op = "cancel" THEN "GetOrder"
                ELSE IF q.op = "add" THEN "SaveRecord"
                ELSE "GetRecord"

NewOrder(user) == [user |-> user, items |-> << >>, status |-> "pending"]

NewRecord(q) == [stock |-> q.stock, archived |-> FALSE, info |-> q.info]

Accept(p) ==
    /\ pc[p] = "idle"
    /\ Cardinality(InFlight) < MaxInFlight
    /\ \E q \in Request :
          /\ Acceptable(q)
          /\ req' = [req EXCEPT ![p] = q]
          /\ Goto(p, FirstCall(q))
          /\ idx' = [idx EXCEPT ![p] = 1]
          /\ ord' = IF q.op = "create" THEN [ord EXCEPT ![p] = NewOrder(q.user)] ELSE ord
          /\ rec' = IF q.op = "add" THEN [rec EXCEPT ![p] = NewRecord(q)] ELSE rec
    /\ UNCHANGED <<store, resp, history>>

-----------------------------------------------------------------------------
(* CreateOrder: for each item GetRecord and DecrementStock, then SaveOrder *)

Line(p) == req[p].items[idx[p]]

CreateGetRecord(p) ==
    /\ At(p, "create", "GetRecord")
    /\ LET doc == records[Line(p).id]
       IN  \/ doc = NoRecord /\ Refuse(p, 404)
           \/ doc # NoRecord /\ doc.archived /\ Refuse(p, 409)
           \/ doc # NoRecord /\ ~doc.archived /\ Hold(p, doc, "DecrementStock") /\ UNCHANGED <<idx, history>>
    /\ UNCHANGED req

\* (variants: a filter on the id only; a strict comparison)
CanDecrementAny(r, qty) == records[r] # NoRecord
CanDecrementStrict(r, qty) == records[r] # NoRecord /\ records[r].stock > qty

\* The filter of FindOneAndUpdate; it does not ask whether r is archived.
CanDecrement(r, qty) == records[r] # NoRecord /\ records[r].stock >= qty

\* (variant: the copy read by GetRecord, decremented and written back)
DecrementCopy(p) ==
    records' = [records EXCEPT ![Line(p).id] = [rec[p] EXCEPT !.stock = @ - Line(p).qty]]

\* The update of FindOneAndUpdate: $inc on the document as it is now.
Decrement(p) == records' = [records EXCEPT ![Line(p).id].stock = @ - Line(p).qty]

\* (variant: every item describes the last line)
SoldLast(p) == LET line == req[p].items[Len(req[p].items)]
               IN  [id |-> line.id, qty |-> line.qty, info |-> rec[p].info]

\* The item appended describes the record as GetRecord read it.
Sold(p) == [id |-> Line(p).id, qty |-> Line(p).qty, info |-> rec[p].info]

\* (variant: the last line is skipped)
NextLineShort(p, last, call) == IF idx[p] >= last - 1 THEN call ELSE "GetRecord"

\* The loop goes on with the next line, and after the last one with call.
NextLine(p, last, call) == IF idx[p] = last THEN call ELSE "GetRecord"

CreateDecrementStock(p) ==
    /\ At(p, "create", "DecrementStock")
    /\ \/ ~CanDecrement(Line(p).id, Line(p).qty) /\ Refuse(p, 409)
       \/ /\ CanDecrement(Line(p).id, Line(p).qty)
          /\ Decrement(p)
          /\ taken' = Gain(taken, Line(p).id, Line(p).qty)
          /\ \/ /\ ord' = [ord EXCEPT ![p].items = Append(@, Sold(p))]
                /\ idx' = [idx EXCEPT ![p] = @ + 1]
                /\ Goto(p, NextLine(p, Len(req[p].items), "SaveOrder"))
                /\ UNCHANGED <<rec, resp>>
             \/ Faults /\ Return(p, 500)
          /\ UNCHANGED <<orders, supply, returned, wrapped>>
    /\ UNCHANGED req

CreateSaveOrder(p) ==
    /\ At(p, "create", "SaveOrder")
    /\ orders' = [orders EXCEPT ![p] = ord[p]]
    /\ Written(p, 201)
    /\ UNCHANGED <<records, req, history>>

-----------------------------------------------------------------------------
(* CancelOrder: GetOrder, for each item GetRecord and SaveRecord, then SaveOrder *)

\* (variant: any authenticated user)
MayAccessAll(user, order) == TRUE

\* The owner or an administrator.
MayAccess(user, order) == user \in Admins \/ order.user = user

\* (variant: any order)
CancellableAll(order) == TRUE

Cancellable(order) == order.status = "pending"

CancelGetOrder(p) ==
    /\ At(p, "cancel", "GetOrder")
    /\ LET order == orders[req[p].order]
           user == req[p].user
       IN  \/ order = NoOrder /\ Refuse(p, 404)
           \/ order # NoOrder /\ ~MayAccess(user, order) /\ Refuse(p, 403)
           \/ order # NoOrder /\ MayAccess(user, order) /\ ~Cancellable(order) /\ Refuse(p, 409)
           \/ /\ order # NoOrder /\ MayAccess(user, order) /\ Cancellable(order)
              /\ ord' = [ord EXCEPT ![p] = order]
              /\ Goto(p, "GetRecord")
              /\ UNCHANGED <<store, rec, idx, resp, history>>
    /\ UNCHANGED req

Ordered(p) == ord[p].items[idx[p]]

\* (variant: an archived record is skipped too)
RestorableUnarchived(doc) == doc # NoRecord /\ ~doc.archived

\* Only a record that is gone is skipped.
Restorable(doc) == doc # NoRecord

CancelGetRecord(p) ==
    /\ At(p, "cancel", "GetRecord")
    /\ LET doc == records[Ordered(p).id]
       IN  IF Restorable(doc)
           THEN /\ Hold(p, Stocked(doc, Ordered(p).qty), "SaveRecord")
                /\ wrapped' = (wrapped \/ doc.stock + Ordered(p).qty > MaxInt)
                /\ UNCHANGED <<idx, supply, taken, returned>>
           ELSE /\ idx' = [idx EXCEPT ![p] = @ + 1]
                /\ Goto(p, NextLine(p, Len(ord[p].items), "SaveOrder"))
                /\ UNCHANGED <<store, rec, ord, resp, history>>
    /\ UNCHANGED req

CancelSaveRecord(p) ==
    /\ At(p, "cancel", "SaveRecord")
    /\ Replace(p, Ordered(p).id)
    /\ returned' = Gain(returned, Ordered(p).id, Ordered(p).qty)
    /\ \/ /\ idx' = [idx EXCEPT ![p] = @ + 1]
          /\ Goto(p, NextLine(p, Len(ord[p].items), "SaveOrder"))
          /\ UNCHANGED <<rec, ord, resp>>
       \/ Faults /\ Return(p, 500)
    /\ UNCHANGED <<orders, req, supply, taken, wrapped>>

\* (variant: the order is made over to whoever cancels it)
AsCancelledBy(p) == [ord[p] EXCEPT !.status = "cancelled", !.user = req[p].user]

AsCancelled(p) == [ord[p] EXCEPT !.status = "cancelled"]

CancelSaveOrder(p) ==
    /\ At(p, "cancel", "SaveOrder")
    /\ orders' = [orders EXCEPT ![req[p].order] = AsCancelled(p)]
    /\ Written(p, 204)
    /\ UNCHANGED <<records, req, history>>

-----------------------------------------------------------------------------
(* RestockRecord, UpdateRecord, ArchiveRecord: GetRecord, then SaveRecord *)
(* CreateRecord: SaveRecord                                               *)

\* SaveRecord at the end of a handler that puts n units on the shelf.
SaveBack(p, n, code) ==
    /\ Replace(p, req[p].id)
    /\ supply' = Gain(supply, req[p].id, n)
    /\ Written(p, code)
    /\ UNCHANGED <<orders, req, taken, returned, wrapped>>

RestockGetRecord(p) ==
    /\ At(p, "restock", "GetRecord")
    /\ LET doc == records[req[p].id]
           qty == req[p].qty
       IN  \/ doc = NoRecord /\ Refuse(p, 404)
           \/ doc # NoRecord /\ doc.archived /\ Refuse(p, 409)
           \/ /\ doc # NoRecord /\ ~doc.archived
              /\ Hold(p, Stocked(doc, qty), "SaveRecord")
              /\ wrapped' = (wrapped \/ doc.stock + qty > MaxInt)
              /\ UNCHANGED <<idx, supply, taken, returned>>
    /\ UNCHANGED req

RestockSaveRecord(p) == At(p, "restock", "SaveRecord") /\ SaveBack(p, req[p].qty, 200)

\* Every request with a body sets the stock, to 0 where the body omits it.
SetsStock(q) == q.stock # 0 \/ q.body

\* (variants: a field the body omits is emptied; the document is built anew)
PatchBlank(doc, q) == [doc EXCEPT !.info = q.info, !.stock = IF SetsStock(q) THEN q.stock ELSE @]
PatchAnew(doc, q) == [stock |-> q.stock, archived |-> FALSE,
                      info |-> IF q.info = NoInfo THEN doc.info ELSE q.info]

Patch(doc, q) == [doc EXCEPT !.info = IF q.info = NoInfo THEN @ ELSE q.info,
                             !.stock = IF SetsStock(q) THEN q.stock ELSE @]

UpdateGetRecord(p) ==
    /\ At(p, "update", "GetRecord")
    /\ LET doc == records[req[p].id]
       IN  \/ doc = NoRecord /\ Refuse(p, 404)
           \/ doc # NoRecord /\ Hold(p, Patch(doc, req[p]), "SaveRecord") /\ UNCHANGED <<idx, history>>
    /\ UNCHANGED req

UpdateSaveRecord(p) == At(p, "update", "SaveRecord") /\ SaveBack(p, req[p].stock, 200)

ArchiveGetRecord(p) ==
    /\ At(p, "archive", "GetRecord")
    /\ LET doc == records[req[p].id]
       IN  \/ doc = NoRecord /\ Refuse(p, 404)
           \/ doc # NoRecord /\ doc.archived /\ Refuse(p, 409)
           \/ /\ doc # NoRecord /\ ~doc.archived
              /\ Hold(p, [doc EXCEPT !.archived = TRUE], "SaveRecord")
              /\ UNCHANGED <<idx, history>>
    /\ UNCHANGED req

ArchiveSaveRecord(p) == At(p, "archive", "SaveRecord") /\ SaveBack(p, 0, 204)

AddSaveRecord(p) == At(p, "add", "SaveRecord") /\ SaveBack(p, req[p].stock, 201)

-----------------------------------------------------------------------------

\* (variants: an error of SaveOrder is ignored; DecrementStock is retried without limit)
StoreErrorIgnored(p) ==
    /\ Faults
    /\ pc[p] \in Calls
    /\ Refuse(p, IF pc[p] # "SaveOrder" THEN 500 ELSE IF req[p].op = "create" THEN 201 ELSE 204)
    /\ UNCHANGED req
StoreErrorRetried(p) ==
    /\ Faults
    /\ pc[p] = "DecrementStock"
    /\ Goto(p, "GetRecord")
    /\ UNCHANGED <<store, req, locals, resp, history>>

\* A store call returns an error without having had an effect.
StoreError(p) ==
    /\ Faults
    /\ pc[p] \in Calls
    /\ Refuse(p, 500)
    /\ UNCHANGED req

Create(p) == CreateGetRecord(p) \/ CreateDecrementStock(p) \/ CreateSaveOrder(p)
Cancel(p) == CancelGetOrder(p) \/ CancelGetRecord(p) \/ CancelSaveRecord(p) \/ CancelSaveOrder(p)
Restock(p) == RestockGetRecord(p) \/ RestockSaveRecord(p)
Update(p) == UpdateGetRecord(p) \/ UpdateSaveRecord(p)
Archive(p) == ArchiveGetRecord(p) \/ ArchiveSaveRecord(p)

\* The next store call of request p, and what its handler does with the result.
Serve(p) == Create(p) \/ Cancel(p) \/ Restock(p) \/ Update(p) \/ Archive(p) \/ AddSaveRecord(p) \/ StoreError(p)

AllServed == \A p \in Requests : pc[p] = "done"

Next == \/ \E p \in Requests : Accept(p) \/ Serve(p)
        \/ AllServed /\ UNCHANGED vars

Spec == Init /\ [][Next]_vars

\* Every goroutine is scheduled again, and every store call returns.
FairSpec == Spec /\ \A p \in Requests : WF_vars(Serve(p))

-----------------------------------------------------------------------------
(* Properties *)

Pending(o) == orders[o] # NoOrder /\ orders[o].status = "pending"
Cancelled(o) == orders[o] # NoOrder /\ orders[o].status = "cancelled"
Answered(p, op, code) == resp[p] = code /\ req[p].op = op

\* Neither the store nor any copy a handler holds has a negative stock, unless
\* an addition has overflowed (DecrementStock's filter and the validated
\* inputs against stale write-backs).
StockNonNegative ==
    wrapped \/ /\ \A r \in Records : records[r] # NoRecord => records[r].stock >= 0
               /\ \A p \in Requests : rec[p] # NoRecord => rec[p].stock >= 0

\* A stored order is the caller's, and its items are exactly the items of the
\* request, in order: the loop of CreateOrder neither skips, repeats nor mixes
\* items, whatever the store answers; and an order id is stored by nobody else.
OrderMatchesRequest ==
    \A o \in Requests : orders[o] # NoOrder =>
        /\ req[o] # NoRequest /\ req[o].op = "create"
        /\ orders[o].user = req[o].user
        /\ Len(orders[o].items) = Len(req[o].items)
        /\ \A i \in 1..Len(req[o].items) : /\ orders[o].items[i].id = req[o].items[i].id
                                           /\ orders[o].items[i].qty = req[o].items[i].qty

\* What was promised holds from then on: a 201 of POST /orders means the order
\* is stored, a 204 of POST /orders/{id}/cancel that it is cancelled, and no
\* stale SaveOrder of another cancellation undoes either.
PromisesKept ==
    \A p \in Requests : /\ Answered(p, "create", 201) => orders[p] # NoOrder
                        /\ Answered(p, "cancel", 204) => Cancelled(req[p].order)

\* An order is cancelled only on behalf of its owner or of an administrator,
\* though the check and the write are several store calls apart.
CancelledByRight ==
    \A o \in Requests : Cancelled(o) =>
        \E p \in Requests : /\ req[p] # NoRequest /\ req[p].op = "cancel" /\ req[p].order = o
                            /\ req[p].user \in Admins \union {orders[o].user}

\* Once stored, an order keeps its owner and its items, and its status only
\* ever goes from pending to cancelled: CancelOrder writes back the whole
\* document it read several calls earlier.
OrderFrozen ==
    [][\A o \in Requests : orders[o] # NoOrder =>
          /\ orders'[o] # NoOrder
          /\ orders'[o] \in {orders[o], [orders[o] EXCEPT !.status = "cancelled"]}]_vars

\* With orders as the only writers an order is refused for want of stock only
\* when a record it names really has fewer units than it asks, then and ever
\* after: racing DecrementStock calls never turn away a buyer who could be served.
RefusedOnlyWhenShort ==
    \A p \in Requests : Answered(p, "create", 409) =>
        \E i \in 1..Len(req[p].items) :
            LET r == req[p].items[i].id
            IN  records[r] # NoRecord /\ (records[r].archived \/ records[r].stock < req[p].items[i].qty)

\* Orders are cancelled while pending, so of two cancellations of the same order
\* at most one succeeds (order.go:263).
CancelledOnce ==
    \A p, q \in Requests :
        Answered(p, "cancel", 204) /\ Answered(q, "cancel", 204) /\ req[p].order = req[q].order => p = q

\* Every request the server accepts is answered: the loops of the handlers end
\* and no handler waits for another.
EveryRequestAnswered == \A p \in Requests : pc[p] # "idle" ~> pc[p] = "done"
=============================================================================
