------------------------ MODULE ShopAccountingProofs ------------------------
(***************************************************************************)
(* What holds of the stock of every record while all handlers of Shop run: *)
(* it is never negative before an overflow, and every unit that is sold or *)
(* being bought was taken from it.                                         *)
(***************************************************************************)
EXTENDS ShopAccounting, ShopProofs, FiniteSetTheorems

\* The units a handler that writes a record back credits to it.
Credit(p) == IF req[p].op = "cancel" THEN Ordered(p).qty
             ELSE IF req[p].op = "restock" THEN req[p].qty
             ELSE IF req[p].op = "archive" THEN 0
             ELSE req[p].stock

\* No document of the store, and no copy a handler holds, has a negative stock.
Shelf(r) == records[r] # NoRecord => wrapped \/ records[r].stock >= 0
Copy(p) == rec[p] # NoRecord => wrapped \/ rec[p].stock >= 0
StockBooks == (\A r \in Records : Shelf(r)) /\ (\A p \in Requests : Copy(p))

\* A handler at SaveRecord has a record to write and knows its id.
LEMMA SaveRecordTarget ==
    ASSUME Typed, NEW p \in Requests, pc[p] = "SaveRecord"
    PROVE  Target(p) \in Records /\ Credit(p) \in Nat
<1>1. TypeOK /\ Control(p)
  BY DEF Typed, ControlOK
<1>2. req[p] \in Request /\ req[p].op \in {"cancel", "restock", "update", "archive", "add"}
  BY <1>1, RequestFields DEF TypeOK, Control, Serving, Calls, CallsOf
<1>3. CASE req[p].op = "cancel"
  <2>1. Ordered(p) \in OrderItem
    BY <1>2, <1>3, Cancelling, RequestAssumption DEF At, Calls
  <2> QED
    BY <1>3, <2>1, StockRange DEF Target, Credit, OrderItem
<1>4. CASE req[p].op = "restock"
  BY <1>2, <1>4, RequestFields, StockRange DEF Target, Credit, RestockRequest
<1>5. CASE req[p].op = "update"
  BY <1>2, <1>5, RequestFields, StockRange DEF Target, Credit, UpdateRequest
<1>6. CASE req[p].op = "archive"
  BY <1>2, <1>6, RequestFields DEF Target, Credit, ArchiveRequest
<1>7. CASE req[p].op = "add"
  BY <1>2, <1>7, RequestFields, StockRange DEF Target, Credit, AddRequest
<1> QED
  BY <1>2, <1>3, <1>4, <1>5, <1>6, <1>7

\* The books are in order when the shop opens.
LEMMA StockBooksInit == Init => StockBooks
<1> SUFFICES ASSUME Init PROVE StockBooks
  OBVIOUS
<1>1. \A r \in Records : Shelf(r)
  <2> TAKE r \in Records
  <2>1. CASE records[r] = NoRecord
    BY <2>1 DEF Shelf
  <2>2. CASE records[r] # NoRecord
    <3>1. records[r] \in Doc /\ records[r].stock >= 0
      BY <2>2, ShelfAssumption DEF Init
    <3> QED
      BY <3>1 DEF Shelf
  <2> QED
    BY <2>1, <2>2
<1>2. \A p \in Requests : Copy(p)
  BY DEF Init, Copy
<1> QED
  BY <1>1, <1>2 DEF StockBooks

\* What one handler has to show so that the books are in order after its step.
LEMMA BooksFrame ==
    ASSUME TypeOK, StockBooks, NEW p \in Requests, Copy(p)', wrapped => wrapped',
           \A r \in Records : records'[r] = records[r] \/ Shelf(r)',
           \A q \in Requests \ {p} : rec'[q] = rec[q]
    PROVE  StockBooks'
<1>1. ASSUME NEW r \in Records PROVE Shelf(r)'
  <2>1. CASE records'[r] = records[r]
    BY <2>1, Zenon DEF StockBooks, Shelf
  <2> QED
    BY <2>1
<1>2. ASSUME NEW q \in Requests, q # p PROVE Copy(q)'
  <2>1. rec'[q] = rec[q]
    BY <1>2
  <2> QED
    BY <2>1, Zenon DEF StockBooks, Copy
<1> QED
  BY <1>1, <1>2 DEF StockBooks

\* A handler that answers holds no copy any more.
LEMMA ReturnBooks ==
    ASSUME TypeOK, StockBooks, NEW p \in Requests, NEW code, Return(p, code), wrapped => wrapped',
           \A r \in Records : records'[r] = records[r] \/ Shelf(r)'
    PROVE  StockBooks'
<1>1. rec'[p] = NoRecord /\ \A q \in Requests \ {p} : rec'[q] = rec[q]
  BY DEF Return, TypeOK
<1>2. Copy(p)'
  BY <1>1 DEF Copy
<1> QED
  BY <1>1, <1>2, BooksFrame

\* A handler that refuses its request keeps the books.
LEMMA RefuseBooks ==
    ASSUME TypeOK, StockBooks, NEW p \in Requests, NEW code, Refuse(p, code)
    PROVE  StockBooks'
<1>1. wrapped => wrapped'
  BY Zenon DEF Refuse, history
<1> QED
  BY <1>1, ReturnBooks DEF Refuse, store

\* A handler that reads the document it will write back.
LEMMA HoldBooks ==
    ASSUME TypeOK, StockBooks, NEW p \in Requests, NEW doc, NEW call,
           Hold(p, doc, call), wrapped => wrapped', wrapped' \/ doc.stock >= 0
    PROVE  StockBooks'
<1>1. rec'[p] = doc /\ \A q \in Requests \ {p} : rec'[q] = rec[q]
  BY DEF TypeOK, Hold
<1>2. Copy(p)'
  BY <1>1, Zenon DEF Copy
<1> QED
  BY <1>1, <1>2, BooksFrame DEF Hold, store

\* A handler that goes on with what it holds.
LEMMA GoOnBooks ==
    ASSUME TypeOK, StockBooks, NEW p \in Requests, UNCHANGED <<rec, wrapped>>,
           \A r \in Records : records'[r] = records[r] \/ Shelf(r)'
    PROVE  StockBooks'
<1>1. (wrapped => wrapped') /\ Copy(p)'
  BY Zenon DEF StockBooks, Copy
<1> QED
  BY <1>1, BooksFrame

\* The copy of RestockRecord and of CancelOrder.
LEMMA StockedBooks ==
    ASSUME TypeOK, StockBooks, NEW r \in Records, records[r] # NoRecord, NEW qty \in Quantities,
           wrapped' = (wrapped \/ records[r].stock + qty > MaxInt)
    PROVE  /\ wrapped => wrapped'
           /\ wrapped' \/ Stocked(records[r], qty).stock >= 0
<1> DEFINE n == records[r].stock
<1>1. records[r] \in Doc /\ n \in (-MaxInt - 1)..MaxInt /\ qty \in 1..MaxInt
  BY StockRange DEF TypeOK, Doc
<1>2. wrapped \/ n >= 0
  BY DEF StockBooks, Shelf
<1>3. Stocked(records[r], qty).stock = Wrap(n + qty)
  BY <1>1 DEF Doc, Stocked
<1>4. ASSUME ~ wrapped' PROVE n >= 0 /\ n + qty <= MaxInt
  <2>1. ~ wrapped /\ ~ (n + qty > MaxInt)
    BY <1>4, Zenon
  <2> QED
    BY <1>1, <1>2, <2>1, IntAssumption
<1>5. wrapped' \/ Wrap(n + qty) >= 0
  <2> SUFFICES ASSUME ~ wrapped' PROVE Wrap(n + qty) >= 0
    OBVIOUS
  <2>1. n >= 0 /\ Wrap(n + qty) = n + qty
    BY <1>1, <1>4, WrapRange
  <2> QED
    BY <1>1, <2>1, IntAssumption
<1>6. wrapped => wrapped'
  BY Zenon
<1> QED
  BY <1>3, <1>5, <1>6

\* A handler that writes its copy back.
LEMMA ReplaceBooks ==
    ASSUME Typed, StockBooks, NEW p \in Requests, NEW r \in Records, Replace(p, r), UNCHANGED wrapped
    PROVE  \A s \in Records : records'[s] = records[s] \/ Shelf(s)'
<1>1. records'[r] = rec[p] /\ \A s \in Records \ {r} : records'[s] = records[s]
  BY DEF Replace, Typed, TypeOK
<1>2. Shelf(r)'
  BY <1>1, Zenon DEF StockBooks, Copy, Shelf
<1> QED
  BY <1>1, <1>2

-----------------------------------------------------------------------------
(* One lemma per handler *)

\* The arrival of a request keeps the books.
LEMMA AcceptBooks ==
    ASSUME TypeOK, StockBooks, NEW p \in Requests, Accept(p)
    PROVE  StockBooks'
<1>1. UNCHANGED <<records, wrapped>>
  BY DEF Accept, store, history
<1>2. PICK q \in Request : rec' = IF q.op = "add" THEN [rec EXCEPT ![p] = NewRecord(q)] ELSE rec
  BY DEF Accept
<1>3. CASE q.op = "add"
  <2>1. rec'[p].stock = q.stock /\ \A s \in Requests \ {p} : rec'[s] = rec[s]
    BY <1>2, <1>3 DEF NewRecord, TypeOK
  <2>2. rec'[p].stock >= 0
    BY <1>3, <2>1, RequestFields, StockRange DEF AddRequest
  <2>3. Copy(p)' /\ (wrapped => wrapped')
    BY <1>1, <2>2, Zenon DEF Copy
  <2> QED
    BY <1>1, <2>1, <2>3, BooksFrame
<1>4. CASE q.op # "add"
  BY <1>1, <1>2, <1>4, GoOnBooks
<1> QED
  BY <1>3, <1>4

\* CreateOrder keeps the books: DecrementStock never goes below zero.
LEMMA CreateBooks ==
    ASSUME TypeOK, Typed, StockBooks, NEW p \in Requests, Create(p)
    PROVE  StockBooks'
<1>1. CASE CreateGetRecord(p)
  <2> DEFINE doc == records[Line(p).id]
  <2>1. Line(p).id \in Records
    BY <1>1, Creating DEF CreateGetRecord, Calls, Item
  <2>2. CASE Refuse(p, 404) \/ Refuse(p, 409)
    BY <2>2, RefuseBooks
  <2>3. CASE doc # NoRecord /\ Hold(p, doc, "DecrementStock") /\ UNCHANGED <<idx, history>>
    <3>1. wrapped \/ doc.stock >= 0
      BY <2>1, <2>3 DEF StockBooks, Shelf
    <3>2. (wrapped => wrapped') /\ (wrapped' \/ doc.stock >= 0)
      BY <2>3, <3>1, Zenon DEF history
    <3> QED
      BY <2>3, <3>2, HoldBooks
  <2> QED
    BY <1>1, <2>2, <2>3 DEF CreateGetRecord
<1>2. CASE CreateDecrementStock(p)
  <2>1. PICK r \in Records, qty \in 1..MaxInt : r = Line(p).id /\ qty = Line(p).qty
    BY <1>2, Creating, StockRange DEF CreateDecrementStock, Calls, Item
  <2>2. CASE Refuse(p, 409)
    BY <2>2, RefuseBooks
  <2>3. CASE CanDecrement(r, qty) /\ Decrement(p) /\ UNCHANGED wrapped
    <3>1. records[r] \in Doc /\ records[r].stock \in Int /\ records[r].stock >= qty
      BY <2>3, IntAssumption DEF TypeOK, CanDecrement, Doc
    <3>2. records'[r].stock = records[r].stock - qty
      BY <2>1, <2>3, <3>1 DEF Decrement, TypeOK, Doc
    <3>3. \A s \in Records \ {r} : records'[s] = records[s]
      BY <2>1, <2>3 DEF Decrement, TypeOK
    <3>4. records'[r].stock >= 0
      BY <3>1, <3>2, IntAssumption
    <3>5. \A s \in Records : records'[s] = records[s] \/ Shelf(s)'
      BY <3>3, <3>4 DEF Shelf
    <3>6. wrapped => wrapped'
      BY <2>3, Zenon
    <3> QED
      BY <1>2, <2>1, <2>3, <3>5, <3>6, ReturnBooks, GoOnBooks DEF CreateDecrementStock, CanDecrement, Refuse
  <2> QED
    BY <1>2, <2>1, <2>2, <2>3 DEF CreateDecrementStock
<1>3. CASE CreateSaveOrder(p)
  <2>1. wrapped => wrapped'
    BY <1>3, Zenon DEF CreateSaveOrder, history
  <2> QED
    BY <1>3, <2>1, ReturnBooks, WrittenReturns DEF CreateSaveOrder
<1> QED
  BY <1>1, <1>2, <1>3 DEF Create

\* Writing back a copy keeps the books.
LEMMA SaveBackBooks ==
    ASSUME Typed, StockBooks, NEW p \in Requests, NEW op, NEW n, NEW code,
           At(p, op, "SaveRecord"), op # "cancel", SaveBack(p, n, code)
    PROVE  StockBooks'
<1>1. req[p].id \in Records
  BY SaveRecordTarget DEF At, Target
<1>2. \A s \in Records : records'[s] = records[s] \/ Shelf(s)'
  BY <1>1, ReplaceBooks DEF SaveBack
<1>3. wrapped => wrapped'
  BY Zenon DEF SaveBack
<1>4. Return(p, code) \/ Return(p, 500)
  BY WrittenReturns DEF SaveBack
<1> QED
  BY <1>2, <1>3, <1>4, ReturnBooks DEF Typed

\* CancelOrder keeps the books.
LEMMA CancelBooks ==
    ASSUME TypeOK, Typed, StockBooks, NEW p \in Requests, Cancel(p)
    PROVE  StockBooks'
<1>1. CASE CancelGetOrder(p)
  BY <1>1, RefuseBooks, GoOnBooks DEF CancelGetOrder, store, history
<1>2. CASE CancelGetRecord(p)
  <2>1. PICK r \in Records, qty \in Quantities : r = Ordered(p).id /\ qty = Ordered(p).qty
    BY <1>2, Cancelling DEF CancelGetRecord, Calls, OrderItem
  <2>2. CASE records[r] # NoRecord
    <3>1. /\ Hold(p, Stocked(records[r], qty), "SaveRecord")
          /\ wrapped' = (wrapped \/ records[r].stock + qty > MaxInt)
      BY <1>2, <2>1, <2>2 DEF CancelGetRecord, Restorable
    <3>2. (wrapped => wrapped') /\ (wrapped' \/ Stocked(records[r], qty).stock >= 0)
      BY <2>2, <3>1, StockedBooks
    <3> QED
      BY <3>1, <3>2, HoldBooks
  <2>3. CASE records[r] = NoRecord
    BY <1>2, <2>1, <2>3, GoOnBooks DEF CancelGetRecord, Restorable, store, history
  <2> QED
    BY <2>2, <2>3
<1>3. CASE CancelSaveRecord(p)
  <2>1. At(p, "cancel", "SaveRecord") /\ UNCHANGED wrapped
    BY <1>3 DEF CancelSaveRecord
  <2>2. Ordered(p).id \in Records
    BY <2>1, SaveRecordTarget DEF At, Target
  <2>3. \A s \in Records : records'[s] = records[s] \/ Shelf(s)'
    BY <1>3, <2>1, <2>2, ReplaceBooks DEF CancelSaveRecord
  <2>4. wrapped => wrapped'
    BY <2>1, Zenon
  <2> QED
    BY <1>3, <2>1, <2>3, <2>4, ReturnBooks, GoOnBooks DEF CancelSaveRecord
<1>4. CASE CancelSaveOrder(p)
  <2>1. wrapped => wrapped'
    BY <1>4, Zenon DEF CancelSaveOrder, history
  <2> QED
    BY <1>4, <2>1, ReturnBooks, WrittenReturns DEF CancelSaveOrder
<1> QED
  BY <1>1, <1>2, <1>3, <1>4 DEF Cancel

\* RestockRecord keeps the books.
LEMMA RestockBooks ==
    ASSUME TypeOK, Typed, StockBooks, NEW p \in Requests, Restock(p)
    PROVE  StockBooks'
<1>1. CASE RestockGetRecord(p)
  <2>1. PICK r \in Records, qty \in Quantities : r = req[p].id /\ qty = req[p].qty
    BY <1>1, RequestFields DEF RestockGetRecord, At, TypeOK, RestockRequest
  <2>2. CASE Refuse(p, 404) \/ Refuse(p, 409)
    BY <2>2, RefuseBooks
  <2>3. CASE /\ records[r] # NoRecord
             /\ Hold(p, Stocked(records[r], qty), "SaveRecord")
             /\ wrapped' = (wrapped \/ records[r].stock + qty > MaxInt)
    BY <2>3, StockedBooks, HoldBooks
  <2> QED
    BY <1>1, <2>1, <2>2, <2>3 DEF RestockGetRecord
<1>2. CASE RestockSaveRecord(p)
  BY <1>2, SaveBackBooks DEF RestockSaveRecord
<1> QED
  BY <1>1, <1>2 DEF Restock

\* UpdateRecord keeps the books: no request asks for a negative stock.
LEMMA UpdateBooks ==
    ASSUME TypeOK, Typed, StockBooks, NEW p \in Requests, Update(p)
    PROVE  StockBooks'
<1>1. CASE UpdateGetRecord(p)
  <2>1. PICK r \in Records : r = req[p].id /\ req[p] \in UpdateRequest
    BY <1>1, RequestFields DEF UpdateGetRecord, At, TypeOK, UpdateRequest
  <2>2. CASE Refuse(p, 404)
    BY <2>2, RefuseBooks
  <2>3. CASE records[r] # NoRecord /\ Hold(p, Patch(records[r], req[p]), "SaveRecord") /\ UNCHANGED <<idx, history>>
    <3> DEFINE doc == Patch(records[r], req[p])
    <3>1. records[r] \in Doc /\ (wrapped \/ records[r].stock >= 0)
      BY <2>3 DEF TypeOK, StockBooks, Shelf
    <3>2. req[p].stock >= 0
      BY <2>1, StockRange DEF UpdateRequest
    <3>3. doc.stock \in {records[r].stock, req[p].stock}
      BY <3>1 DEF Patch, Doc
    <3>4. wrapped \/ doc.stock >= 0
      BY <3>1, <3>2, <3>3
    <3>5. (wrapped => wrapped') /\ (wrapped' \/ doc.stock >= 0)
      BY <2>3, <3>4, Zenon DEF history
    <3> QED
      BY <2>3, <3>5, HoldBooks
  <2> QED
    BY <1>1, <2>1, <2>2, <2>3 DEF UpdateGetRecord
<1>2. CASE UpdateSaveRecord(p)
  BY <1>2, SaveBackBooks DEF UpdateSaveRecord
<1> QED
  BY <1>1, <1>2 DEF Update

\* ArchiveRecord keeps the books.
LEMMA ArchiveBooks ==
    ASSUME TypeOK, Typed, StockBooks, NEW p \in Requests, Archive(p)
    PROVE  StockBooks'
<1>1. CASE ArchiveGetRecord(p)
  <2>1. PICK r \in Records : r = req[p].id
    BY <1>1, RequestFields DEF ArchiveGetRecord, At, TypeOK, ArchiveRequest
  <2>2. CASE Refuse(p, 404) \/ Refuse(p, 409)
    BY <2>2, RefuseBooks
  <2>3. CASE /\ records[r] # NoRecord
             /\ Hold(p, [records[r] EXCEPT !.archived = TRUE], "SaveRecord")
             /\ UNCHANGED <<idx, history>>
    <3> DEFINE doc == [records[r] EXCEPT !.archived = TRUE]
    <3>1. records[r] \in Doc /\ (wrapped \/ records[r].stock >= 0)
      BY <2>3 DEF TypeOK, StockBooks, Shelf
    <3>2. doc.stock = records[r].stock
      BY <3>1 DEF Doc
    <3>3. (wrapped => wrapped') /\ (wrapped' \/ doc.stock >= 0)
      BY <2>3, <3>1, <3>2, Zenon DEF history
    <3> QED
      BY <2>3, <3>3, HoldBooks
  <2> QED
    BY <1>1, <2>1, <2>2, <2>3 DEF ArchiveGetRecord
<1>2. CASE ArchiveSaveRecord(p)
  BY <1>2, SaveBackBooks DEF ArchiveSaveRecord
<1> QED
  BY <1>1, <1>2 DEF Archive

\* Every step keeps the books.
LEMMA StockBooksStep == Typed /\ StockBooks /\ [Next]_vars => StockBooks'
<1> SUFFICES ASSUME Typed, StockBooks, [Next]_vars PROVE StockBooks'
  OBVIOUS
<1>1. TypeOK
  BY DEF Typed
<1>2. ASSUME NEW p \in Requests, Accept(p) \/ Create(p) \/ Cancel(p) PROVE StockBooks'
  BY <1>1, <1>2, AcceptBooks, CreateBooks, CancelBooks
<1>3. ASSUME NEW p \in Requests, Restock(p) \/ Update(p) \/ Archive(p) PROVE StockBooks'
  BY <1>1, <1>3, RestockBooks, UpdateBooks, ArchiveBooks
<1>4. ASSUME NEW p \in Requests, AddSaveRecord(p) \/ StoreError(p) PROVE StockBooks'
  BY <1>1, <1>4, SaveBackBooks, RefuseBooks DEF AddSaveRecord, StoreError
<1>5. CASE UNCHANGED vars
  BY <1>5, Zenon DEF vars, store, locals, history, StockBooks, Shelf, Copy
<1> QED
  BY <1>2, <1>3, <1>4, <1>5 DEF Next, Serve

\* The books are in order in every reachable state.
LEMMA StockBooksAlways == Spec => []StockBooks
  BY TypedAlways, StockBooksInit, StockBooksStep, PTL DEF Spec

\* Until an addition overflows, no stock is negative, in the store or in the
\* hands of a handler.
THEOREM StockNonNegativeAlways == Spec => []StockNonNegative
<1>1. StockBooks => StockNonNegative
  BY DEF StockBooks, Shelf, Copy, StockNonNegative
<1> QED
  BY <1>1, StockBooksAlways, PTL

-----------------------------------------------------------------------------
(* The store calls of the handlers *)

\* No handler removes a record.
RecordsStay == \A r \in Records : records[r] # NoRecord => records'[r] # NoRecord

\* A store call is made by a handler at work, which goes on or answers, and
\* concerns no other handler.
OneServes(p) ==
    /\ pc[p] \in Calls
    /\ UNCHANGED req
    /\ pc'[p] \notin Calls => resp'[p] # 0
    /\ \A q \in Requests \ {p} : pc'[q] = pc[q] /\ resp'[q] = resp[q]

\* A handler that answers.
LEMMA ReturnServes ==
    ASSUME TypeOK, NEW p \in Requests, pc[p] \in Calls, NEW code \in Codes, Return(p, code), UNCHANGED req
    PROVE  OneServes(p)
  BY DEF Return, OneServes, TypeOK, Codes

\* A handler that goes on to its next call.
LEMMA GotoServes ==
    ASSUME TypeOK, NEW p \in Requests, pc[p] \in Calls, NEW call \in Calls, Goto(p, call), UNCHANGED <<req, resp>>
    PROVE  OneServes(p)
  BY DEF Goto, OneServes, TypeOK

\* A handler that goes on with the next line, or leaves the loop.
LEMMA NextLineServes ==
    ASSUME TypeOK, NEW p \in Requests, pc[p] \in Calls, NEW n, Goto(p, NextLine(p, n, "SaveOrder")), UNCHANGED <<req, resp>>
    PROVE  OneServes(p)
<1>1. NextLine(p, n, "SaveOrder") \in Calls
  BY DEF NextLine, Calls
<1> QED
  BY <1>1, GotoServes

\* A handler that holds what it has read.
LEMMA HoldServes ==
    ASSUME TypeOK, NEW p \in Requests, pc[p] \in Calls, NEW doc,
           NEW call \in {"DecrementStock", "SaveRecord"}, Hold(p, doc, call), UNCHANGED req
    PROVE  OneServes(p) /\ RecordsStay
  BY GotoServes DEF Hold, RecordsStay, store, Calls

\* An early return.
LEMMA RefuseServes ==
    ASSUME TypeOK, NEW p \in Requests, pc[p] \in Calls, NEW code \in Codes, Refuse(p, code), UNCHANGED req
    PROVE  OneServes(p) /\ RecordsStay
  BY ReturnServes DEF Refuse, RecordsStay, store

\* A document written back is a document.
LEMMA ReplaceStays ==
    ASSUME TypeOK, NEW p \in Requests, rec[p] \in Doc, NEW r \in Records, Replace(p, r)
    PROVE  RecordsStay
  BY SentinelAssumption DEF TypeOK, Replace, RecordsStay

\* Nor does the decrement remove its record.
LEMMA DecrementStays ==
    ASSUME Typed, Typed', NEW p \in Requests, At(p, "create", "DecrementStock"),
           CanDecrement(Line(p).id, Line(p).qty), Decrement(p)
    PROVE  RecordsStay
<1> DEFINE r == Line(p).id
<1>1. TypeOK /\ r \in Records
  BY Creating DEF Typed, Calls, Item
<1>2. records[r] \in Doc
  BY <1>1 DEF CanDecrement, TypeOK
<1>3. records'[r] = [records[r] EXCEPT !.stock = @ - Line(p).qty]
  BY <1>1 DEF Decrement, TypeOK
<1>4. records[r].stock - Line(p).qty \in (-MaxInt - 1)..MaxInt
  <2>1. Line(p).qty \in 1..MaxInt /\ records[r].stock \in (-MaxInt - 1)..MaxInt
    BY <1>2, Creating, StockRange DEF Calls, Item, Doc
  <2>2. records[r].stock >= Line(p).qty
    BY DEF CanDecrement
  <2> QED
    BY <2>1, <2>2, IntAssumption
<1>5. records'[r] \in Doc
  BY <1>2, <1>3, <1>4 DEF Doc
<1>6. \A s \in Records \ {r} : records'[s] = records[s]
  BY <1>1 DEF Decrement, TypeOK
<1> QED
  BY <1>5, <1>6, SentinelAssumption DEF RecordsStay

\* A handler that ends by writing back its copy.
LEMMA SaveBackServes ==
    ASSUME Typed, NEW p \in Requests, NEW op, At(p, op, "SaveRecord"), NEW n, NEW code \in Codes, SaveBack(p, n, code),
           Target(p) = req[p].id
    PROVE  OneServes(p) /\ RecordsStay
<1>1. TypeOK /\ pc[p] \in Calls /\ rec[p] \in Doc
  BY DEF Typed, ControlOK, Control, At, Calls
<1>2. req[p].id \in Records
  BY SaveRecordTarget DEF At
<1>3. RecordsStay
  BY <1>1, <1>2, ReplaceStays DEF SaveBack
<1>4. OneServes(p)
  BY <1>1, WrittenReturns, ReturnServes DEF SaveBack, Codes
<1> QED
  BY <1>3, <1>4

\* Every store call of every handler.
LEMMA ServeServes ==
    ASSUME Typed, Typed', NEW p \in Requests, Serve(p)
    PROVE  OneServes(p) /\ RecordsStay
<1>1. TypeOK
  BY DEF Typed
<1>2. pc[p] \in Calls
  BY DEF Serve, Create, CreateGetRecord, CreateDecrementStock, CreateSaveOrder,
     Cancel, CancelGetOrder, CancelGetRecord, CancelSaveRecord, CancelSaveOrder,
     Restock, RestockGetRecord, RestockSaveRecord, Update, UpdateGetRecord, UpdateSaveRecord,
     Archive, ArchiveGetRecord, ArchiveSaveRecord, AddSaveRecord, StoreError, At, Calls
<1>3. CASE UNCHANGED <<records, req>> /\ \E code \in Codes : Return(p, code)
  BY <1>1, <1>2, <1>3, ReturnServes DEF RecordsStay
<1>4. CASE Create(p)
  <2>1. CASE CreateGetRecord(p)
    BY <1>1, <1>2, <2>1, RefuseServes, HoldServes DEF CreateGetRecord, Codes
  <2>2. CASE CreateDecrementStock(p)
    <3>1. CASE Refuse(p, 409)
      BY <1>1, <1>2, <2>2, <3>1, RefuseServes DEF CreateDecrementStock, Codes
    <3>2. CASE CanDecrement(Line(p).id, Line(p).qty) /\ Decrement(p)
      <4>1. RecordsStay
        BY <2>2, <3>2, DecrementStays DEF CreateDecrementStock
      <4>2. OneServes(p)
        BY <1>1, <1>2, <2>2, ReturnServes, NextLineServes, RefuseServes DEF CreateDecrementStock, Codes
      <4> QED
        BY <4>1, <4>2
    <3> QED
      BY <2>2, <3>1, <3>2 DEF CreateDecrementStock
  <2>3. CASE CreateSaveOrder(p)
    BY <1>3, <2>3, WrittenReturns DEF CreateSaveOrder, Codes
  <2> QED
    BY <1>4, <2>1, <2>2, <2>3 DEF Create
<1>5. CASE Cancel(p)
  <2>1. CASE CancelGetOrder(p)
    BY <1>1, <1>2, <2>1, RefuseServes, GotoServes DEF CancelGetOrder, Codes, Calls, RecordsStay, store
  <2>2. CASE CancelGetRecord(p)
    BY <1>1, <1>2, <2>2, HoldServes, NextLineServes DEF CancelGetRecord, RecordsStay, store
  <2>3. CASE CancelSaveRecord(p)
    <3>1. At(p, "cancel", "SaveRecord") /\ Replace(p, Ordered(p).id) /\ UNCHANGED req
      BY <2>3 DEF CancelSaveRecord
    <3>2. Ordered(p).id \in Records /\ rec[p] \in Doc
      BY <3>1, Cancelling DEF Calls, OrderItem, Typed, ControlOK, Control, At
    <3>3. RecordsStay
      BY <1>1, <3>1, <3>2, ReplaceStays
    <3>4. OneServes(p)
      BY <1>1, <1>2, <2>3, ReturnServes, NextLineServes DEF CancelSaveRecord, Codes
    <3> QED
      BY <3>3, <3>4
  <2>4. CASE CancelSaveOrder(p)
    BY <1>3, <2>4, WrittenReturns DEF CancelSaveOrder, Codes
  <2> QED
    BY <1>5, <2>1, <2>2, <2>3, <2>4 DEF Cancel
<1>6. CASE Restock(p) \/ Update(p) \/ Archive(p) \/ AddSaveRecord(p)
  <2>1. CASE RestockGetRecord(p) \/ UpdateGetRecord(p) \/ ArchiveGetRecord(p)
    BY <1>1, <1>2, <2>1, RefuseServes, HoldServes DEF RestockGetRecord, UpdateGetRecord, ArchiveGetRecord, Codes
  <2>2. CASE RestockSaveRecord(p) \/ UpdateSaveRecord(p) \/ ArchiveSaveRecord(p) \/ AddSaveRecord(p)
    BY <2>2, SaveBackServes
       DEF RestockSaveRecord, UpdateSaveRecord, ArchiveSaveRecord, AddSaveRecord, Codes, At, Target
  <2> QED
    BY <1>6, <2>1, <2>2 DEF Restock, Update, Archive
<1>7. CASE StoreError(p)
  BY <1>1, <1>2, <1>7, RefuseServes DEF StoreError, Codes
<1> QED
  BY <1>4, <1>5, <1>6, <1>7 DEF Serve

\* The ways a handler writes a record.
LEMMA Writes ==
    ASSUME Typed, NEW p \in Requests, Accept(p) \/ Serve(p)
    PROVE  \/ UNCHANGED records
           \/ At(p, "create", "DecrementStock") /\ CanDecrement(Line(p).id, Line(p).qty) /\ Decrement(p)
           \/ pc[p] = "SaveRecord" /\ Replace(p, Target(p))
<1>1. CASE Accept(p)
  BY <1>1 DEF Accept, store
<1>2. CASE Create(p)
  BY <1>2 DEF Create, CreateGetRecord, CreateDecrementStock, CreateSaveOrder, Refuse, Hold, store
<1>3. CASE Cancel(p)
  BY <1>3 DEF Cancel, CancelGetOrder, CancelGetRecord, CancelSaveRecord, CancelSaveOrder, Refuse, Hold, store, At, Target
<1>4. CASE Restock(p)
  BY <1>4 DEF Restock, RestockGetRecord, RestockSaveRecord, SaveBack, Refuse, Hold, store, At, Target
<1>5. CASE Update(p)
  BY <1>5 DEF Update, UpdateGetRecord, UpdateSaveRecord, SaveBack, Refuse, Hold, store, At, Target
<1>6. CASE Archive(p)
  BY <1>6 DEF Archive, ArchiveGetRecord, ArchiveSaveRecord, SaveBack, Refuse, Hold, store, At, Target
<1>7. CASE AddSaveRecord(p) \/ StoreError(p)
  BY <1>7 DEF AddSaveRecord, StoreError, SaveBack, Refuse, store, At, Target
<1> QED
  BY <1>1, <1>2, <1>3, <1>4, <1>5, <1>6, <1>7 DEF Serve

-----------------------------------------------------------------------------
(***************************************************************************)
(* Sums over finite sets.  SumFunctionOnSet adds up in an order of its own *)
(* choice; these lemmas say that the order does not matter.                *)
(***************************************************************************)

\* A set of subsets of a finite set has a smallest one.
LEMMA Smallest ==
    ASSUME NEW S, IsFiniteSet(S), NEW T, T \subseteq SUBSET S, T # {}
    PROVE  \E A \in T : \A B \in T : ~(B \subseteq A /\ B # A)
<1>1. IsWellFoundedOn(StrictSubsetOrdering(S), SUBSET S)
  BY FS_StrictSubsetOrderingWellFounded, FS_FiniteSubsetsOfFinite
<1>2. PICK A \in T : \A B \in T : ~(<<B, A>> \in StrictSubsetOrdering(S))
  BY <1>1, WFMin
<1> QED
  BY <1>2 DEF StrictSubsetOrdering

Some(s) == CHOOSE x \in s : TRUE

\* g adds up f over every subset of S.
AddsUp(f, S, g) == g = [s \in SUBSET S |-> IF s = {} THEN 0 ELSE f[Some(s)] + g[s \ {Some(s)}]]

\* SumFunctionOnSet is the last value of a function that adds up.
LEMMA SumIsIter ==
    ASSUME NEW f, NEW S
    PROVE  SumFunctionOnSet(f, S) = (CHOOSE g : AddsUp(f, S, g))[S]
  BY DEF SumFunctionOnSet, FoldFunctionOnSet, MapThenFoldSet, AddsUp, Some

\* What is taken from a set is in it.
LEMMA SomeIn == ASSUME NEW s, s # {} PROVE Some(s) \in s
  BY DEF Some

\* There is one way to add up.
LEMMA AddsUpOnce ==
    ASSUME NEW f, NEW S, NEW g, NEW R, NEW h, IsFiniteSet(S), AddsUp(f, S, g), AddsUp(f, R, h), NEW A, A \subseteq S, A \subseteq R
    PROVE  g[A] = h[A]
<1> DEFINE T == {B \in SUBSET A : g[B] # h[B]}
<1>1. SUFFICES ASSUME T # {} PROVE FALSE
  OBVIOUS
<1>2. PICK B \in T : \A C \in T : ~(C \subseteq B /\ C # B)
  <2>1. IsFiniteSet(A)
    BY FS_Subset
  <2> HIDE DEF T
  <2>2. T \subseteq SUBSET A
    BY DEF T
  <2> QED
    BY <1>1, <2>1, <2>2, Smallest
<1>3. B \in SUBSET S /\ B \in SUBSET R
  OBVIOUS
<1>4. g[B] = IF B = {} THEN 0 ELSE f[Some(B)] + g[B \ {Some(B)}]
  BY <1>3 DEF AddsUp
<1>5. h[B] = IF B = {} THEN 0 ELSE f[Some(B)] + h[B \ {Some(B)}]
  BY <1>3 DEF AddsUp
<1>6. B # {}
  BY <1>2, <1>4, <1>5
<1>7. g[B \ {Some(B)}] = h[B \ {Some(B)}]
  BY <1>2, <1>6, SomeIn
<1> QED
  BY <1>2, <1>4, <1>5, <1>6, <1>7

\* So the sum is what any function that adds up says it is.
LEMMA SumAddsUp ==
    ASSUME NEW f, NEW S, IsFiniteSet(S), NEW g, AddsUp(f, S, g)
    PROVE  SumFunctionOnSet(f, S) = g[S]
<1>1. AddsUp(f, S, CHOOSE h : AddsUp(f, S, h))
  OBVIOUS
<1> QED
  BY <1>1, SumIsIter, AddsUpOnce

\* Every finite sum can be added up.
LEMMA AddsUpExists ==
    ASSUME NEW f, NEW S, IsFiniteSet(S)
    PROVE  \E g : AddsUp(f, S, g)
<1> DEFINE T == {A \in SUBSET S : ~ \E g : AddsUp(f, A, g)}
<1>1. SUFFICES ASSUME T # {} PROVE FALSE
  OBVIOUS
<1>2. PICK A \in T : \A C \in T : ~(C \subseteq A /\ C # A)
  <2> HIDE DEF T
  <2>2. T \subseteq SUBSET S
    BY DEF T
  <2> QED
    BY <1>1, <2>2, Smallest
<1> DEFINE G == [s \in SUBSET A |-> IF s = {} THEN 0 ELSE f[Some(s)] + SumFunctionOnSet(f, s \ {Some(s)})]
<1>3. ASSUME NEW s \in SUBSET A, s # {}
      PROVE  G[s \ {Some(s)}] = SumFunctionOnSet(f, s \ {Some(s)})
  <2> DEFINE t == s \ {Some(s)}
  <2>1. t \in SUBSET A /\ t # A /\ t \in SUBSET S
    BY <1>3, SomeIn
  <2>2. IsFiniteSet(t) /\ IsFiniteSet(t \ {Some(t)})
    BY <2>1, FS_Subset
  <2> HIDE DEF t
  <2>3. PICK g : AddsUp(f, t, g)
    BY <1>2, <2>1
  <2>4. SumFunctionOnSet(f, t) = g[t]
    BY <2>2, <2>3, SumAddsUp
  <2>5. g[t] = IF t = {} THEN 0 ELSE f[Some(t)] + g[t \ {Some(t)}]
    BY <2>3 DEF AddsUp
  <2>6. CASE t = {}
    BY <2>1, <2>4, <2>5, <2>6 DEF t
  <2>7. CASE t # {}
    <3> DEFINE u == t \ {Some(t)}
    <3>1. u \in SUBSET A /\ u # A /\ u \subseteq t /\ u \in SUBSET S
      BY <2>1
    <3>2. PICK h : AddsUp(f, u, h)
      BY <1>2, <3>1
    <3>3. SumFunctionOnSet(f, u) = h[u]
      BY <2>2, <3>2, SumAddsUp
    <3>4. h[u] = g[u]
      BY <2>2, <2>3, <3>1, <3>2, AddsUpOnce
    <3> QED
      BY <2>1, <2>4, <2>5, <2>7, <3>3, <3>4 DEF t
  <2> QED
    BY <2>6, <2>7
<1>4. G = [s \in SUBSET A |-> IF s = {} THEN 0 ELSE f[Some(s)] + G[s \ {Some(s)}]]
  BY <1>3
<1>5. AddsUp(f, A, G)
  BY <1>4 DEF AddsUp
<1> QED
  BY <1>2, <1>5

\* The sum of nothing, and the sum over the rest and one more.
LEMMA SumSome ==
    ASSUME NEW f, NEW S, IsFiniteSet(S)
    PROVE  /\ S = {} => SumFunctionOnSet(f, S) = 0
           /\ S # {} => SumFunctionOnSet(f, S) = f[Some(S)] + SumFunctionOnSet(f, S \ {Some(S)})
<1>1. PICK g : AddsUp(f, S, g)
  BY AddsUpExists
<1>2. SumFunctionOnSet(f, S) = g[S]
  BY <1>1, SumAddsUp
<1>3. g[S] = IF S = {} THEN 0 ELSE f[Some(S)] + g[S \ {Some(S)}]
  BY <1>1 DEF AddsUp
<1> DEFINE t == S \ {Some(S)}
<1>4. IsFiniteSet(t) /\ t \subseteq S
  BY FS_Subset
<1> HIDE DEF t
<1>5. PICK h : AddsUp(f, t, h)
  BY <1>4, AddsUpExists
<1>6. SumFunctionOnSet(f, t) = h[t] /\ h[t] = g[t]
  BY <1>1, <1>4, <1>5, SumAddsUp, AddsUpOnce
<1> QED
  BY <1>2, <1>3, <1>6 DEF t

\* The empty sum.
LEMMA SumNone == ASSUME NEW f PROVE SumFunctionOnSet(f, {}) = 0
<1>1. IsFiniteSet({})
  BY FS_EmptySet
<1> QED
  BY <1>1, SumSome

\* Induction over the subsets of a finite set, for a property given as the set
\* of subsets that have it: a subset has it if all smaller ones do.
LEMMA SubsetsInduction ==
    ASSUME NEW S, IsFiniteSet(S), NEW T,
           \A A \in SUBSET S : (\A B \in SUBSET A : B # A => B \in T) => A \in T
    PROVE  S \in T
<1> DEFINE U == (SUBSET S) \ T
<1>1. SUFFICES ASSUME U # {} PROVE FALSE
  OBVIOUS
<1>2. U \subseteq SUBSET S
  OBVIOUS
<1> HIDE DEF U
<1>3. PICK A \in U : \A C \in U : ~(C \subseteq A /\ C # A)
  BY <1>1, <1>2, Smallest
<1> QED
  BY <1>3 DEF U

\* A sum of natural numbers.
LEMMA SumNat ==
    ASSUME NEW f, NEW S, IsFiniteSet(S), \A x \in S : f[x] \in Nat
    PROVE  SumFunctionOnSet(f, S) \in Nat
<1> DEFINE T == {A \in SUBSET S : SumFunctionOnSet(f, A) \in Nat}
<1>1. ASSUME NEW A \in SUBSET S, \A B \in SUBSET A : B # A => B \in T PROVE A \in T
  <2>1. CASE A = {}
    BY <2>1, SumNone
  <2>2. CASE A # {}
    <3>1. IsFiniteSet(A) /\ Some(A) \in A /\ f[Some(A)] \in Nat
      BY <2>2, FS_Subset, SomeIn
    <3>2. SumFunctionOnSet(f, A \ {Some(A)}) \in Nat
      BY <1>1, <3>1
    <3> QED
      BY <2>2, <3>1, <3>2, SumSome
  <2> QED
    BY <2>1, <2>2
<1> HIDE DEF T
<1>2. S \in T
  BY <1>1, SubsetsInduction
<1> QED
  BY <1>2 DEF T

\* Functions that agree have the same sum.
LEMMA SumSame ==
    ASSUME NEW f, NEW h, NEW S, IsFiniteSet(S), \A x \in S : f[x] = h[x]
    PROVE  SumFunctionOnSet(f, S) = SumFunctionOnSet(h, S)
<1> DEFINE T == {A \in SUBSET S : SumFunctionOnSet(f, A) = SumFunctionOnSet(h, A)}
<1>1. ASSUME NEW A \in SUBSET S, \A B \in SUBSET A : B # A => B \in T PROVE A \in T
  <2>1. CASE A = {}
    BY <2>1, SumNone
  <2>2. CASE A # {}
    <3>1. IsFiniteSet(A) /\ Some(A) \in A /\ f[Some(A)] = h[Some(A)]
      BY <2>2, FS_Subset, SomeIn
    <3>2. SumFunctionOnSet(f, A \ {Some(A)}) = SumFunctionOnSet(h, A \ {Some(A)})
      BY <1>1, <3>1
    <3>3. SumFunctionOnSet(f, A) = f[Some(A)] + SumFunctionOnSet(f, A \ {Some(A)})
      BY <2>2, <3>1, SumSome
    <3>4. SumFunctionOnSet(h, A) = h[Some(A)] + SumFunctionOnSet(h, A \ {Some(A)})
      BY <2>2, <3>1, SumSome
    <3> QED
      BY <3>1, <3>2, <3>3, <3>4
  <2> QED
    BY <2>1, <2>2
<1> HIDE DEF T
<1>2. S \in T
  BY <1>1, SubsetsInduction
<1> QED
  BY <1>2 DEF T

\* Any one member can be taken out of a sum.
LEMMA SumRemove ==
    ASSUME NEW f, NEW S, IsFiniteSet(S), \A y \in S : f[y] \in Nat, NEW x \in S
    PROVE  SumFunctionOnSet(f, S) = f[x] + SumFunctionOnSet(f, S \ {x})
<1> DEFINE T == {A \in SUBSET S : \A y \in A : SumFunctionOnSet(f, A) = f[y] + SumFunctionOnSet(f, A \ {y})}
<1>1. ASSUME NEW A \in SUBSET S, \A B \in SUBSET A : B # A => B \in T, NEW y \in A
      PROVE  SumFunctionOnSet(f, A) = f[y] + SumFunctionOnSet(f, A \ {y})
  <2> DEFINE c == Some(A)
  <2>1. IsFiniteSet(A) /\ c \in A /\ IsFiniteSet((A \ {c}) \ {y})
    BY FS_Subset, SomeIn
  <2>2. SumFunctionOnSet(f, A) = f[c] + SumFunctionOnSet(f, A \ {c})
    BY <2>1, SumSome
  <2> HIDE DEF c
  <2>3. CASE y = c
    BY <2>2, <2>3
  <2>4. CASE y # c
    <3>1. SumFunctionOnSet(f, A \ {c}) = f[y] + SumFunctionOnSet(f, (A \ {c}) \ {y})
      BY <1>1, <2>1, <2>4
    <3>2. SumFunctionOnSet(f, A \ {y}) = f[c] + SumFunctionOnSet(f, (A \ {y}) \ {c})
      BY <1>1, <2>1, <2>4
    <3>3. (A \ {y}) \ {c} = (A \ {c}) \ {y}
      OBVIOUS
    <3>4. SumFunctionOnSet(f, (A \ {c}) \ {y}) \in Nat
      BY <2>1, SumNat
    <3> QED
      BY <2>1, <2>2, <3>1, <3>2, <3>3, <3>4
  <2> QED
    BY <2>3, <2>4
<1>2. \A A \in SUBSET S : (\A B \in SUBSET A : B # A => B \in T) => A \in T
  BY <1>1
<1> HIDE DEF T
<1>3. S \in T
  BY <1>2, SubsetsInduction
<1> QED
  BY <1>3 DEF T

\* A sum whose function changes at one member only.
LEMMA SumChange ==
    ASSUME NEW f, NEW h, NEW S, IsFiniteSet(S), NEW x \in S,
           \A y \in S : f[y] \in Nat /\ h[y] \in Nat,
           \A y \in S \ {x} : h[y] = f[y]
    PROVE  SumFunctionOnSet(h, S) + f[x] = SumFunctionOnSet(f, S) + h[x]
<1>1. IsFiniteSet(S \ {x})
  BY FS_Subset
<1>2. SumFunctionOnSet(f, S \ {x}) = SumFunctionOnSet(h, S \ {x}) /\ SumFunctionOnSet(f, S \ {x}) \in Nat
  BY <1>1, SumSame, SumNat
<1>3. /\ SumFunctionOnSet(f, S) = f[x] + SumFunctionOnSet(f, S \ {x})
      /\ SumFunctionOnSet(h, S) = h[x] + SumFunctionOnSet(h, S \ {x})
  BY SumRemove
<1> QED
  BY <1>2, <1>3

\* A sum is the sum of two parts.
LEMMA SumSplit ==
    ASSUME NEW f, NEW S, IsFiniteSet(S), \A x \in S : f[x] \in Nat, NEW R, R \subseteq S
    PROVE  SumFunctionOnSet(f, S) = SumFunctionOnSet(f, R) + SumFunctionOnSet(f, S \ R)
<1> DEFINE T == {A \in SUBSET R : SumFunctionOnSet(f, S) = SumFunctionOnSet(f, A) + SumFunctionOnSet(f, S \ A)}
<1>1. ASSUME NEW A \in SUBSET R, \A B \in SUBSET A : B # A => B \in T PROVE A \in T
  <2>1. CASE A = {}
    <3>1. S \ A = S /\ SumFunctionOnSet(f, S) \in Nat
      BY <2>1, SumNat
    <3> QED
      BY <2>1, <3>1, SumNone
  <2>2. CASE A # {}
    <3> DEFINE c == Some(A)
    <3>1. c \in A /\ c \in S /\ IsFiniteSet(A) /\ IsFiniteSet(A \ {c}) /\ IsFiniteSet(S \ A) /\ IsFiniteSet(S \ (A \ {c}))
      BY <2>2, SomeIn, FS_Subset
    <3> HIDE DEF c
    <3>2. SumFunctionOnSet(f, S) = SumFunctionOnSet(f, A \ {c}) + SumFunctionOnSet(f, S \ (A \ {c}))
      BY <1>1, <3>1
    <3>3. SumFunctionOnSet(f, A) = f[c] + SumFunctionOnSet(f, A \ {c})
      BY <3>1, SumRemove
    <3>4. SumFunctionOnSet(f, S \ (A \ {c})) = f[c] + SumFunctionOnSet(f, S \ A)
      <4>1. (S \ (A \ {c})) \ {c} = S \ A /\ c \in S \ (A \ {c})
        BY <3>1
      <4>2. \A y \in S \ (A \ {c}) : f[y] \in Nat
        OBVIOUS
      <4> QED
        BY <3>1, <4>1, <4>2, SumRemove
    <3>5. SumFunctionOnSet(f, A \ {c}) \in Nat /\ SumFunctionOnSet(f, S \ A) \in Nat /\ f[c] \in Nat
      BY <3>1, SumNat
    <3> QED
      BY <3>2, <3>3, <3>4, <3>5
  <2> QED
    BY <2>1, <2>2
<1> HIDE DEF T
<1>2. IsFiniteSet(R)
  BY FS_Subset
<1>3. R \in T
  BY <1>1, <1>2, SubsetsInduction
<1> QED
  BY <1>3 DEF T

\* A sum of zeros.
LEMMA SumZero ==
    ASSUME NEW f, NEW S, IsFiniteSet(S), \A x \in S : f[x] = 0
    PROVE  SumFunctionOnSet(f, S) = 0
<1> DEFINE T == {A \in SUBSET S : SumFunctionOnSet(f, A) = 0}
<1>1. ASSUME NEW A \in SUBSET S, \A B \in SUBSET A : B # A => B \in T PROVE A \in T
  <2>1. CASE A = {}
    BY <2>1, SumNone
  <2>2. CASE A # {}
    <3>1. IsFiniteSet(A) /\ Some(A) \in A /\ f[Some(A)] = 0
      BY <2>2, FS_Subset, SomeIn
    <3>2. SumFunctionOnSet(f, A \ {Some(A)}) = 0
      BY <1>1, <3>1
    <3> QED
      BY <2>2, <3>1, <3>2, SumSome
  <2> QED
    BY <2>1, <2>2
<1> HIDE DEF T
<1>2. S \in T
  BY <1>1, SubsetsInduction
<1> QED
  BY <1>2 DEF T

\* A sum of smaller numbers is not larger.
LEMMA SumAtMost ==
    ASSUME NEW f, NEW h, NEW S, IsFiniteSet(S), \A x \in S : f[x] \in Nat /\ h[x] \in Nat /\ h[x] <= f[x]
    PROVE  SumFunctionOnSet(h, S) <= SumFunctionOnSet(f, S)
<1> DEFINE T == {A \in SUBSET S : SumFunctionOnSet(h, A) <= SumFunctionOnSet(f, A)}
<1>1. ASSUME NEW A \in SUBSET S, \A B \in SUBSET A : B # A => B \in T PROVE A \in T
  <2>1. CASE A = {}
    BY <2>1, SumNone
  <2>2. CASE A # {}
    <3> DEFINE c == Some(A)
    <3> DEFINE B == A \ {c}
    <3>1. IsFiniteSet(A) /\ IsFiniteSet(B) /\ c \in A /\ f[c] \in Nat /\ h[c] \in Nat /\ h[c] <= f[c]
      BY <2>2, FS_Subset, SomeIn
    <3>2. SumFunctionOnSet(h, B) <= SumFunctionOnSet(f, B)
      BY <1>1, <3>1
    <3>3. SumFunctionOnSet(f, A) = f[c] + SumFunctionOnSet(f, B)
      BY <2>2, <3>1, SumSome
    <3>4. SumFunctionOnSet(h, A) = h[c] + SumFunctionOnSet(h, B)
      BY <2>2, <3>1, SumSome
    <3>5. SumFunctionOnSet(h, B) \in Nat /\ SumFunctionOnSet(f, B) \in Nat
      BY <3>1, SumNat
    <3> QED
      BY <3>1, <3>2, <3>3, <3>4, <3>5
  <2> QED
    BY <2>1, <2>2
<1> HIDE DEF T
<1>2. S \in T
  BY <1>1, SubsetsInduction
<1> QED
  BY <1>2 DEF T

-----------------------------------------------------------------------------
(***************************************************************************)
(* The units of the orders.  What a request holds of a record are the      *)
(* units in its stored order, or in the cart it is filling; what all       *)
(* requests hold together has been taken from the shelf.                   *)
(***************************************************************************)

UnitsOf(item, r) == IF item.id = r THEN item.qty ELSE 0

\* The units of an order are a natural number.
LEMMA UnitsNat ==
    ASSUME NEW items \in Seq(OrderItem), NEW r
    PROVE  Units(items, r) \in Nat
<1> DEFINE f == [i \in DOMAIN items |-> IF items[i].id = r THEN items[i].qty ELSE 0]
<1>1. DOMAIN items = 1..Len(items) /\ Len(items) \in Nat
  OBVIOUS
<1>2. IsFiniteSet(DOMAIN f)
  BY <1>1, FS_Interval
<1>3. \A i \in DOMAIN f : f[i] \in Nat
  <2> TAKE i \in DOMAIN f
  <2>1. items[i] \in OrderItem
    BY <1>1
  <2> QED
    BY <2>1, StockRange DEF OrderItem
<1> HIDE DEF f
<1>4. SumFunctionOnSet(f, DOMAIN f) \in Nat
  BY <1>2, <1>3, SumNat
<1> QED
  BY <1>4 DEF f, Units, SumFunction

\* An order without lines has no units.
LEMMA UnitsNone == ASSUME NEW r PROVE Units(<< >>, r) = 0
<1> DEFINE f == [i \in DOMAIN << >> |-> IF << >>[i].id = r THEN << >>[i].qty ELSE 0]
<1>1. DOMAIN f = {}
  OBVIOUS
<1> HIDE DEF f
<1>2. SumFunctionOnSet(f, DOMAIN f) = 0
  BY <1>1, SumNone
<1> QED
  BY <1>2 DEF f, Units, SumFunction

\* A line more brings its own units and no others.
LEMMA UnitsAppend ==
    ASSUME NEW items \in Seq(OrderItem), NEW item \in OrderItem, NEW r
    PROVE  Units(Append(items, item), r) = Units(items, r) + UnitsOf(item, r)
<1> DEFINE n == Len(items)
<1> DEFINE more == Append(items, item)
<1> DEFINE f == [i \in DOMAIN items |-> IF items[i].id = r THEN items[i].qty ELSE 0]
<1> DEFINE g == [i \in DOMAIN more |-> IF more[i].id = r THEN more[i].qty ELSE 0]
<1>1. n \in Nat /\ DOMAIN items = 1..n /\ DOMAIN more = 1..(n + 1)
  OBVIOUS
<1>2. more \in Seq(OrderItem) /\ more[n + 1] = item /\ \A i \in 1..n : more[i] = items[i]
  OBVIOUS
<1>3. IsFiniteSet(DOMAIN f) /\ IsFiniteSet(DOMAIN g)
  BY <1>1, FS_Interval
<1>4. \A i \in DOMAIN g : g[i] \in Nat
  <2> TAKE i \in DOMAIN g
  <2>1. more[i] \in OrderItem
    BY <1>1, <1>2
  <2> QED
    BY <2>1, StockRange DEF OrderItem
<1>5. DOMAIN g \ {n + 1} = DOMAIN f /\ n + 1 \in DOMAIN g
  BY <1>1
<1>6. \A i \in DOMAIN f : f[i] = g[i]
  BY <1>1, <1>2
<1>7. g[n + 1] = UnitsOf(item, r)
  BY <1>1, <1>2 DEF UnitsOf
<1>8. Units(items, r) \in Nat
  BY UnitsNat
<1>9. UnitsOf(item, r) \in Nat
  BY <1>4, <1>5, <1>7
<1> HIDE DEF f, g, n
<1>10. SumFunctionOnSet(g, DOMAIN g) = g[n + 1] + SumFunctionOnSet(g, DOMAIN g \ {n + 1})
  BY <1>3, <1>4, <1>5, SumRemove
<1>11. SumFunctionOnSet(f, DOMAIN f) = SumFunctionOnSet(g, DOMAIN f)
  BY <1>3, <1>6, SumSame
<1>12. Units(items, r) = SumFunctionOnSet(f, DOMAIN f)
  BY DEF f, Units, SumFunction
<1>13. Units(more, r) = SumFunctionOnSet(g, DOMAIN g)
  BY DEF g, Units, SumFunction
<1> HIDE DEF more
<1> QED
  BY <1>5, <1>7, <1>8, <1>9, <1>10, <1>11, <1>12, <1>13 DEF more

HeldBy(p, r) == IF orders[p] # NoOrder THEN Units(orders[p].items, r)
                ELSE IF Serves(p, "create") THEN Units(ord[p].items, r)
                ELSE 0

Held(r) == SumFunctionOnSet([p \in Requests |-> HeldBy(p, r)], Requests)

\* What is held was taken, and as long as no CreateOrder has failed nothing else was.
Backed(r) == Held(r) <= taken[r] /\ (RejectedCreates = {} => Held(r) = taken[r])

\* What a request holds is a natural number.
LEMMA HeldByNat == ASSUME Typed, NEW p \in Requests, NEW r PROVE HeldBy(p, r) \in Nat
<1>1. orders[p] # NoOrder => orders[p] \in Order
  BY DEF Typed, TypeOK
<1>2. Serves(p, "create") => ord[p] \in Order
  BY DEF Typed, ControlOK, Control
<1> QED
  BY <1>1, <1>2, UnitsNat DEF HeldBy, Order

\* The same after a step.
LEMMA HeldByNatNext == ASSUME Typed', NEW p \in Requests, NEW r \in Records PROVE HeldBy(p, r)' \in Nat
<1>1. orders'[p] # NoOrder => orders'[p] \in Order
  BY DEF Typed, TypeOK
<1>2. Serves(p, "create")' => ord'[p] \in Order
  BY DEF Typed, ControlOK, Control
<1> QED
  BY <1>1, <1>2, UnitsNat DEF HeldBy, Order

\* What is held of r is what is in pending orders, in cancelled ones and in carts.
LEMMA HeldIsBooked ==
    ASSUME Typed, OrdersOK, NEW r
    PROVE  /\ Held(r) = Sales(r) + Refunds(r) + InCarts(r)
           /\ Sales(r) \in Nat /\ Refunds(r) \in Nat /\ InCarts(r) \in Nat
<1> DEFINE f == [p \in Requests |-> HeldBy(p, r)]
<1> DEFINE P == {o \in Requests : Pending(o)}
<1> DEFINE C == {o \in Requests : Cancelled(o)}
<1> DEFINE sold == [o \in P |-> Units(orders[o].items, r)]
<1> DEFINE refunded == [o \in C |-> Units(orders[o].items, r)]
<1> DEFINE filling == [p \in Carts |-> Units(ord[p].items, r)]
<1>1. \A p \in Requests : f[p] = HeldBy(p, r) /\ f[p] \in Nat
  BY HeldByNat
<1>2. \A o \in Requests : orders[o] # NoOrder => o \in P \/ o \in C
  BY DEF Pending, Cancelled, Typed, TypeOK, Order
<1>3. \A o \in Requests : ~(o \in P /\ o \in C)
  BY DEF Pending, Cancelled
<1>4. \A p \in Requests : p \in Carts <=> Serves(p, "create")
  BY DEF Carts, InFlight, Serves, Serving, Calls, Typed, TypeOK
<1>5. \A p \in Carts : p \in Requests /\ orders[p] = NoOrder
  BY <1>4 DEF OrdersOK, Building, Carts, InFlight
<1>6. \A p \in P : p \in Requests /\ f[p] = sold[p]
  BY <1>1 DEF Pending, HeldBy
<1>7. \A p \in C : p \in Requests /\ f[p] = refunded[p]
  BY <1>1 DEF Cancelled, HeldBy
<1>8. \A p \in Carts : f[p] = filling[p]
  BY <1>1, <1>4, <1>5 DEF HeldBy
<1>9. \A p \in Carts : p \notin P /\ p \notin C
  BY <1>5 DEF Pending, Cancelled
<1>10. \A p \in Requests : p \notin P /\ p \notin C /\ p \notin Carts => f[p] = 0
  BY <1>1, <1>2, <1>4 DEF HeldBy
<1>11. Sales(r) = SumFunctionOnSet(sold, P)
  BY DEF Sales, SumFunction
<1>12. Refunds(r) = SumFunctionOnSet(refunded, C)
  BY DEF Refunds, SumFunction
<1>13. InCarts(r) = SumFunctionOnSet(filling, Carts)
  BY DEF InCarts, SumFunction
<1>14. Held(r) = SumFunctionOnSet(f, Requests)
  BY DEF Held
<1> HIDE DEF f, P, C, sold, refunded, filling
<1>15. /\ P \subseteq Requests /\ C \subseteq Requests \ P /\ Carts \subseteq (Requests \ P) \ C
  BY <1>3, <1>5, <1>6, <1>7, <1>9
<1> DEFINE rest == ((Requests \ P) \ C) \ Carts
<1>16. /\ IsFiniteSet(Requests) /\ IsFiniteSet(P) /\ IsFiniteSet(Requests \ P) /\ IsFiniteSet(C)
       /\ IsFiniteSet((Requests \ P) \ C) /\ IsFiniteSet(Carts) /\ IsFiniteSet(rest)
  <2>1. \A S \in SUBSET Requests : IsFiniteSet(S)
    BY FiniteAssumption, FS_Subset
  <2> QED
    BY <1>15, <2>1, FiniteAssumption
<1>17. SumFunctionOnSet(f, P) = Sales(r)
  BY <1>6, <1>11, <1>16, SumSame
<1>18. SumFunctionOnSet(f, C) = Refunds(r)
  BY <1>7, <1>12, <1>16, SumSame
<1>19. SumFunctionOnSet(f, Carts) = InCarts(r)
  BY <1>8, <1>13, <1>16, SumSame
<1>20. SumFunctionOnSet(f, rest) = 0
  BY <1>10, <1>16, SumZero
<1>21. Sales(r) \in Nat /\ Refunds(r) \in Nat /\ InCarts(r) \in Nat
  BY <1>1, <1>6, <1>7, <1>5, <1>16, <1>17, <1>18, <1>19, SumNat
<1>22. Held(r) = Sales(r) + SumFunctionOnSet(f, Requests \ P)
  BY <1>1, <1>14, <1>15, <1>16, <1>17, SumSplit
<1>23. SumFunctionOnSet(f, Requests \ P) = Refunds(r) + SumFunctionOnSet(f, (Requests \ P) \ C)
  BY <1>1, <1>15, <1>16, <1>18, SumSplit
<1>24. SumFunctionOnSet(f, (Requests \ P) \ C) = InCarts(r) + SumFunctionOnSet(f, rest)
  BY <1>1, <1>15, <1>16, <1>19, SumSplit
<1> QED
  BY <1>20, <1>21, <1>22, <1>23, <1>24

-----------------------------------------------------------------------------
(* What a step of one handler does to the units held *)

\* The orders of all requests but p are stored by nobody.
OnlyStores(p) == Frozen /\ \A o \in Requests \ {p} : orders[o] = NoOrder => orders'[o] = NoOrder

\* What a step of p does to its own order and cart is all there is; an order
\* that loses units is one that is refused.
Moves(p, r) ==
    /\ HeldBy(p, r)' + taken[r] <= HeldBy(p, r) + taken'[r]
    /\ p \notin RejectedCreates' => HeldBy(p, r)' + taken[r] = HeldBy(p, r) + taken'[r]

\* The orders of the others keep their units.
LEMMA OthersHold ==
    ASSUME Typed, NEW p \in Requests, OnlyMoves(p), OnlyStores(p), NEW q \in Requests \ {p}, NEW r
    PROVE  HeldBy(q, r)' = HeldBy(q, r)
<1>1. pc'[q] = pc[q] /\ req'[q] = req[q] /\ ord'[q] = ord[q]
  BY DEF OnlyMoves
<1>2. CASE orders[q] # NoOrder
  BY <1>2, FrozenFields DEF OnlyStores, Frozen, HeldBy
<1>3. CASE orders[q] = NoOrder
  BY <1>1, <1>3 DEF OnlyStores, HeldBy, Serves, Serving
<1> QED
  BY <1>2, <1>3

\* One handler at a time moves units between the shelf and its own order.
LEMMA BackedFrame ==
    ASSUME Typed, Typed', NEW r \in Records, Backed(r), NEW p \in Requests,
           OnlyMoves(p), OnlyStores(p), pc[p] # "done", Moves(p, r)
    PROVE  Backed(r)'
<1> DEFINE f == [q \in Requests |-> HeldBy(q, r)]
<1> DEFINE g == [q \in Requests |-> HeldBy(q, r)']
<1>1. \A q \in Requests : f[q] = HeldBy(q, r) /\ f[q] \in Nat
  BY HeldByNat
<1>2. \A q \in Requests : g[q] = HeldBy(q, r)' /\ g[q] \in Nat
  BY HeldByNatNext
<1>3. \A q \in Requests \ {p} : g[q] = f[q]
  BY <1>1, <1>2, OthersHold
<1>4. Held(r) = SumFunctionOnSet(f, Requests) /\ Held(r)' = SumFunctionOnSet(g, Requests)
  BY DEF Held
<1>5. taken[r] \in Nat /\ taken'[r] \in Nat
  BY DEF Typed, TypeOK
<1> HIDE DEF f, g
<1>6. Held(r) \in Nat /\ Held(r)' \in Nat
  BY <1>1, <1>2, <1>4, FiniteAssumption, SumNat
<1>7. Held(r)' + f[p] = Held(r) + g[p]
  BY <1>1, <1>2, <1>3, <1>4, FiniteAssumption, SumChange
<1>8. RejectedCreates \subseteq RejectedCreates'
  BY DEF RejectedCreates, OnlyMoves
<1>9. Held(r)' <= taken'[r]
  BY <1>1, <1>2, <1>5, <1>6, <1>7 DEF Backed, Moves
<1>10. RejectedCreates' = {} => Held(r)' = taken'[r]
  <2> SUFFICES ASSUME RejectedCreates' = {} PROVE Held(r)' = taken'[r]
    OBVIOUS
  <2>1. Held(r) = taken[r] /\ HeldBy(p, r)' + taken[r] = HeldBy(p, r) + taken'[r]
    BY <1>8 DEF Backed, Moves
  <2> QED
    BY <1>1, <1>2, <1>5, <1>6, <1>7, <2>1
<1> QED
  BY <1>9, <1>10 DEF Backed

\* A handler that touches neither taken nor its order, nor creates one.
LEMMA QuietMoves ==
    ASSUME Typed, Typed', NEW p \in Requests, UNCHANGED taken, NEW r \in Records,
           HeldBy(p, r)' = HeldBy(p, r)
    PROVE  Moves(p, r)
<1>1. HeldBy(p, r) \in Nat /\ taken[r] \in Nat
  BY HeldByNat DEF Typed, TypeOK
<1> QED
  BY <1>1 DEF Moves

\* The units of a cart are in nobody's books when the handler refuses the order.
LEMMA RejectMoves ==
    ASSUME Typed, Typed', OrdersOK, NEW p \in Requests, Serves(p, "create"), NEW code,
           Return(p, code), code # 201, UNCHANGED <<req, orders>>, NEW r \in Records, taken[r] <= taken'[r]
    PROVE  Moves(p, r)
<1>1. TypeOK
  BY DEF Typed
<1>2. p \in RejectedCreates'
  BY <1>1 DEF Return, RejectedCreates, Serves, TypeOK
<1>3. HeldBy(p, r)' = 0
  BY <1>1 DEF Return, HeldBy, Serves, Serving, Calls, OrdersOK, Building, TypeOK
<1>4. HeldBy(p, r) \in Nat /\ taken[r] \in Nat /\ taken'[r] \in Nat
  BY HeldByNat DEF Typed, TypeOK
<1> QED
  BY <1>2, <1>3, <1>4 DEF Moves

\* A request arrives with no order and an empty cart.
LEMMA AcceptMoves ==
    ASSUME Typed, Typed', OrdersOK, NEW p \in Requests, Accept(p)
    PROVE  OnlyMoves(p) /\ OnlyStores(p) /\ \A r \in Records : Moves(p, r)
<1>1. TypeOK /\ UNCHANGED <<orders, resp, taken>> /\ pc[p] = "idle" /\ req[p] = NoRequest
  BY DEF Typed, ControlOK, Control, Accept, store, history
<1>2. PICK q \in Request :
          /\ req' = [req EXCEPT ![p] = q]
          /\ Goto(p, FirstCall(q))
          /\ idx' = [idx EXCEPT ![p] = 1]
          /\ ord' = IF q.op = "create" THEN [ord EXCEPT ![p] = NewOrder(q.user)] ELSE ord
  BY DEF Accept
<1>3. OnlyMoves(p) /\ OnlyStores(p)
  BY <1>1, <1>2 DEF OnlyMoves, OnlyStores, Frozen, Goto, TypeOK
<1>4. orders[p] = NoOrder
  BY <1>1 DEF OrdersOK, Stored
<1>5. ASSUME NEW r \in Records PROVE HeldBy(p, r) = 0 /\ HeldBy(p, r)' = 0
  <2>1. HeldBy(p, r) = 0
    BY <1>1, <1>4 DEF HeldBy, Serves, Serving, Calls
  <2>2. q.op = "create" => ord'[p].items = << >>
    BY <1>1, <1>2 DEF NewOrder, TypeOK
  <2>3. req'[p] = q
    BY <1>1, <1>2 DEF TypeOK
  <2> QED
    BY <1>1, <1>4, <2>1, <2>2, <2>3, UnitsNone DEF HeldBy, Serves
<1> QED
  BY <1>1, <1>3, <1>5, QuietMoves

\* A handler that answers.
LEMMA ReturnOnly ==
    ASSUME Typed, NEW p \in Requests, NEW code, Return(p, code), UNCHANGED <<req, orders>>
    PROVE  OnlyMoves(p) /\ OnlyStores(p)
  BY ReturnMoves DEF OnlyStores, Frozen

\* CreateOrder puts into the cart what it takes, and stores what is in it.
LEMMA CreateMoves ==
    ASSUME Typed, Typed', OrdersOK, NEW p \in Requests, Create(p)
    PROVE  OnlyMoves(p) /\ OnlyStores(p) /\ \A r \in Records : Moves(p, r)
<1>1. TypeOK /\ UNCHANGED req
  BY DEF Typed, Create, CreateGetRecord, CreateDecrementStock, CreateSaveOrder
<1>2. Serves(p, "create") /\ At(p, "create", pc[p])
  BY DEF Create, CreateGetRecord, CreateDecrementStock, CreateSaveOrder, At, Serves, Serving, Calls
<1>3. orders[p] = NoOrder
  BY <1>2 DEF OrdersOK, Building
<1>4. \A r \in Records : taken[r] \in Nat
  BY <1>1 DEF TypeOK
<1>5. ASSUME NEW code \in {404, 409}, Refuse(p, code)
      PROVE  OnlyMoves(p) /\ OnlyStores(p) /\ \A r \in Records : Moves(p, r)
  BY <1>1, <1>2, <1>4, <1>5, RejectMoves, ReturnOnly DEF Refuse, store, history
<1>6. CASE CreateGetRecord(p)
  <2>1. ASSUME NEW doc, Hold(p, doc, "DecrementStock"), UNCHANGED <<idx, history>>
        PROVE  OnlyMoves(p) /\ OnlyStores(p) /\ \A r \in Records : Moves(p, r)
    <3>1. OnlyMoves(p) /\ OnlyStores(p)
      BY <1>1, <2>1 DEF Hold, Goto, OnlyMoves, OnlyStores, Frozen, TypeOK, store
    <3>2. \A r \in Records : HeldBy(p, r)' = HeldBy(p, r)
      BY <1>1, <1>2, <2>1 DEF Hold, Goto, HeldBy, Serves, Serving, Calls, TypeOK, store
    <3> QED
      BY <2>1, <3>1, <3>2, QuietMoves DEF history
  <2> QED
    BY <1>5, <1>6, <2>1 DEF CreateGetRecord
<1>7. CASE CreateDecrementStock(p)
  <2>1. CASE Refuse(p, 409)
    BY <1>5, <2>1
  <2>2. CASE taken' = Gain(taken, Line(p).id, Line(p).qty) /\ UNCHANGED orders
    <3>1. Line(p) \in Item /\ ord[p] \in Order /\ rec[p] \in Doc
      BY <1>7, Creating DEF CreateDecrementStock, Calls, Typed, ControlOK, Control, At
    <3>2. Line(p).id \in Records /\ Line(p).qty \in Nat
      BY <3>1, StockRange DEF Item
    <3>3. ASSUME NEW r \in Records PROVE taken'[r] = taken[r] + UnitsOf(Line(p), r)
      BY <1>1, <1>4, <2>2, <3>2 DEF Gain, UnitsOf, TypeOK
    <3>4. \A r \in Records : taken[r] <= taken'[r]
      BY <1>4, <3>2, <3>3 DEF UnitsOf
    <3>5. CASE Return(p, 500)
      BY <1>1, <1>2, <2>2, <3>4, <3>5, RejectMoves, ReturnOnly
    <3>6. CASE /\ ord' = [ord EXCEPT ![p].items = Append(@, Sold(p))]
               /\ idx' = [idx EXCEPT ![p] = @ + 1]
               /\ Goto(p, NextLine(p, Len(req[p].items), "SaveOrder"))
               /\ UNCHANGED <<rec, resp>>
      <4>1. OnlyMoves(p) /\ OnlyStores(p)
        BY <1>1, <2>2, <3>6 DEF Goto, OnlyMoves, OnlyStores, Frozen, TypeOK
      <4>2. Sold(p) \in OrderItem /\ ord[p].items \in Seq(OrderItem)
        BY <3>1 DEF Sold, OrderItem, Item, Doc, Order
      <4>3. ord'[p].items = Append(ord[p].items, Sold(p))
        BY <1>1, <3>1, <3>6 DEF TypeOK, Order
      <4>4. Serves(p, "create")'
        BY <1>1, <1>2, <3>6 DEF Serves, Serving, Goto, NextLine, Calls, TypeOK
      <4>5. ASSUME NEW r \in Records PROVE Moves(p, r)
        <5>1. HeldBy(p, r) = Units(ord[p].items, r)
          BY <1>2, <1>3 DEF HeldBy
        <5>2. HeldBy(p, r)' = Units(ord[p].items, r) + UnitsOf(Sold(p), r)
          BY <1>3, <2>2, <4>2, <4>3, <4>4, UnitsAppend DEF HeldBy
        <5>3. UnitsOf(Sold(p), r) = UnitsOf(Line(p), r) /\ UnitsOf(Line(p), r) \in Nat
          BY <3>2 DEF UnitsOf, Sold
        <5>4. Units(ord[p].items, r) \in Nat
          BY <4>2, UnitsNat
        <5> QED
          BY <1>4, <3>3, <5>1, <5>2, <5>3, <5>4 DEF Moves
      <4> QED
        BY <4>1, <4>5
    <3> QED
      BY <1>7, <2>2, <3>5, <3>6, <2>1, <1>5 DEF CreateDecrementStock
  <2> QED
    BY <1>7, <2>1, <2>2 DEF CreateDecrementStock
<1>8. CASE CreateSaveOrder(p)
  <2>1. orders' = [orders EXCEPT ![p] = ord[p]] /\ UNCHANGED taken
    BY <1>8 DEF CreateSaveOrder, history
  <2>2. ord[p] \in Order
    BY <1>8, Creating DEF CreateSaveOrder, Calls
  <2>3. orders'[p] = ord[p] /\ orders'[p] # NoOrder /\ \A o \in Requests \ {p} : orders'[o] = orders[o]
    BY <1>1, <2>1, <2>2, SentinelAssumption DEF TypeOK
  <2>4. OnlyMoves(p) /\ OnlyStores(p)
    BY <1>1, <1>3, <1>8, <2>3, ReturnMoves, WrittenReturns DEF CreateSaveOrder, OnlyStores, Frozen
  <2>5. \A r \in Records : HeldBy(p, r)' = HeldBy(p, r)
    BY <1>2, <1>3, <2>3 DEF HeldBy
  <2> QED
    BY <2>1, <2>4, <2>5, QuietMoves
<1> QED
  BY <1>6, <1>7, <1>8 DEF Create

\* A handler that creates no order, and leaves those of the store as they are.
LEMMA BystanderMoves ==
    ASSUME Typed, Typed', NEW p \in Requests, req[p].op # "create", OnlyMoves(p), UNCHANGED <<orders, taken, req>>
    PROVE  OnlyStores(p) /\ \A r \in Records : Moves(p, r)
<1>1. OnlyStores(p)
  BY DEF OnlyStores, Frozen
<1>2. \A r \in Records : HeldBy(p, r)' = HeldBy(p, r)
  BY DEF HeldBy, Serves
<1> QED
  BY <1>1, <1>2, QuietMoves

\* A handler that goes on moves nobody else.
LEMMA GoOnMoves ==
    ASSUME Typed, NEW p \in Requests, NEW call, Goto(p, call), UNCHANGED <<req, resp>>,
           \A q \in Requests \ {p} : ord'[q] = ord[q] /\ idx'[q] = idx[q]
    PROVE  OnlyMoves(p)
  BY DEF Goto, OnlyMoves, Typed, TypeOK

\* CancelOrder gives no units to any order: those it cancels keep theirs.
LEMMA CancelMoves ==
    ASSUME Typed, Typed', OrdersOK, NEW p \in Requests, Cancel(p)
    PROVE  OnlyMoves(p) /\ OnlyStores(p) /\ \A r \in Records : Moves(p, r)
<1>1. TypeOK /\ UNCHANGED <<req, taken>>
  BY DEF Typed, Cancel, CancelGetOrder, CancelGetRecord, CancelSaveRecord, CancelSaveOrder, Refuse, history
<1>2. At(p, "cancel", pc[p]) /\ pc[p] \in Calls
  BY DEF Cancel, CancelGetOrder, CancelGetRecord, CancelSaveRecord, CancelSaveOrder, At, Calls
<1>3. CASE UNCHANGED orders /\ OnlyMoves(p)
  BY <1>1, <1>2, <1>3, BystanderMoves DEF At
<1>4. CASE CancelGetOrder(p)
  <2>1. UNCHANGED orders
    BY <1>4 DEF CancelGetOrder, Refuse, store
  <2>2. OnlyMoves(p)
    <3>1. ASSUME NEW code, Refuse(p, code) PROVE OnlyMoves(p)
      BY <1>1, <3>1, ReturnMoves DEF Refuse
    <3>2. CASE /\ ord' = [ord EXCEPT ![p] = orders[req[p].order]]
               /\ Goto(p, "GetRecord")
               /\ UNCHANGED <<store, rec, idx, resp, history>>
      BY <1>1, <3>2, GoOnMoves DEF TypeOK
    <3> QED
      BY <1>4, <3>1, <3>2 DEF CancelGetOrder
  <2> QED
    BY <1>3, <2>1, <2>2
<1>5. CASE CancelGetRecord(p)
  <2>1. UNCHANGED <<orders, ord, resp>>
    BY <1>5 DEF CancelGetRecord, Hold, store
  <2>2. \A q \in Requests \ {p} : idx'[q] = idx[q]
    BY <1>1, <1>5 DEF CancelGetRecord, TypeOK
  <2>3. OnlyMoves(p)
    BY <1>1, <1>5, <2>1, <2>2, GoOnMoves DEF CancelGetRecord, Hold
  <2> QED
    BY <1>3, <2>1, <2>3
<1>6. CASE CancelSaveRecord(p)
  <2>1. UNCHANGED orders
    BY <1>6 DEF CancelSaveRecord
  <2>2. OnlyMoves(p)
    BY <1>1, <1>6, ReturnMoves, GoOnMoves DEF CancelSaveRecord, TypeOK
  <2> QED
    BY <1>3, <2>1, <2>2
<1>7. CASE CancelSaveOrder(p)
  <2> DEFINE o == req[p].order
  <2>1. o \in Requests /\ orders[o] # NoOrder
    BY <1>2, <1>7, Cancelling DEF CancelSaveOrder, OrdersOK, Copying, Serves, Serving, At, Calls
  <2>2. \A s \in Requests \ {o} : orders'[s] = orders[s]
    BY <1>1, <1>7 DEF CancelSaveOrder, TypeOK
  <2>3. Frozen
    BY <1>7, CancelSaveOrderOrders
  <2>4. OnlyStores(p)
    BY <2>1, <2>2, <2>3 DEF OnlyStores
  <2>5. OnlyMoves(p)
    BY <1>1, <1>7, ReturnMoves, WrittenReturns DEF CancelSaveOrder
  <2>6. orders[p] = NoOrder
    BY <1>2 DEF At, OrdersOK, Stored
  <2>7. orders'[p] = NoOrder
    BY <2>1, <2>2, <2>6
  <2>8. \A r \in Records : HeldBy(p, r)' = HeldBy(p, r)
    BY <1>1, <1>2, <2>6, <2>7 DEF HeldBy, Serves, At
  <2> QED
    BY <1>1, <2>4, <2>5, <2>8, QuietMoves
<1> QED
  BY <1>4, <1>5, <1>6, <1>7 DEF Cancel

\* The handlers of records move no order.
LEMMA RecordHandlersMove ==
    ASSUME Typed, Typed', OrdersOK, NEW p \in Requests,
           Restock(p) \/ Update(p) \/ Archive(p) \/ AddSaveRecord(p)
    PROVE  OnlyMoves(p) /\ OnlyStores(p) /\ \A r \in Records : Moves(p, r)
<1>1. /\ UNCHANGED <<req, orders, taken>>
      /\ req[p].op \in {"restock", "update", "archive", "add"}
  BY DEF Restock, RestockGetRecord, RestockSaveRecord, Update, UpdateGetRecord, UpdateSaveRecord,
         Archive, ArchiveGetRecord, ArchiveSaveRecord, AddSaveRecord, SaveBack, Refuse, Hold, At, store, history
<1>2. ASSUME NEW code, Return(p, code) PROVE OnlyMoves(p)
  BY <1>1, <1>2, ReturnMoves
<1>3. ASSUME NEW doc, Hold(p, doc, "SaveRecord"), UNCHANGED idx PROVE OnlyMoves(p)
  BY <1>1, <1>3, GoOnMoves DEF Hold
<1>4. ASSUME NEW n, NEW code, SaveBack(p, n, code) PROVE OnlyMoves(p)
  BY <1>2, <1>4, WrittenReturns DEF SaveBack
<1>5. OnlyMoves(p)
  <2>1. CASE Restock(p)
    BY <1>2, <1>3, <1>4, <2>1 DEF Restock, RestockGetRecord, RestockSaveRecord, Refuse
  <2>2. CASE Update(p)
    BY <1>2, <1>3, <1>4, <2>2 DEF Update, UpdateGetRecord, UpdateSaveRecord, Refuse
  <2>3. CASE Archive(p)
    BY <1>2, <1>3, <1>4, <2>3 DEF Archive, ArchiveGetRecord, ArchiveSaveRecord, Refuse
  <2>4. CASE AddSaveRecord(p)
    BY <1>4, <2>4 DEF AddSaveRecord
  <2> QED
    BY <2>1, <2>2, <2>3, <2>4
<1> QED
  BY <1>1, <1>5, BystanderMoves

\* A store call that fails before it has an effect drops the cart, if there is one.
LEMMA StoreErrorMoves ==
    ASSUME Typed, Typed', OrdersOK, NEW p \in Requests, StoreError(p)
    PROVE  OnlyMoves(p) /\ OnlyStores(p) /\ \A r \in Records : Moves(p, r)
<1>1. Return(p, 500) /\ UNCHANGED <<req, orders, taken>> /\ pc[p] \in Calls
  BY DEF StoreError, Refuse, store, history
<1>2. OnlyMoves(p) /\ OnlyStores(p)
  BY <1>1, ReturnOnly
<1>3. CASE req[p].op = "create"
  <2>1. \A r \in Records : taken[r] <= taken'[r]
    BY <1>1 DEF Typed, TypeOK
  <2> QED
    BY <1>1, <1>2, <1>3, <2>1, RejectMoves DEF Serves, Serving
<1>4. CASE req[p].op # "create"
  BY <1>1, <1>2, <1>4, BystanderMoves
<1> QED
  BY <1>3, <1>4

\* Every step keeps what is held backed by what was taken.
LEMMA BackedStep ==
    ASSUME Typed, Typed', OrdersOK, NEW r \in Records, Backed(r), [Next]_vars
    PROVE  Backed(r)'
<1>1. ASSUME NEW p \in Requests, Accept(p) \/ Serve(p) PROVE Backed(r)'
  <2>1. pc[p] # "done"
    BY <1>1 DEF Accept, Serve, Create, CreateGetRecord, CreateDecrementStock, CreateSaveOrder,
       Cancel, CancelGetOrder, CancelGetRecord, CancelSaveRecord, CancelSaveOrder,
       Restock, RestockGetRecord, RestockSaveRecord, Update, UpdateGetRecord, UpdateSaveRecord,
       Archive, ArchiveGetRecord, ArchiveSaveRecord, AddSaveRecord, StoreError, At, Calls
  <2>2. OnlyMoves(p) /\ OnlyStores(p) /\ Moves(p, r)
    BY <1>1, AcceptMoves, CreateMoves, CancelMoves, RecordHandlersMove, StoreErrorMoves DEF Serve
  <2> QED
    BY <2>1, <2>2, BackedFrame
<1>2. CASE UNCHANGED vars
  <2>1. \A p \in Requests : HeldBy(p, r)' = HeldBy(p, r)
    BY <1>2 DEF vars, store, locals, HeldBy, Serves, Serving
  <2>2. Held(r)' = Held(r)
    BY <2>1 DEF Held
  <2> QED
    BY <1>2, <2>2 DEF vars, history, Backed, RejectedCreates
<1> QED
  BY <1>1, <1>2 DEF Next

\* Nothing is taken, nothing is held.
LEMMA BackedInit == ASSUME Init, NEW r \in Records PROVE Backed(r)
<1> DEFINE f == [p \in Requests |-> HeldBy(p, r)]
<1>1. \A p \in Requests : f[p] = 0
  BY DEF Init, HeldBy, Serves, Serving, Calls
<1>2. taken[r] = 0
  BY DEF Init
<1> HIDE DEF f
<1>3. SumFunctionOnSet(f, Requests) = 0
  BY <1>1, FiniteAssumption, SumZero
<1> QED
  BY <1>2, <1>3 DEF f, Held, Backed

AllBacked == \A r \in Records : Backed(r)

\* What is held is backed in every reachable state.
LEMMA BackedAlways == Spec => []AllBacked
<1>1. Init => AllBacked
  BY BackedInit DEF AllBacked
<1>2. Typed /\ Typed' /\ OrdersOK /\ AllBacked /\ [Next]_vars => AllBacked'
  BY BackedStep DEF AllBacked
<1> QED
  BY <1>1, <1>2, TypedAlways, OrdersAlways, PTL DEF Spec

\* What is in the books was taken.
LEMMA BackedSales == Typed /\ OrdersOK /\ AllBacked => SalesTaken
<1> SUFFICES ASSUME Typed, OrdersOK, AllBacked, NEW r \in Records PROVE Sales(r) + Refunds(r) <= taken[r]
  BY DEF SalesTaken
<1>1. Held(r) = Sales(r) + Refunds(r) + InCarts(r) /\ Sales(r) \in Nat /\ Refunds(r) \in Nat /\ InCarts(r) \in Nat
  BY HeldIsBooked
<1>2. Held(r) <= taken[r] /\ taken[r] \in Nat
  BY DEF AllBacked, Backed, Typed, TypeOK
<1> QED
  BY <1>1, <1>2

\* Every unit in an order of the store, pending or cancelled, was taken from the
\* shelf for it by DecrementStock: no lost answer and no cancellation makes two
\* orders of one unit.
THEOREM SalesTakenAlways == Spec => []SalesTaken
  BY BackedSales, TypedAlways, OrdersAlways, BackedAlways, PTL

-----------------------------------------------------------------------------
(* All steps at once *)

\* No step removes a record.
LEMMA StepsStay ==
    ASSUME Typed, Typed', NEW p \in Requests, Accept(p) \/ Serve(p)
    PROVE  RecordsStay
  BY ServeServes DEF Accept, RecordsStay, store

\* Every step moves one request.
LEMMA StepMoves ==
    ASSUME Typed, Typed', OrdersOK, NEW p \in Requests, Accept(p) \/ Serve(p)
    PROVE  OnlyMoves(p) /\ OnlyStores(p)
  BY AcceptMoves, CreateMoves, CancelMoves, RecordHandlersMove, StoreErrorMoves DEF Serve
=============================================================================
