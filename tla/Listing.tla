------------------------------ MODULE Listing ------------------------------
(***************************************************************************)
(* The reads of the shop while the handlers of Shop write: ListOrders and  *)
(* GetOrder (handlers/order.go), ListRecords (handlers/record.go) and      *)
(* ListInventory (handlers/inventory.go).  A listing is a count and then a *)
(* find in the store, so documents come and change between the two, and    *)
(* between one page and the next; only the inventory is read at once.      *)
(*                                                                         *)
(* A reader is a client that asks for page after page until one is short.  *)
(* Of the filters of a listing there are the status of orders and in_stock *)
(* of records; the others compare fields that are one value in Shop.       *)
(* Records are listed with sort=created_desc, as orders always are; the    *)
(* inventory has no order of its own.                                      *)
(***************************************************************************)
EXTENDS Shop

CONSTANTS
    Readers,            \* the clients that read
    PerPage,            \* items on a page
    LowStockThreshold,
    NoWalk

ASSUME PageAssumption == PerPage \in Nat \ {0} /\ LowStockThreshold \in Nat

Things == Requests \union Records

\* Of what the store holds there is a count.
ASSUME FiniteThings == IsFiniteSet(Things)

Kinds == {"orders", "order", "records", "inventory"}

\* What a reader has asked for and seen so far.
Walk == [kind : Kinds,
         user : Users,                  \* who asks
         owner : Users,                 \* whose orders
         narrow : BOOLEAN,              \* status=pending, in_stock=true
         page : 1..(Cardinality(Things) \div PerPage + 1),
         total : Nat,                   \* of the current page
         got : Nat,                     \* the number of items of the last page
         there : SUBSET Things,         \* history: what matched when the walk began
         seen : SUBSET Things,
         stage : {"CountDocuments", "Find", "ended"}]

ASSUME ThingAssumption == Requests \intersect Records = {} /\ NoWalk \notin Walk

VARIABLES
    born,           \* CreatedAt of each order and record; 0 before
    walk            \* what each reader is doing

reading == <<born, walk>>
listingVars == <<vars, reading>>

ListingTypeOK ==
    /\ TypeOK
    /\ born \in [Things -> Nat]
    /\ walk \in [Readers -> Walk \union {NoWalk}]

ListingInit ==
    /\ Init
    /\ born = [t \in Things |-> 0]
    /\ walk = [b \in Readers |-> NoWalk]

-----------------------------------------------------------------------------
(* The writers.  NewRecord takes the time when the request arrives, NewOrder *)
(* when the last item is taken; the clock may not have ticked since.        *)

Newest == CHOOSE n \in {born[t] : t \in Things} : \A t \in Things : born[t] <= n

Bear(t) == \E now \in {Newest, Newest + 1} : born' = [born EXCEPT ![t] = now]

Receive(p) ==
    /\ Accept(p)
    /\ IF req'[p].op = "add" THEN Bear(req'[p].id) ELSE UNCHANGED born
    /\ UNCHANGED walk

Write(p) ==
    /\ Serve(p)
    /\ IF req[p].op = "create" /\ pc[p] # "SaveOrder" /\ pc'[p] = "SaveOrder"
       THEN Bear(p) ELSE UNCHANGED born
    /\ UNCHANGED walk

-----------------------------------------------------------------------------
(* The readers *)

Listed(w) ==
    IF w.kind = "orders"
    THEN {o \in Requests : /\ orders[o] # NoOrder
                           /\ orders[o].user = w.owner
                           /\ w.narrow => orders[o].status = "pending"}
    ELSE {r \in Records : /\ records[r] # NoRecord
                          /\ ~records[r].archived
                          /\ w.narrow => records[r].stock > 0}

\* The answers to Find: sequences of S, the newest first unless w is the inventory.
Answers(w, S) ==
    {s \in [1..Cardinality(S) -> S] :
        \A i, j \in 1..Cardinality(S) : i < j =>
            s[i] # s[j] /\ (w.kind # "inventory" => born[s[i]] >= born[s[j]])}

\* (variants: pages counted from 0; the limit without the skip)
SkipPage(w) == w.page * PerPage
SkipNone(w) == 0

\* The skip of the request, by LimitSkip and Offset of the pagination library.
Skip(w) == (w.page - 1) * PerPage

PageOf(w, list) == {list[i] : i \in {k \in DOMAIN list : Skip(w) < k /\ k <= Skip(w) + PerPage}}

\* (variant: user_id is honoured whoever asks)
OwnerAsked(user, asked) == asked

\* Only administrators may list the orders of others.
Owner(user, asked) == IF user \in Admins THEN asked ELSE user

Anybody == CHOOSE u \in Users : TRUE

Step(b, w) == walk' = [walk EXCEPT ![b] = w] /\ UNCHANGED <<vars, born>>

Reading(b, stage) == walk[b] # NoWalk /\ walk[b].stage = stage

\* Records are listed whoever asks; only administrators list the inventory.
Begin(b) ==
    /\ walk[b] = NoWalk
    /\ \E kind \in Kinds \ {"order"}, user, asked \in Users, narrow \in BOOLEAN :
          LET w == [kind |-> kind, user |-> user, owner |-> Owner(user, asked), narrow |-> narrow, page |-> 1,
                    total |-> 0, got |-> 0, there |-> {}, seen |-> {},
                    stage |-> IF kind = "inventory" THEN "Find" ELSE "CountDocuments"]
          IN  /\ kind = "inventory" => user \in Admins /\ ~narrow
              /\ kind = "records" => user = Anybody
              /\ kind # "orders" => asked = user
              /\ Step(b, [w EXCEPT !.there = Listed(w)])

\* (variant: CountDocuments without the filter)
CountedAll(w) == Cardinality({o \in Requests : orders[o] # NoOrder} \union {r \in Records : records[r] # NoRecord})

Counted(w) == Cardinality(Listed(w))

Count(b) ==
    /\ Reading(b, "CountDocuments")
    /\ Step(b, [walk[b] EXCEPT !.total = Counted(walk[b]), !.stage = "Find"])

\* The next request of a reader, after a full page.
Again(w) == IF w.kind = "inventory" THEN "Find" ELSE "CountDocuments"

Find(b) ==
    /\ Reading(b, "Find")
    /\ \E list \in Answers(walk[b], Listed(walk[b])) :
          LET w == walk[b]
              items == PageOf(w, list)
              full == Cardinality(items) = PerPage
          IN  Step(b, [w EXCEPT !.seen = @ \union items,
                                !.got = Cardinality(items),
                                !.total = IF w.kind = "inventory" THEN Len(list) ELSE @,
                                !.page = IF full THEN @ + 1 ELSE @,
                                !.stage = IF full THEN Again(w) ELSE "ended"])

\* GetOrder: an order the reader may not see is refused with 403.
Look(b) ==
    /\ walk[b] = NoWalk
    /\ \E user \in Users, o \in OrderIds :
          /\ orders[o] # NoOrder
          /\ MayAccess(user, orders[o])
          /\ Step(b, [kind |-> "order", user |-> user, owner |-> user, narrow |-> FALSE, page |-> 1,
                      total |-> 1, got |-> 1, there |-> {o}, seen |-> {o}, stage |-> "ended"])

\* A call of the store fails: the client gets no page and has to start anew.
ReadError(b) ==
    /\ Faults
    /\ Reading(b, "CountDocuments") \/ Reading(b, "Find")
    /\ Step(b, NoWalk)

-----------------------------------------------------------------------------
(* The stock levels of the inventory *)

\* (variant: an item out of stock is flagged low too)
LowStockZero(doc) == doc.stock >= 0 /\ doc.stock <= LowStockThreshold

LowStock(doc) == doc.stock > 0 /\ doc.stock <= LowStockThreshold

ReorderNeeded(doc) == doc.stock = 0

OutOfStockCount(S) == Cardinality({r \in S : records[r].stock = 0})

\* The else branch of the count, which does not ask for stock > 0.
LowStockCount(S) == Cardinality({r \in S : records[r].stock # 0 /\ records[r].stock <= LowStockThreshold})

-----------------------------------------------------------------------------

ListingNext ==
    \/ \E p \in Requests : Receive(p) \/ Write(p)
    \/ \E b \in Readers : Begin(b) \/ Count(b) \/ Find(b) \/ Look(b) \/ ReadError(b)
    \/ AllServed /\ UNCHANGED listingVars

ListingSpec == ListingInit /\ [][ListingNext]_listingVars

\* The handlers that write are scheduled again; readers may stop at any time.
ListingFairSpec == ListingSpec /\ \A p \in Requests : WF_vars(Serve(p))

-----------------------------------------------------------------------------
(* Properties *)

Ended(b) == Reading(b, "ended")

\* No two documents of the listing were created at the same instant.
NoTies(w) == \A t, u \in Listed(w) : t # u => born[t] # born[u]

\* What of the listing can only grow: all orders of a user, and the records
\* while nobody archives.
OnlyGrows(w) ==
    /\ ~w.narrow
    /\ w.kind = "records" => \A p \in Requests : req[p] = NoRequest \/ req[p].op # "archive"

\* A client that walks the pages of such a listing to the end has seen
\* everything that was there when it began, although documents arrive in front
\* and in the middle of the pages it has yet to ask for: newest first, an
\* arrival moves the others back, never forward (mongo.go:430 and 486).
WalkComplete ==
    \A b \in Readers :
        Ended(b) /\ walk[b].kind \in {"orders", "records"} /\ OnlyGrows(walk[b]) /\ NoTies(walk[b])
            => walk[b].there \subseteq walk[b].seen

\* A total never promises more than the pages hold: as the count comes before
\* the find, the last page of a listing that only grows goes at least as far
\* as the total announced with it.
TotalReached ==
    \A b \in Readers :
        Ended(b) /\ walk[b].kind # "order" /\ (walk[b].kind = "inventory" \/ OnlyGrows(walk[b]))
            => walk[b].total <= Skip(walk[b]) + walk[b].got

\* Whatever filter a client sends and whichever way it asks, it only ever sees
\* orders of its own, unless it is an administrator.
SeenByRight ==
    \A b \in Readers : walk[b] # NoWalk /\ walk[b].user \notin Admins =>
        \A o \in walk[b].seen \intersect Requests : orders[o].user = walk[b].user

\* The two counts of the inventory agree with the flags of its items, which the
\* code decides by different conditions, as long as no stock has wrapped.
InventoryAgrees ==
    wrapped \/ LET S == {r \in Records : records[r] # NoRecord /\ ~records[r].archived}
               IN  /\ LowStockCount(S) = Cardinality({r \in S : LowStock(records[r])})
                   /\ OutOfStockCount(S) = Cardinality({r \in S : ReorderNeeded(records[r])})
=============================================================================
