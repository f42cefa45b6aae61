--------------------------- MODULE ShopAccounting ---------------------------
(***************************************************************************)
(* The books of the shop: what the orders of the store and the handlers    *)
(* at work hold of each record, summed and compared with its stock.        *)
(***************************************************************************)
EXTENDS Shop, Functions

\* What is summed over has to be finite.
ASSUME FiniteAssumption == IsFiniteSet(Requests)

\* Units of record r in a sequence of order items.
Units(items, r) == SumFunction([i \in DOMAIN items |-> IF items[i].id = r THEN items[i].qty ELSE 0])

\* Units of r in the orders of the store, cancelled ones excepted.
Sales(r) == SumFunction([o \in {o \in Requests : Pending(o)} |-> Units(orders[o].items, r)])

\* Units of r in the orders that are being built.
Carts == {p \in InFlight : req[p].op = "create"}
InCarts(r) == SumFunction([p \in Carts |-> Units(ord[p].items, r)])

\* Units of r in the orders that are cancelled.
Refunds(r) == SumFunction([o \in {o \in Requests : Cancelled(o)} |-> Units(orders[o].items, r)])

\* The stock of a record that exists, 0 otherwise.
Stock(r) == IF records[r] = NoRecord THEN 0 ELSE records[r].stock

RejectedCreates == {p \in Requests : pc[p] = "done" /\ req[p].op = "create" /\ resp[p] # 201}

\* While only customers buy, every unit is in one place: on the shelf, in an
\* order being built or in a stored order.  A unit can leave the books only
\* with an order that was refused or failed, or was dropped with the instance
\* that served it; it never appears twice.
StockConserved ==
    \A r \in Records :
        /\ Stock(r) + InCarts(r) + Sales(r) <= supply[r]
        /\ RejectedCreates = {} => Stock(r) + InCarts(r) + Sales(r) = supply[r]

\* The shop never sells more units of a record than it ever put on the shelf
\* (concurrency_test.go:258).
NoOversell == \A r \in Records : Sales(r) <= supply[r]

\* Every unit of a stored order has been taken from the shelf by DecrementStock,
\* also when answers of the store are lost and orders are cancelled.
SalesTaken == \A r \in Records : Sales(r) + Refunds(r) <= taken[r]

\* The record whose document a handler at SaveRecord replaces.
Target(p) == IF req[p].op = "cancel" THEN Ordered(p).id ELSE req[p].id

\* The cancellations that have passed every check and are not answered yet.
Restoring == {p \in Requests : \E call \in {"GetRecord", "SaveRecord", "SaveOrder"} : At(p, "cancel", call)}

CancelsAnswered(code) == {p \in Requests : Answered(p, "cancel", code)}

\* Units of r in the orders the cancellations P name, counted once for each.
Claims(P, r) ==
    SumFunction([p \in {p \in P : orders[req[p].order] # NoOrder} |-> Units(orders[req[p].order].items, r)])

\* A 204 of a cancellation means that every unit of its order went back on the
\* shelf, line by line, also to a record that was archived meanwhile; and no
\* attempt, whether it failed, lost an answer or is still at work, brings back
\* more than its order holds.
ReturnedByAttempts ==
    \A r \in Records :
        /\ Claims(CancelsAnswered(204), r) <= returned[r]
        /\ returned[r] <= Claims(CancelsAnswered(204) \union CancelsAnswered(500) \union Restoring, r)
=============================================================================
