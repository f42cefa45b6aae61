---------------------------- MODULE ShopPurchase ----------------------------
(***************************************************************************)
(* How the handlers of Shop implement Purchase: a cart is the order a      *)
(* CreateOrder builds in memory, the shelf and the orders sold are the     *)
(* collections.  The GetRecord before a DecrementStock is a stutter.       *)
(***************************************************************************)
EXTENDS Shop

CONSTANT NoCart

ASSUME CartAssumption == NoCart \notin Seq(OrderItem)
ASSUME CustomersOnly == Ops = {"create"}

\* The items in the handler's order, while the handler is at work.
CartOf == [p \in Requests |-> IF p \in InFlight /\ req[p].op = "create" THEN ord[p].items ELSE NoCart]

Buying == INSTANCE Purchase WITH Carts <- Requests, shelf <- records, cart <- CartOf, sold <- orders

\* While only customers write, the shop behaves as Purchase promises: CreateOrder
\* reads a record in one store call and takes its units in another, other orders
\* and a crash may come in between, and still every order is one that was put
\* together of units on the shelf, described as the record is.
BuysAsPromised == Buying!PurchaseSpec
=============================================================================
