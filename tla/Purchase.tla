------------------------------ MODULE Purchase ------------------------------
(***************************************************************************)
(* What the shop promises its customers while nobody else writes: a cart   *)
(* takes units that are on the shelf at that moment, a checkout turns the  *)
(* whole cart into one order, and a cart that is dropped leaves no order.  *)
(* There are no store calls here, no stale reads and no instances: a unit  *)
(* is taken in one step, with the description the record has in that step. *)
(***************************************************************************)
EXTENDS Integers, Sequences

CONSTANTS
    Records, Users, Quantities,
    Carts,          \* one for each attempt to buy
    Shelves,        \* the catalogues the shop may open with
    NoRecord, NoOrder, NoCart

VARIABLES
    shelf,          \* the record of each id, or NoRecord
    cart,           \* the items in each cart, or NoCart
    sold            \* the order each cart has become, or NoOrder

buying == <<shelf, cart, sold>>

Opening ==
    /\ shelf \in Shelves
    /\ cart = [p \in Carts |-> NoCart]
    /\ sold = [p \in Carts |-> NoOrder]

Open(p) ==
    /\ UNCHANGED <<shelf, sold>>
    /\ cart[p] = NoCart /\ sold[p] = NoOrder
    /\ cart' = [cart EXCEPT ![p] = << >>]

\* Carts that are dropped, one or, when an instance ends, several.
Drop ==
    /\ UNCHANGED <<shelf, sold>>
    /\ \E P \in SUBSET Carts : cart' = [p \in Carts |-> IF p \in P THEN NoCart ELSE cart[p]]

\* n units of r leave the shelf, if there are as many.
Grab(r, n) ==
    /\ shelf[r] # NoRecord /\ shelf[r].stock >= n
    /\ shelf' = [shelf EXCEPT ![r].stock = @ - n]

Take(p, r, n) ==
    /\ UNCHANGED sold
    /\ cart[p] # NoCart
    /\ Grab(r, n)
    /\ cart' = [cart EXCEPT ![p] = Append(@, [id |-> r, qty |-> n, info |-> shelf[r].info])]

\* The units are taken, but the attempt fails at that.
Spill(p, r, n) ==
    /\ UNCHANGED sold
    /\ cart[p] # NoCart
    /\ Grab(r, n)
    /\ cart' = [cart EXCEPT ![p] = NoCart]

Checkout(p, user) ==
    /\ UNCHANGED shelf
    /\ cart[p] # NoCart /\ cart[p] # << >> /\ sold[p] = NoOrder
    /\ sold' = [sold EXCEPT ![p] = [user |-> user, items |-> cart[p], status |-> "pending"]]
    /\ cart' = [cart EXCEPT ![p] = NoCart]

Buy ==
    \/ Drop
    \/ \E p \in Carts : \/ Open(p)
                        \/ \E r \in Records, n \in Quantities : Take(p, r, n) \/ Spill(p, r, n)
                        \/ \E user \in Users : Checkout(p, user)

PurchaseSpec == Opening /\ [][Buy]_buying
=============================================================================
