------------------------------- MODULE MCShop -------------------------------
(* Catalogues and symmetry for the TLC runs of Shop and ShopRaces. *)
EXTENDS ShopRaces, TLC

CONSTANTS r1, r2, i1

Symmetry == Permutations(Requests)

\* A new record with n units.
Lp(n) == [stock |-> n, archived |-> FALSE, info |-> i1]

OneRecord == {[r \in Records |-> Lp(2)]}
OneLeft == {[r \in Records |-> Lp(1)]}
\* r2 is an id nobody has used yet.
FirstRecord == {[r \in Records |-> IF r = r1 THEN Lp(2) ELSE NoRecord]}
=============================================================================
