---------------------------- MODULE MCLifecycle ----------------------------
(* Catalogues, seeds and symmetry for the TLC runs of Lifecycle. *)
EXTENDS Lifecycle, TLC

CONSTANTS r1, r2, i1

Symmetry == Permutations(Requests) \union Permutations(Starts)

Lp(n) == [stock |-> n, archived |-> FALSE, info |-> i1]

Empty == {[r \in Records |-> NoRecord]}
Stocked2 == {[r \in Records |-> IF r = r1 THEN Lp(2) ELSE Lp(1)]}
SeedR1 == <<r1>>
SeedBoth == <<r1, r2>>
SeedDocs == [r \in Records |-> Lp(1)]
=============================================================================
