--------------------------- MODULE MCIdempotency ---------------------------
(* Catalogues, seeds and symmetry for the TLC run of Idempotency. *)
EXTENDS Idempotency, TLC

CONSTANTS i1

Symmetry == Permutations(Requests) \union Permutations(Starts) \union Permutations(Keys)

Lp(n) == [stock |-> n, archived |-> FALSE, info |-> i1]

TwoLeft == {[r \in Records |-> Lp(2)]}
NoSeeds == << >>
SeedDocs == [r \in Records |-> Lp(1)]
=============================================================================
