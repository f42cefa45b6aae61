----------------------------- MODULE MCListing -----------------------------
(* The catalogue for the TLC run of Listing: r2 is an id nobody has used. *)
EXTENDS Listing

CONSTANTS r1, r2, i1

FirstRecord == {[r \in Records |-> IF r = r1 THEN [stock |-> 2, archived |-> FALSE, info |-> i1] ELSE NoRecord]}
=============================================================================
