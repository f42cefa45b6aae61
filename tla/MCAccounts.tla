----------------------------- MODULE MCAccounts -----------------------------
(* What earlier runs have left, and symmetry, for the TLC runs of Accounts. *)
EXTENDS Accounts, TLC

CONSTANTS m1, m2, mail, secret, plain

Symmetry == Permutations(Requests) \union Permutations(Starts)

Customer == [email |-> mail, password |-> secret, info |-> plain, role |-> "user", active |-> TRUE]
Root == [email |-> AdminEmail, password |-> AdminPassword, info |-> AdminInfo, role |-> "admin", active |-> TRUE]

\* A new database, and one with the administrator and a customer.
Opened == {[m \in Members |-> NoUser], [m \in Members |-> IF m = m1 THEN Root ELSE Customer]}
=============================================================================
