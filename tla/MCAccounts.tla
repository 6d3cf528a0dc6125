----------------------------- MODULE MCAccounts -----------------------------
(* Instances of Accounts for TLC. *)
EXTENDS Accounts, TLC

CONSTANTS admin, employee, merchant, driver, customer, city1, city2, store1, store2

\* An account meets the others only through its admin.
AccountCasts == {{admin, employee}, {merchant}, {driver}, {customer}}

\* Two changes of staff may overlap; the others meet one at a time, three in a row.
Budgets == [c \in AccountCasts |-> IF admin \in c THEN 2 ELSE 3]

Symmetry == Permutations(Changes)

OneCity == store1 :> city1 @@ store2 :> city1

=============================================================================
