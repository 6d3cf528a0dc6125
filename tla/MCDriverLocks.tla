--------------------------- MODULE MCDriverLocks ----------------------------
(* Instances of DriverLocks for TLC. *)
EXTENDS DriverLocks, TLC

CONSTANTS First,  \* the order that everything happens to; the second stays in the store
          Third   \* an order that driver 1 can be given by hand, and keeps

SomeJobs == {j \in AllOrderJobs :
                /\ j.order = Third => j.kind = "assign" /\ j.driver = 1
                /\ j.order # First => j.kind \in {"open", "claim", "assign", "remove"}}
Symmetry == Permutations(Commands)

=============================================================================
