------------------------- MODULE MCDeliveryPricing --------------------------
(* Instances of DeliveryPricing for TLC. *)
EXTENDS DeliveryPricing

\* A step that the price of a kilometre does not divide; no step, and an end to the way.
TwoTerms == << [base |-> 1000, included |-> 2, perKm |-> 700, step |-> 250, maximum |-> None],
               [base |-> 0, included |-> 0, perKm |-> 1, step |-> 1, maximum |-> 3] >>

SomeDistances == {0, 20, 21, 30, 31, 12345}

=============================================================================
