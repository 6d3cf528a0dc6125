---------------------------- MODULE MCOrderItems ----------------------------
(* Instances of OrderItems for TLC. *)
EXTENDS OrderItems, TLC

CONSTANTS product, o1, o2, k1, k2, e1, e2, c1, c2

\* One product twice, or on two lines.
TwoCarts == { <<[product |-> product, quantity |-> 2]>>,
              <<[product |-> product, quantity |-> 1], [product |-> product, quantity |-> 2]>> }

Symmetry == Permutations({o1, o2}) \cup Permutations({k1, k2}) \cup Permutations({e1, e2})
            \cup Permutations({c1, c2})

=============================================================================
