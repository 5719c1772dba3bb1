------------------------------- MODULE MCDesk -------------------------------
EXTENDS Desk
Symmetry == Permutations(Requests) \cup Permutations(Wishes)

MCLowered == [n \in Names |-> IF n = "Ann" THEN "ann" ELSE n]

MCPlans == {[dated |-> TRUE,  send |-> TRUE,  priceable |-> TRUE],
            [dated |-> FALSE, send |-> FALSE, priceable |-> TRUE],
            [dated |-> FALSE, send |-> FALSE, priceable |-> FALSE]}
=============================================================================
