---------------------------- MODULE MCBackoffice ----------------------------
EXTENDS Backoffice, TLC
Symmetry == Permutations(Requests) \cup Permutations(Items)

MCChanges == {[role |-> "EMPLOYEE", active |-> None],
              [role |-> "OWNER", active |-> FALSE]}

MCPlans == {[date |-> 0, duration |-> 0], [date |-> None, duration |-> None]}

MCEdits == {[status |-> "completed", date |-> None, duration |-> None],
            [status |-> "in_progress", date |-> 0, duration |-> None],
            [status |-> None, date |-> 0, duration |-> 0]}

MCCarts == {<<[item |-> i, quantity |-> 1]>> : i \in Items} \cup
           {<<[item |-> i, quantity |-> 1], [item |-> i, quantity |-> 1]>> :
              i \in Items}
=============================================================================
