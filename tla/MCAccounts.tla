----------------------------- MODULE MCAccounts -----------------------------
EXTENDS Accounts, TLC
Symmetry == Permutations(Requests)
MCTtl == [t \in TokenTypes |-> 0]
=============================================================================
