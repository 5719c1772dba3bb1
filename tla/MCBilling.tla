----------------------------- MODULE MCBilling -----------------------------
EXTENDS Billing, TLC

Symmetry == Permutations(Slots) \cup Permutations(Custs) \cup Permutations(Subs)
=============================================================================
