------------------------------ MODULE MCQuote ------------------------------
EXTENDS QuoteLifecycle, TLC

Symmetry == Permutations(Requests)
=============================================================================
