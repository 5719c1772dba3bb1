------------------------------ MODULE MCPhoto ------------------------------
EXTENDS PhotoQuotes
=============================================================================
