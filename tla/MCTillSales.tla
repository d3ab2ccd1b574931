---------------------------- MODULE MCTillSales ----------------------------
EXTENDS TillSales, TLC

Symmetry == Permutations(Sales) \cup Permutations(Sessions)
=============================================================================
