---------------------------- MODULE MCAccounting -----------------------------
EXTENDS BottleAccounting, TLC
SameName == [sh \in Shelf |-> "rack"]
Symmetry == Permutations(Wine)
=============================================================================
