------------------------------ MODULE MCCellar -------------------------------
EXTENDS CellarHistory, TLC
Symmetry == Permutations(Wine) \cup Permutations(Op)
=============================================================================
