------------------------------ MODULE MCServer -------------------------------
EXTENDS ServerHistory, TLC
Symmetry == Permutations(Account) \cup Permutations(Call)
=============================================================================
