--------------------------- MODULE MCSyncHistory ----------------------------
EXTENDS SyncHistory, TLC
Symmetry == Permutations(Write) \cup Permutations(Call)
=============================================================================
