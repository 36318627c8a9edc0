------------------------------ MODULE MCFight ------------------------------
EXTENDS Fight, TLC
Symmetry == Permutations(Task)
=============================================================================
