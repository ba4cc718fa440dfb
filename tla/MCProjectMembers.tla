-------------------------- MODULE MCProjectMembers --------------------------
EXTENDS ProjectMembers, TLC

Symmetry == Permutations(Users) \cup Permutations(Requests)
=============================================================================
