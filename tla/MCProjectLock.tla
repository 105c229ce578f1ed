---------------------------- MODULE MCProjectLock ----------------------------
EXTENDS ProjectLock, TLC

Symmetry == Permutations(Run) \cup Permutations(Inode)
=============================================================================
