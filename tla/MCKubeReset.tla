---------------------------- MODULE MCKubeReset ----------------------------
EXTENDS KubeReset, TLC

\* Neither runs nor the names a table is moved to are told apart.
Symmetry == Permutations(Run) \cup Permutations(AsideName)
=============================================================================
