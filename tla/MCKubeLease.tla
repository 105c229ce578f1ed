---------------------------- MODULE MCKubeLease ----------------------------
EXTENDS KubeLease, TLC

Symmetry == Permutations(Run)
=============================================================================
