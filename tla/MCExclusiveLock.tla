--------------------------- MODULE MCExclusiveLock ---------------------------
EXTENDS ExclusiveLock, TLC

\* The runs of one host are interchangeable.
Symmetry == Permutations(Run \ Remote)
=============================================================================
