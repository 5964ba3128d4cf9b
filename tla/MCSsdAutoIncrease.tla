------------------------- MODULE MCSsdAutoIncrease -------------------------
\* Instances of SsdAutoIncrease for TLC.
EXTENDS SsdAutoIncrease, TLC

CONSTANTS w1, w2
Symmetry == Permutations(Workers)
=============================================================================
