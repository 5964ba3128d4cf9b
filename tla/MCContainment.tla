---------------------------- MODULE MCContainment ----------------------------
\* Instances of Containment for TLC.
EXTENDS Containment, TLC

CONSTANTS c1, c2, s1, s2
Symmetry == Permutations(Clients) \cup Permutations(Sessions)
=============================================================================
