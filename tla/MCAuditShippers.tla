--------------------------- MODULE MCAuditShippers ---------------------------
\* Instances of AuditShippers for TLC.
EXTENDS AuditShippers, TLC

CONSTANTS r1, r2
Symmetry == Permutations(Runs)
=============================================================================
