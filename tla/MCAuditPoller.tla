---------------------------- MODULE MCAuditPoller ----------------------------
\* Instances of AuditPoller for TLC.
EXTENDS AuditPoller, TLC

CONSTANTS r1, r2
Symmetry == Permutations(Runs)
=============================================================================
