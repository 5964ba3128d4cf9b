--------------------------- MODULE MCObjectLedger ---------------------------
\* Instances of ObjectLedger for TLC.
EXTENDS ObjectLedger

CONSTANTS k1, k2, w1, w2
=============================================================================
