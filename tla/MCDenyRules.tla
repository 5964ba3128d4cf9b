----------------------------- MODULE MCDenyRules -----------------------------
\* Instances of DenyRules for TLC.  short is the address 10.0.0.1 and long
\* 10.0.0.10, whose text holds it.
EXTENDS DenyRules, TLC

CONSTANTS c1, c2, short, long
Symmetry == Permutations(Callers)
TextWithin == {<<short, short>>, <<long, long>>, <<short, long>>}
=============================================================================
