---------------------------- MODULE MCFPolicyPath ----------------------------
\* Instances of FPolicyPath for TLC.
EXTENDS FPolicyPath, TLC

CONSTANTS c1, c2, s1, s2
\* A node serves one SVM on each of its connections.
MCSvmOf == (c1 :> s1) @@ (c2 :> s2)
=============================================================================
