------------------------ MODULE MCRestoreVerification ------------------------
\* Instances of RestoreVerification for TLC.
EXTENDS RestoreVerification

CONSTANTS v1, v2
=============================================================================
