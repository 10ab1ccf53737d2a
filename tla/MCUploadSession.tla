--------------------------- MODULE MCUploadSession ---------------------------
\* Instances of UploadSession for TLC.
EXTENDS UploadSession, TLC

CONSTANTS q1, q2, q3
=============================================================================
