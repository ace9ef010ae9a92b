----------------------------- MODULE MCLogTail ------------------------------
\* Small instances of LogTail for TLC.
EXTENDS LogTail, TLC

CONSTANTS c1, c2

=============================================================================
