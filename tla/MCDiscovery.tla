---------------------------- MODULE MCDiscovery -----------------------------
\* Small instances of Discovery for TLC.
EXTENDS Discovery, TLC

CONSTANTS p1, p2, r1, r2, r3, k, x, y

OneCluster == [d \in Dbs |-> k]
=============================================================================
