-------------------------- MODULE MCExecutionQueue --------------------------
\* Small instances of ExecutionQueue for TLC.
EXTENDS ExecutionQueue, TLC

CONSTANTS b1, b2, e1, e2, w1, w2, c1, c2, d1, d2

\* Both executions are of one backup.
OneBackupOf == (e1 :> b1) @@ (e2 :> b1)

\* Every worker carries the tags of all backups.
AllTags == [w \in Workers |-> Backups]

WorkerCleanerSymmetry == Permutations(Workers) \cup Permutations(Cleaners)
=============================================================================
