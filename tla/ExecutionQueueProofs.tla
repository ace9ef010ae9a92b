------------------------ MODULE ExecutionQueueProofs ------------------------
(***************************************************************************)
(* What holds of ExecutionQueue for every set of backups, executions,      *)
(* workers, callers and cleaners.                                          *)
(***************************************************************************)
EXTENDS ExecutionQueue, TLAPS

-----------------------------------------------------------------------------
\* The inductive invariant, part by part.

\* A row that waits or runs is not soft-deleted, so the index covers it.
ActiveNotDeleted ==
    \A e \in Execs : status[e] \in {"none", "queued", "running"} => ~softDeleted[e]

\* A slot has a job exactly while it is busy, and only then a due heartbeat.
SlotShape ==
    \A w \in Workers : /\ job[w] = None <=> pc[w] \in {"idle", "down"}
                       /\ due[w] => job[w] # None

\* A claimed row has left the queue for good.
ClaimedLeftQueue ==
    \A w \in Workers : job[w] # None => status[job[w]] \notin {"none", "queued"}

\* A deletion under way is about an execution that has settled.
DeleteShape ==
    \A d \in Cleaners :
        /\ delExec[d] = None <=> delPc[d] = "idle"
        /\ delExec[d] # None => status[delExec[d]] \in Settled

QueueInv ==
    /\ TypeOK
    /\ ActiveNotDeleted
    /\ SlotShape
    /\ ClaimedLeftQueue
    /\ DeleteShape
    /\ OneActivePerBackup
    /\ OneRunnerPerExecution

-----------------------------------------------------------------------------
\* The initial state satisfies the invariant.
LEMMA QueueInvInit == Init => QueueInv
  BY ConstantsOK
  DEF Init, QueueInv, TypeOK, ActiveNotDeleted, SlotShape, ClaimedLeftQueue, DeleteShape,
      OneActivePerBackup, OneRunnerPerExecution, Active, Busy, Settled, Finished

\* Every step keeps the types.
LEMMA TypeStep == TypeOK /\ SlotShape /\ DeleteShape /\ [Next]_vars => TypeOK'
  <1> SUFFICES ASSUME TypeOK, SlotShape, DeleteShape, [Next]_vars PROVE TypeOK'
    OBVIOUS
  <1> USE ConstantsOK DEF TypeOK, SlotShape, Busy, Settled, Finished, rows, slots, deletes
  <1>1. CASE \E c \in Callers : InsertQueued(c)
    BY <1>1 DEF InsertQueued
  <1>2. CASE \E c \in Callers, b \in Backups : CheckRunning(c, b)
    BY <1>2 DEF CheckRunning
  <1>3. CASE \E w \in Workers : Claim(w)
    BY <1>3 DEF Claim, ClaimExecution, StampClaim
  <1>4. CASE \E w \in Workers : Work(w)
    <2>1. PICK w \in Workers : Work(w)
      BY <1>4
    <2>2. CASE PrepareFails(w) \/ CreateFails(w) \/ UploadFails(w)
      BY <2>2 DEF PrepareFails, CreateFails, UploadFails
    <2>3. CASE StartUpload(w) \/ UploadDone(w) \/ SizeUnread(w)
      BY <2>3 DEF StartUpload, UploadDone, SizeUnread
    <2>4. CASE RecordSuccess(w)
      BY <2>4 DEF RecordSuccess, Release, UpdateExecution
    <2>5. CASE RecordFailure(w)
      BY <2>5 DEF RecordFailure, Release, UpdateExecution
    <2>6. CASE ReportLost(w)
      BY <2>6 DEF ReportLost, Release, Mishap
    <2>7. QED
      BY <2>1, <2>2, <2>3, <2>4, <2>5, <2>6 DEF Work
  <1>5. CASE \E w \in Workers : Beat(w)
    <2>1. PICK w \in Workers : Beat(w)
      BY <1>5
    <2>2. CASE HeartbeatExecution(w)
      BY <2>2 DEF HeartbeatExecution
    <2>3. CASE HeartbeatLost(w)
      BY <2>3 DEF HeartbeatLost, Mishap
    <2>4. QED
      BY <2>1, <2>2, <2>3 DEF Beat
  <1>6. CASE \E w \in Workers : ReapStaleExecutions(w)
    BY <1>6 DEF ReapStaleExecutions
  <1>7. CASE \E w \in Workers : Crash(w)
    BY <1>7 DEF Crash, Mishap
  <1>8. CASE \E w \in Workers : Restart(w)
    BY <1>8 DEF Restart
  <1>9. CASE Tick
    BY <1>9 DEF Tick
  <1>10. CASE \E d \in Cleaners : Delete(d)
    <2>1. PICK d \in Cleaners : Delete(d)
      BY <1>10
    <2>2. CASE \E e \in Execs : PickForDeletion(d, e)
      BY <2>2 DEF PickForDeletion
    <2>3. CASE ReadForSoftDelete(d)
      <3>1. delPc' \in [Cleaners -> {"idle", "listed", "file", "mark"}]
        BY <2>3 DEF ReadForSoftDelete, DeletionEnds
      <3>2. delExec[d] \in Execs
        BY <2>3 DEF ReadForSoftDelete, DeleteShape
      <3>3. delExec' \in [Cleaners -> Execs \cup {None}] /\ delPath' \in [Cleaners -> BOOLEAN]
        <4>1. path[delExec[d]] \in BOOLEAN
          BY <3>2
        <4>2. CASE DeletionEnds(d)
          BY <4>2 DEF DeletionEnds
        <4>3. CASE delPath' = [delPath EXCEPT ![d] = path[delExec[d]]] /\ UNCHANGED delExec
          BY <4>1, <4>3
        <4>4. QED
          BY <2>3, <4>2, <4>3 DEF ReadForSoftDelete
      <3>4. QED
        BY <2>3, <3>1, <3>3 DEF ReadForSoftDelete
    <2>4. CASE DeleteFile(d)
      <3>1. delPc' \in [Cleaners -> {"idle", "listed", "file", "mark"}]
        BY <2>4 DEF DeleteFile, DeletionEnds
      <3>2. delExec[d] \in Execs
        BY <2>4 DEF DeleteFile, DeleteShape
      <3>3. delExec' \in [Cleaners -> Execs \cup {None}] /\ delPath' \in [Cleaners -> BOOLEAN]
        <4>1. CASE DeletionEnds(d)
          BY <4>1 DEF DeletionEnds
        <4>2. CASE UNCHANGED <<delExec, delPath>>
          BY <4>2
        <4>3. QED
          BY <2>4, <4>1, <4>2 DEF DeleteFile
      <3>4. stored' \in [Execs -> {"none", "partial", "complete"}] /\ erased' \in SUBSET Execs
        BY <2>4, <3>2 DEF DeleteFile
      <3>5. QED
        BY <2>4, <3>1, <3>3, <3>4 DEF DeleteFile
    <2>5. CASE MarkDeleted(d)
      BY <2>5 DEF MarkDeleted, DeletionEnds
    <2>6. CASE DeletionAborts(d)
      BY <2>6 DEF DeletionAborts, DeletionEnds
    <2>7. QED
      BY <2>1, <2>2, <2>3, <2>4, <2>5, <2>6 DEF Delete
  <1>11. CASE PurgeDeletedExecutions
    BY <1>11 DEF PurgeDeletedExecutions
  <1>12. CASE \E b \in Backups : DeleteBackup(b)
    BY <1>12 DEF DeleteBackup
  <1>13. CASE UNCHANGED vars
    BY <1>13 DEF vars
  <1>14. QED
    BY <1>1, <1>2, <1>3, <1>4, <1>5, <1>6, <1>7, <1>8, <1>9, <1>10, <1>11, <1>12, <1>13
    DEF Next

\* Every step keeps the other parts.
LEMMA ShapeStep ==
    QueueInv /\ [Next]_vars =>
      /\ ActiveNotDeleted' /\ SlotShape' /\ ClaimedLeftQueue' /\ DeleteShape'
      /\ OneActivePerBackup' /\ OneRunnerPerExecution'
  <1> DEFINE Rest == /\ ActiveNotDeleted /\ SlotShape /\ ClaimedLeftQueue /\ DeleteShape
                     /\ OneActivePerBackup /\ OneRunnerPerExecution
  <1> SUFFICES ASSUME QueueInv, [Next]_vars PROVE Rest'
    OBVIOUS
  <1> USE ConstantsOK DEF QueueInv, TypeOK, ActiveNotDeleted, SlotShape, ClaimedLeftQueue,
        DeleteShape, OneActivePerBackup, OneRunnerPerExecution, Active, Busy, Settled,
        Finished, rows, slots, deletes
  <1>1. ASSUME NEW c \in Callers, InsertQueued(c) PROVE Rest'
    BY <1>1 DEF InsertQueued, IndexAllows, HasRunningExecution
  <1>2. ASSUME NEW c \in Callers, NEW b \in Backups, CheckRunning(c, b) PROVE Rest'
    BY <1>2 DEF CheckRunning
  <1>3. ASSUME NEW w \in Workers, NEW e \in Execs, ClaimExecution(w, e) PROVE Rest'
    BY <1>3 DEF ClaimExecution, StampClaim, Claimable
  <1>4. ASSUME NEW w \in Workers, Work(w) PROVE Rest'
    <2>1. CASE PrepareFails(w)
      BY <2>1 DEF PrepareFails
    <2>2. CASE StartUpload(w)
      BY <2>2 DEF StartUpload
    <2>3. CASE CreateFails(w)
      BY <2>3 DEF CreateFails
    <2>4. CASE UploadDone(w) \/ SizeUnread(w)
      BY <2>4 DEF UploadDone, SizeUnread
    <2>5. CASE UploadFails(w)
      BY <2>5 DEF UploadFails
    <2>6. CASE RecordSuccess(w)
      BY <2>6 DEF RecordSuccess, Release, UpdateExecution, Exists
    <2>7. CASE RecordFailure(w)
      BY <2>7 DEF RecordFailure, Release, UpdateExecution, Exists
    <2>8. CASE ReportLost(w)
      BY <2>8 DEF ReportLost, Release
    <2>9. QED
      BY <1>4, <2>1, <2>2, <2>3, <2>4, <2>5, <2>6, <2>7, <2>8 DEF Work
  <1>5. ASSUME NEW w \in Workers, Beat(w) PROVE Rest'
    BY <1>5 DEF Beat, HeartbeatExecution, HeartbeatLost
  <1>6. ASSUME NEW w \in Workers, ReapStaleExecutions(w) PROVE Rest'
    BY <1>6 DEF ReapStaleExecutions, Stale
  <1>7. ASSUME NEW w \in Workers, Crash(w) PROVE Rest'
    BY <1>7 DEF Crash, Mishap
  <1>8. ASSUME NEW w \in Workers, Restart(w) PROVE Rest'
    BY <1>8 DEF Restart
  <1>9. ASSUME Tick PROVE Rest'
    BY <1>9 DEF Tick
  <1>10. ASSUME NEW d \in Cleaners, Delete(d) PROVE Rest'
    <2>1. CASE \E e \in Execs : PickForDeletion(d, e)
      BY <2>1 DEF PickForDeletion
    <2>2. CASE ReadForSoftDelete(d)
      BY <2>2 DEF ReadForSoftDelete, DeletionEnds
    <2>3. CASE DeleteFile(d)
      BY <2>3 DEF DeleteFile, DeletionEnds
    <2>4. CASE MarkDeleted(d)
      BY <2>4 DEF MarkDeleted, DeletionEnds, Exists
    <2>5. CASE DeletionAborts(d)
      BY <2>5 DEF DeletionAborts, DeletionEnds
    <2>6. QED
      BY <1>10, <2>1, <2>2, <2>3, <2>4, <2>5 DEF Delete
  <1>11. ASSUME PurgeDeletedExecutions PROVE Rest'
    BY <1>11 DEF PurgeDeletedExecutions
  <1>12. ASSUME NEW b \in Backups, DeleteBackup(b) PROVE Rest'
    BY <1>12 DEF DeleteBackup, Exists
  <1>13. ASSUME UNCHANGED vars PROVE Rest'
    BY <1>13 DEF vars
  <1>14. QED
    BY <1>1, <1>2, <1>3, <1>4, <1>5, <1>6, <1>7, <1>8, <1>9, <1>10, <1>11, <1>12, <1>13
    DEF Next, Claim

\* QueueInv is an invariant.
LEMMA QueueInvariant == Spec => []QueueInv
  <1>1. QueueInv /\ [Next]_vars => QueueInv'
    BY TypeStep, ShapeStep DEF QueueInv
  <1>2. QED
    BY QueueInvInit, <1>1, PTL DEF Spec

\* The state of the queue keeps its types whatever pods, calls and crashes
\* there are.
THEOREM TypeCorrect == Spec => []TypeOK
  <1>1. QueueInv => TypeOK
    BY DEF QueueInv
  <1>2. QED
    BY QueueInvariant, <1>1, PTL

\* No interleaving of the check-then-insert of EnqueueExecution, of claims, of
\* the reaper and of late reports makes two executions of a backup active.
THEOREM OneActive == Spec => []OneActivePerBackup
  <1>1. QueueInv => OneActivePerBackup
    BY DEF QueueInv
  <1>2. QED
    BY QueueInvariant, <1>1, PTL

\* No execution is ever run by two worker slots.
THEOREM OneRunner == Spec => []OneRunnerPerExecution
  <1>1. QueueInv => OneRunnerPerExecution
    BY DEF QueueInv
  <1>2. QED
    BY QueueInvariant, <1>1, PTL

-----------------------------------------------------------------------------
\* How a step changes the status of a row.

\* The moves a row can make, whoever makes them.
StatusMoves ==
    \A e \in Execs :
        \/ status'[e] = status[e]
        \/ status[e] = "none" /\ status'[e] = "queued"
        \/ status[e] = "queued" /\ status'[e] = "running"
        \/ status[e] \notin {"none", "queued"} /\ status'[e] \in Finished
        \/ status[e] \in Settled /\ status'[e] = "deleted"
        \/ status[e] # "none" /\ status'[e] = "gone"

\* Every step makes only these moves.
LEMMA StatusStep == QueueInv /\ [Next]_vars => StatusMoves
  <1> SUFFICES ASSUME QueueInv, [Next]_vars PROVE StatusMoves
    OBVIOUS
  <1> USE ConstantsOK DEF QueueInv, TypeOK, StatusMoves, ClaimedLeftQueue, SlotShape,
        DeleteShape, Busy, Settled, Finished, rows, slots, deletes, Exists
  <1>1. ASSUME NEW c \in Callers, InsertQueued(c) PROVE StatusMoves
    BY <1>1 DEF InsertQueued
  <1>2. ASSUME NEW c \in Callers, NEW b \in Backups, CheckRunning(c, b) PROVE StatusMoves
    BY <1>2 DEF CheckRunning
  <1>3. ASSUME NEW w \in Workers, NEW e \in Execs, ClaimExecution(w, e) PROVE StatusMoves
    BY <1>3 DEF ClaimExecution, StampClaim, Claimable
  <1>4. ASSUME NEW w \in Workers, Work(w) PROVE StatusMoves
    <2>1. CASE RecordSuccess(w)
      BY <2>1 DEF RecordSuccess, UpdateExecution
    <2>2. CASE RecordFailure(w)
      BY <2>2 DEF RecordFailure, UpdateExecution
    <2>3. CASE UNCHANGED status
      BY <2>3
    <2>4. QED
      BY <1>4, <2>1, <2>2, <2>3 DEF Work, PrepareFails, StartUpload, CreateFails,
         UploadDone, UploadFails, SizeUnread, ReportLost
  <1>5. ASSUME NEW w \in Workers, Beat(w) PROVE StatusMoves
    BY <1>5 DEF Beat, HeartbeatExecution, HeartbeatLost
  <1>6. ASSUME NEW w \in Workers, ReapStaleExecutions(w) PROVE StatusMoves
    BY <1>6 DEF ReapStaleExecutions, Stale
  <1>7. ASSUME NEW w \in Workers, Crash(w) PROVE StatusMoves
    BY <1>7 DEF Crash, Mishap
  <1>8. ASSUME NEW w \in Workers, Restart(w) PROVE StatusMoves
    BY <1>8 DEF Restart
  <1>9. ASSUME Tick PROVE StatusMoves
    BY <1>9 DEF Tick
  <1>10. ASSUME NEW d \in Cleaners, Delete(d) PROVE StatusMoves
    <2>1. CASE MarkDeleted(d)
      BY <2>1 DEF MarkDeleted
    <2>2. CASE UNCHANGED status
      BY <2>2
    <2>3. QED
      BY <1>10, <2>1, <2>2 DEF Delete, PickForDeletion, ReadForSoftDelete, DeleteFile,
         DeletionAborts
  <1>11. ASSUME PurgeDeletedExecutions PROVE StatusMoves
    BY <1>11 DEF PurgeDeletedExecutions
  <1>12. ASSUME NEW b \in Backups, DeleteBackup(b) PROVE StatusMoves
    BY <1>12 DEF DeleteBackup
  <1>13. ASSUME UNCHANGED vars PROVE StatusMoves
    BY <1>13 DEF vars
  <1>14. QED
    BY <1>1, <1>2, <1>3, <1>4, <1>5, <1>6, <1>7, <1>8, <1>9, <1>10, <1>11, <1>12, <1>13
    DEF Next, Claim

\* A settled execution is never queued or running again.
THEOREM Settles == Spec => NeverReactivated
  <1>1. QueueInv /\ [Next]_vars =>
          [\A e \in Execs :
             status[e] \in Settled => status'[e] \notin {"none", "queued", "running"}]_vars
    <2> SUFFICES ASSUME StatusMoves, NEW e \in Execs, status[e] \in Settled
                 PROVE  status'[e] \notin {"none", "queued", "running"}
      BY StatusStep
    <2> QED
      BY DEF StatusMoves, Settled, Finished
  <1>2. QED
    BY QueueInvariant, <1>1, PTL DEF Spec, NeverReactivated

-----------------------------------------------------------------------------
\* While no heartbeat is lost, a claimed job keeps its row.

\* A row belongs to a backup that exists.
RowsHaveBackup == \A e \in Execs : Exists(e) => BackupOf[e] \in backups

\* The row of a claimed job still runs, unless its backup was deleted.
JobHasRow ==
    \A w \in Workers :
        job[w] # None =>
            \/ status[job[w]] = "running"
            \/ status[job[w]] = "gone" /\ BackupOf[job[w]] \notin backups

\* The heartbeat of a claimed job is at most one interval old, and only while
\* the next attempt is due.
FreshBeat ==
    \A w \in Workers :
        job[w] # None /\ status[job[w]] = "running" =>
            \/ beat[job[w]] = 0
            \/ beat[job[w]] = 1 /\ due[w]

DumpInv == RowsHaveBackup /\ JobHasRow /\ FreshBeat /\ OneDumpPerBackup

\* The initial state satisfies the invariant.
LEMMA DumpInvInit == Init => DumpInv
  BY ConstantsOK
  DEF Init, DumpInv, RowsHaveBackup, JobHasRow, FreshBeat, OneDumpPerBackup, Exists

\* Every step keeps it that is no lost heartbeat.
BeatArrives == \A w \in Workers : ~HeartbeatLost(w)

LEMMA DumpInvStep == QueueInv /\ DumpInv /\ [Next]_vars /\ BeatArrives => DumpInv'
  <1> SUFFICES ASSUME QueueInv, DumpInv, [Next]_vars, BeatArrives PROVE DumpInv'
    OBVIOUS
  <1> USE ConstantsOK DEF QueueInv, TypeOK, SlotShape, ClaimedLeftQueue, DeleteShape,
        DumpInv, RowsHaveBackup, JobHasRow, FreshBeat, OneDumpPerBackup, Exists,
        Busy, Settled, Finished, rows, slots, deletes
  <1>1. ASSUME NEW c \in Callers, InsertQueued(c) PROVE DumpInv'
    BY <1>1 DEF InsertQueued
  <1>2. ASSUME NEW c \in Callers, NEW b \in Backups, CheckRunning(c, b) PROVE DumpInv'
    BY <1>2 DEF CheckRunning
  <1>3. ASSUME NEW w \in Workers, NEW e \in Execs, ClaimExecution(w, e) PROVE DumpInv'
    <2>1. \A v \in Workers : job[v] # None => BackupOf[job[v]] # BackupOf[e]
      BY <1>3 DEF ClaimExecution, Claimable, OneActivePerBackup, Active, ActiveNotDeleted
    <2>2. QED
      BY <1>3, <2>1 DEF ClaimExecution, StampClaim, Claimable
  <1>4. ASSUME NEW w \in Workers, Work(w) PROVE DumpInv'
    <2>1. CASE RecordSuccess(w)
      BY <2>1 DEF RecordSuccess, Release, UpdateExecution, OneRunnerPerExecution
    <2>2. CASE RecordFailure(w)
      BY <2>2 DEF RecordFailure, Release, UpdateExecution, OneRunnerPerExecution
    <2>3. CASE ReportLost(w)
      BY <2>3 DEF ReportLost, Release
    <2>4. CASE UNCHANGED <<backups, rows, job, due>>
      BY <2>4
    <2>5. QED
      BY <1>4, <2>1, <2>2, <2>3, <2>4 DEF Work, PrepareFails, StartUpload, CreateFails,
         UploadDone, UploadFails, SizeUnread
  <1>5. ASSUME NEW w \in Workers, Beat(w) PROVE DumpInv'
    <2>1. HeartbeatExecution(w)
      BY <1>5 DEF Beat, BeatArrives
    <2>2. job[w] \in Execs /\ UNCHANGED <<backups, status, job>>
      BY <2>1 DEF HeartbeatExecution
    <2>3. FreshBeat'
      BY <2>1, <2>2 DEF HeartbeatExecution, OneRunnerPerExecution
    <2>4. QED
      BY <2>2, <2>3
  <1>6. ASSUME NEW w \in Workers, ReapStaleExecutions(w) PROVE DumpInv'
    BY <1>6 DEF ReapStaleExecutions, Stale
  <1>7. ASSUME NEW w \in Workers, Crash(w) PROVE DumpInv'
    BY <1>7 DEF Crash, Mishap
  <1>8. ASSUME NEW w \in Workers, Restart(w) PROVE DumpInv'
    BY <1>8, AllRoleAlone DEF Restart
  <1>9. ASSUME Tick PROVE DumpInv'
    <2>1. UNCHANGED <<backups, status, job, pc>>
      BY <1>9 DEF Tick
    <2>2. ASSUME NEW w \in Workers, job[w] # None, status[job[w]] = "running"
          PROVE  beat'[job[w]] = 1 /\ due'[w]
      <3>1. job[w] \in Execs /\ pc[w] \in Busy /\ beat[job[w]] = 0
        BY <1>9, <2>2 DEF Tick
      <3>2. 0 <= StaleAfter /\ 0 # None
        OBVIOUS
      <3>3. beat'[job[w]] = 1
        BY <1>9, <2>2, <3>1, <3>2 DEF Tick
      <3>4. due'[w] = (pc[w] \in Busy)
        BY <1>9, Zenon DEF Tick
      <3>5. QED
        BY <3>1, <3>3, <3>4
    <2>3. QED
      BY <2>1, <2>2
  <1>10. ASSUME NEW d \in Cleaners, Delete(d) PROVE DumpInv'
    <2>1. CASE MarkDeleted(d)
      BY <2>1 DEF MarkDeleted
    <2>2. CASE UNCHANGED <<backups, rows, job, due>>
      BY <2>2
    <2>3. QED
      BY <1>10, <2>1, <2>2 DEF Delete, PickForDeletion, ReadForSoftDelete, DeleteFile,
         DeletionAborts
  <1>11. ASSUME PurgeDeletedExecutions PROVE DumpInv'
    BY <1>11 DEF PurgeDeletedExecutions
  <1>12. ASSUME NEW b \in Backups, DeleteBackup(b) PROVE DumpInv'
    BY <1>12 DEF DeleteBackup
  <1>13. ASSUME UNCHANGED vars PROVE DumpInv'
    BY <1>13 DEF vars
  <1>14. QED
    BY <1>1, <1>2, <1>3, <1>4, <1>5, <1>6, <1>7, <1>8, <1>9, <1>10, <1>11, <1>12, <1>13
    DEF Next, Claim

\* Where no heartbeat is lost, two workers never dump one backup at a time, for
\* any number of pods, crashes, lost reports and deletions.
THEOREM OneDump ==
    ASSUME "beat" \notin Faults
    PROVE  Spec => []OneDumpPerBackup
  <1>1. QueueInv /\ DumpInv /\ [Next]_vars => DumpInv'
    BY DumpInvStep DEF BeatArrives, HeartbeatLost
  <1>2. DumpInv => OneDumpPerBackup
    BY DEF DumpInv
  <1>3. QED
    BY QueueInvariant, DumpInvInit, <1>1, <1>2, PTL DEF Spec

\* Where no heartbeat is lost, the reaper and the start-up of a pod fail only
\* executions that no worker runs.
THEOREM ReaperSparesTheLiving ==
    ASSUME "beat" \notin Faults
    PROVE  Spec => ReapsOnlyTheDead
  <1> DEFINE Spares ==
        \A e \in Execs :
          status[e] = "running" /\ status'[e] = "failed" =>
             \A w \in Workers :
                job[w] = e => pc[w] \in {"fail", "failPath"} /\ job'[w] = None
  <1>1. QueueInv /\ DumpInv /\ [Next]_vars => [Spares]_vars
    <2> SUFFICES ASSUME QueueInv, DumpInv, Next PROVE Spares
      OBVIOUS
    <2> USE ConstantsOK DEF QueueInv, TypeOK, SlotShape, DumpInv, JobHasRow, FreshBeat,
          DeleteShape, Busy, Settled, Finished, rows, slots, deletes
    <2>1. ASSUME NEW w \in Workers, Work(w) PROVE Spares
      <3>1. CASE RecordSuccess(w)
        BY <3>1 DEF RecordSuccess, UpdateExecution
      <3>2. CASE RecordFailure(w)
        BY <3>2 DEF RecordFailure, UpdateExecution, Release, OneRunnerPerExecution
      <3>3. CASE UNCHANGED status
        BY <3>3
      <3>4. QED
        BY <2>1, <3>1, <3>2, <3>3 DEF Work, PrepareFails, StartUpload, CreateFails,
           UploadDone, UploadFails, SizeUnread, ReportLost
    <2>2. ASSUME NEW w \in Workers, ReapStaleExecutions(w) PROVE Spares
      BY <2>2 DEF ReapStaleExecutions, Stale
    <2>3. ASSUME NEW w \in Workers, Restart(w) PROVE Spares
      BY <2>3, AllRoleAlone DEF Restart
    <2>4. CASE \A e \in Execs : status[e] = "running" => status'[e] # "failed"
      BY <2>4
    <2>5. ASSUME NEW c \in Callers, InsertQueued(c) PROVE Spares
      BY <2>5 DEF InsertQueued
    <2>6. ASSUME NEW w \in Workers, NEW e \in Execs, ClaimExecution(w, e) PROVE Spares
      BY <2>6 DEF ClaimExecution, StampClaim
    <2>7. ASSUME NEW d \in Cleaners, Delete(d) PROVE Spares
      BY <2>7 DEF Delete, PickForDeletion, ReadForSoftDelete, DeleteFile, MarkDeleted,
         DeletionAborts
    <2>8. ASSUME PurgeDeletedExecutions PROVE Spares
      BY <2>8 DEF PurgeDeletedExecutions
    <2>9. ASSUME NEW b \in Backups, DeleteBackup(b) PROVE Spares
      BY <2>9 DEF DeleteBackup
    <2>10. QED
      BY <2>1, <2>2, <2>3, <2>4, <2>5, <2>6, <2>7, <2>8, <2>9
      DEF Next, Claim, Beat, HeartbeatExecution, HeartbeatLost, Tick, Crash, CheckRunning
  <1>2. QueueInv /\ DumpInv /\ [Next]_vars => DumpInv'
    BY DumpInvStep DEF BeatArrives, HeartbeatLost
  <1>3. QED
    BY QueueInvariant, DumpInvInit, <1>1, <1>2, PTL DEF Spec, ReapsOnlyTheDead

-----------------------------------------------------------------------------
\* What is stored for an execution that says success.

\* A path is recorded by the last report of a job, so no worker runs an
\* execution that has one.
PathIsLast ==
    \A e \in Execs :
        path[e] => status[e] \notin {"none", "queued"} /\ \A w \in Workers : job[w] # e

\* A deletion removes a file only of an execution whose row records its path.
DeletesRecorded ==
    \A d \in Cleaners : delPath[d] => delExec[d] # None /\ path[delExec[d]]

\* A worker that is about to report success has stored the complete dump.
UploadedBeforeSuccess ==
    \A w \in Workers : pc[w] = "succeed" => stored[job[w]] = "complete"

StoreInv == PathIsLast /\ DeletesRecorded /\ UploadedBeforeSuccess /\ SuccessHasDump

\* The initial state satisfies the invariant.
LEMMA StoreInvInit == Init => StoreInv
  BY DEF Init, StoreInv, PathIsLast, DeletesRecorded, UploadedBeforeSuccess, SuccessHasDump

\* Every step keeps it.
LEMMA StoreInvStep == QueueInv /\ StoreInv /\ [Next]_vars => StoreInv'
  <1> SUFFICES ASSUME QueueInv, StoreInv, [Next]_vars PROVE StoreInv'
    OBVIOUS
  <1> USE ConstantsOK DEF QueueInv, TypeOK, SlotShape, ClaimedLeftQueue, DeleteShape,
        StoreInv, PathIsLast, DeletesRecorded, UploadedBeforeSuccess, SuccessHasDump, Exists,
        Busy, Settled, Finished, rows, slots, deletes
  <1>1. ASSUME NEW c \in Callers, InsertQueued(c) PROVE StoreInv'
    BY <1>1 DEF InsertQueued
  <1>2. ASSUME NEW c \in Callers, NEW b \in Backups, CheckRunning(c, b) PROVE StoreInv'
    BY <1>2 DEF CheckRunning
  <1>3. ASSUME NEW w \in Workers, NEW e \in Execs, ClaimExecution(w, e) PROVE StoreInv'
    BY <1>3 DEF ClaimExecution, StampClaim, Claimable
  <1>4. ASSUME NEW w \in Workers, Work(w) PROVE StoreInv'
    <2>1. CASE PrepareFails(w) \/ CreateFails(w) \/ UploadFails(w)
      BY <2>1 DEF PrepareFails, CreateFails, UploadFails
    <2>2. CASE StartUpload(w)
      BY <2>2 DEF StartUpload, OneRunnerPerExecution
    <2>3. CASE UploadDone(w) \/ SizeUnread(w)
      BY <2>3 DEF UploadDone, SizeUnread, OneRunnerPerExecution
    <2>4. CASE RecordSuccess(w)
      BY <2>4 DEF RecordSuccess, Release, UpdateExecution, OneRunnerPerExecution
    <2>5. CASE RecordFailure(w)
      BY <2>5 DEF RecordFailure, Release, UpdateExecution, OneRunnerPerExecution,
         FailureHasPath
    <2>6. CASE ReportLost(w)
      BY <2>6 DEF ReportLost, Release, Mishap
    <2>7. QED
      BY <1>4, <2>1, <2>2, <2>3, <2>4, <2>5, <2>6 DEF Work
  <1>5. ASSUME NEW w \in Workers, Beat(w) PROVE StoreInv'
    BY <1>5 DEF Beat, HeartbeatExecution, HeartbeatLost
  <1>6. ASSUME NEW w \in Workers, ReapStaleExecutions(w) PROVE StoreInv'
    BY <1>6 DEF ReapStaleExecutions, Stale
  <1>7. ASSUME NEW w \in Workers, Crash(w) PROVE StoreInv'
    BY <1>7 DEF Crash, Mishap
  <1>8. ASSUME NEW w \in Workers, Restart(w) PROVE StoreInv'
    BY <1>8 DEF Restart
  <1>9. ASSUME Tick PROVE StoreInv'
    BY <1>9 DEF Tick
  <1>10. ASSUME NEW d \in Cleaners, Delete(d) PROVE StoreInv'
    <2>1. CASE \E e \in Execs : PickForDeletion(d, e)
      BY <2>1 DEF PickForDeletion
    <2>2. CASE ReadForSoftDelete(d)
      BY <2>2 DEF ReadForSoftDelete, DeletionEnds
    <2>3. CASE DeleteFile(d)
      BY <2>3 DEF DeleteFile, DeletionEnds
    <2>4. CASE MarkDeleted(d)
      BY <2>4 DEF MarkDeleted, DeletionEnds
    <2>5. CASE DeletionAborts(d)
      BY <2>5 DEF DeletionAborts, DeletionEnds
    <2>6. QED
      BY <1>10, <2>1, <2>2, <2>3, <2>4, <2>5 DEF Delete
  <1>11. ASSUME PurgeDeletedExecutions PROVE StoreInv'
    BY <1>11 DEF PurgeDeletedExecutions
  <1>12. ASSUME NEW b \in Backups, DeleteBackup(b) PROVE StoreInv'
    BY <1>12 DEF DeleteBackup
  <1>13. ASSUME UNCHANGED vars PROVE StoreInv'
    BY <1>13 DEF vars
  <1>14. QED
    BY <1>1, <1>2, <1>3, <1>4, <1>5, <1>6, <1>7, <1>8, <1>9, <1>10, <1>11, <1>12, <1>13
    DEF Next, Claim

\* A row that says success has its complete dump in storage or a deletion has
\* begun, with lost heartbeats, late reports and crashes too.
THEOREM SuccessIsStored == Spec => []SuccessHasDump
  <1>1. StoreInv => SuccessHasDump
    BY DEF StoreInv
  <1>2. QED
    BY QueueInvariant, StoreInvInit, StoreInvStep, <1>1, PTL DEF Spec

-----------------------------------------------------------------------------
\* While nothing goes wrong, every stored dump can be reached by housekeeping.

\* A slot that has not begun its upload, or failed before it, has stored nothing.
NothingYet ==
    \A w \in Workers : pc[w] \in {"prepare", "fail"} => stored[job[w]] = "none"

\* A deletion that has passed the file has left none.
FileIsGone ==
    \A d \in Cleaners :
        delPc[d] = "mark" \/ (delPc[d] = "file" /\ ~delPath[d]) =>
            stored[delExec[d]] = "none"

\* Every dump belongs to a worker, or to a finished row with its path.
DumpsReached ==
    \A e \in Execs :
        stored[e] # "none" =>
            \/ \E w \in Workers : job[w] = e
            \/ status[e] \in Finished /\ path[e]

Calm == mishaps = 0 /\ backups = Backups

CalmInv ==
    Calm => /\ DumpInv
            /\ \A w \in Workers : pc[w] # "down"
            /\ NothingYet /\ FileIsGone /\ DumpsReached

\* The initial state satisfies the invariant.
LEMMA CalmInvInit == Init => CalmInv
  <1> SUFFICES ASSUME Init PROVE CalmInv
    OBVIOUS
  <1>1. DumpInv
    BY DumpInvInit
  <1>2. QED
    BY <1>1 DEF Init, CalmInv, NothingYet, FileIsGone, DumpsReached

\* A calm state has calm predecessors, and no heartbeat, report or pod is lost.
LEMMA CalmBefore ==
    ASSUME QueueInv, [Next]_vars, Calm'
    PROVE  /\ Calm
           /\ BeatArrives
           /\ \A w \in Workers : ~Crash(w) /\ ~ReportLost(w)
           /\ \A b \in Backups : ~DeleteBackup(b)
  <1> USE DEF Calm, BeatArrives
  <1>1. mishaps \in Nat /\ backups \subseteq Backups
    BY DEF QueueInv, TypeOK
  <1>2. /\ BeatArrives
        /\ \A w \in Workers : ~Crash(w) /\ ~ReportLost(w)
        /\ \A b \in Backups : ~DeleteBackup(b)
    BY <1>1 DEF HeartbeatLost, Crash, ReportLost, DeleteBackup, Mishap
  <1>3. UNCHANGED <<mishaps, backups>>
    BY <1>2 DEF Next, Claim, ClaimExecution, Work, Beat, Delete, vars, InsertQueued, CheckRunning,
       PrepareFails, StartUpload, CreateFails, UploadDone, UploadFails, SizeUnread, RecordSuccess,
       RecordFailure, HeartbeatExecution, ReapStaleExecutions, Restart, Tick,
       PickForDeletion, ReadForSoftDelete, DeleteFile, MarkDeleted, DeletionAborts,
       PurgeDeletedExecutions
  <1>4. QED
    BY <1>2, <1>3

\* Every step keeps it.
LEMMA CalmInvStep == QueueInv /\ CalmInv /\ [Next]_vars => CalmInv'
  <1> DEFINE Reached == NothingYet /\ FileIsGone /\ DumpsReached
             Up == \A w \in Workers : pc[w] # "down"
  <1> SUFFICES ASSUME QueueInv, CalmInv, [Next]_vars, Calm'
               PROVE  DumpInv' /\ Up' /\ Reached'
    BY DEF CalmInv
  <1>0. /\ BeatArrives
        /\ \A w \in Workers : ~Crash(w) /\ ~ReportLost(w)
        /\ \A b \in Backups : ~DeleteBackup(b)
        /\ DumpInv /\ Up /\ Reached
    BY CalmBefore DEF CalmInv
  <1>00. DumpInv'
    BY <1>0, DumpInvStep
  <1>000. \A w \in Workers : job[w] # None => status[job[w]] = "running"
    BY <1>0, CalmBefore, ConstantsOK DEF DumpInv, JobHasRow, Calm, QueueInv, TypeOK
  <1> SUFFICES Up' /\ Reached'
    BY <1>00
  <1> USE ConstantsOK, <1>0, <1>000
      DEF QueueInv, TypeOK, SlotShape, ClaimedLeftQueue, DeleteShape, NothingYet, FileIsGone,
          DumpsReached, Exists, Busy, Settled, Finished, rows, slots, deletes
  <1>1. ASSUME NEW c \in Callers, InsertQueued(c) PROVE Up' /\ Reached'
    BY <1>1 DEF InsertQueued
  <1>2. ASSUME NEW c \in Callers, NEW b \in Backups, CheckRunning(c, b) PROVE Up' /\ Reached'
    BY <1>2 DEF CheckRunning
  <1>3. ASSUME NEW w \in Workers, NEW e \in Execs, ClaimExecution(w, e) PROVE Up' /\ Reached'
    BY <1>3 DEF ClaimExecution, StampClaim, Claimable
  <1>4. ASSUME NEW w \in Workers, Work(w) PROVE Up' /\ Reached'
    <2>1. CASE PrepareFails(w) \/ CreateFails(w) \/ UploadFails(w)
      BY <2>1 DEF PrepareFails, CreateFails, UploadFails
    <2>2. CASE StartUpload(w)
      <3>1. job[w] \in Execs /\ status[job[w]] = "running"
        BY <2>2 DEF StartUpload
      <3>2. /\ pc' = [pc EXCEPT ![w] = "upload"]
            /\ UNCHANGED <<status, path, job, delPc, delExec, delPath>>
            /\ \A e \in Execs : e # job[w] => stored'[e] = stored[e]
        BY <2>2, <3>1 DEF StartUpload
      <3>3. Up'
        BY <3>2
      <3>4. NothingYet'
        BY <3>1, <3>2 DEF OneRunnerPerExecution
      <3>5. FileIsGone'
        BY <3>1, <3>2
      <3>6. DumpsReached'
        BY <3>1, <3>2
      <3>7. QED
        BY <3>3, <3>4, <3>5, <3>6
    <2>3. CASE UploadDone(w) \/ SizeUnread(w)
      BY <2>3 DEF UploadDone, SizeUnread, OneRunnerPerExecution
    <2>4. CASE RecordSuccess(w)
      BY <2>4 DEF RecordSuccess, Release, UpdateExecution, OneRunnerPerExecution
    <2>5. CASE RecordFailure(w)
      BY <2>5 DEF RecordFailure, Release, UpdateExecution, OneRunnerPerExecution,
         FailureHasPath
    <2>6. QED
      BY <1>4, <2>1, <2>2, <2>3, <2>4, <2>5 DEF Work
  <1>5. ASSUME NEW w \in Workers, Beat(w) PROVE Up' /\ Reached'
    BY <1>5 DEF Beat, HeartbeatExecution, HeartbeatLost
  <1>6. ASSUME NEW w \in Workers, ReapStaleExecutions(w) PROVE Up' /\ Reached'
    BY <1>6 DEF ReapStaleExecutions, Stale
  <1>7. ASSUME NEW w \in Workers, Restart(w) PROVE Up' /\ Reached'
    BY <1>7 DEF Restart
  <1>8. ASSUME Tick PROVE Up' /\ Reached'
    BY <1>8 DEF Tick
  <1>9. ASSUME NEW d \in Cleaners, Delete(d) PROVE Up' /\ Reached'
    <2>1. CASE \E e \in Execs : PickForDeletion(d, e)
      BY <2>1 DEF PickForDeletion
    <2>2. CASE ReadForSoftDelete(d)
      BY <2>2 DEF ReadForSoftDelete, DeletionEnds
    <2>3. CASE DeleteFile(d)
      BY <2>3 DEF DeleteFile, DeletionEnds
    <2>4. CASE MarkDeleted(d)
      BY <2>4 DEF MarkDeleted, DeletionEnds
    <2>5. CASE DeletionAborts(d)
      BY <2>5 DEF DeletionAborts, DeletionEnds
    <2>6. QED
      BY <1>9, <2>1, <2>2, <2>3, <2>4, <2>5 DEF Delete
  <1>10. ASSUME PurgeDeletedExecutions PROVE Up' /\ Reached'
    BY <1>10 DEF PurgeDeletedExecutions
  <1>11. ASSUME UNCHANGED vars PROVE Up' /\ Reached'
    BY <1>11 DEF vars
  <1>12. QED
    BY <1>1, <1>2, <1>3, <1>4, <1>5, <1>6, <1>7, <1>8, <1>9, <1>10, <1>11, <1>0
    DEF Next, Claim

\* As long as no pod crashes, no heartbeat or report is lost and no backup is
\* deleted, housekeeping can reach every stored dump.
THEOREM NoDumpIsOrphaned == Spec => []NoOrphanDump
  <1>1. CalmInv => NoOrphanDump
    BY DEF CalmInv, Calm, DumpsReached, NoOrphanDump
  <1>2. QED
    BY QueueInvariant, CalmInvInit, CalmInvStep, <1>1, PTL DEF Spec

-----------------------------------------------------------------------------
\* The queue implements one slot per backup.

\* Choosing from a set with one element gives that element.
LEMMA ChooseOnly ==
    ASSUME NEW S, NEW x \in S, \A y \in S : y = x
    PROVE  (CHOOSE y \in S : TRUE) = x
  OBVIOUS

\* A slot holds the active execution of its backup.
LEMMA SlotHolds ==
    ASSUME OneActivePerBackup, NEW b \in Backups, NEW e \in Execs, e \in ActiveOf(b)
    PROVE  SlotOf[b] = e
  <1>1. \A y \in ActiveOf(b) : y = e
    BY DEF ActiveOf, OneActivePerBackup
  <1>2. (CHOOSE y \in ActiveOf(b) : TRUE) = e
    BY <1>1, ChooseOnly
  <1>3. QED
    BY <1>2 DEF SlotOf

\* No step but the INSERT of a row gives an unused execution a row.
LEMMA UnusedStays ==
    ASSUME QueueInv, [Next]_vars
    PROVE  \/ \A e \in Execs : status[e] = "none" => status'[e] = "none"
           \/ \E c \in Callers : InsertQueued(c) /\ ask[c] \in backups /\ IndexAllows(ask[c])
  <1> DEFINE Stays == \A e \in Execs : status[e] = "none" => status'[e] = "none"
  <1> USE ConstantsOK DEF QueueInv, TypeOK, ClaimedLeftQueue, SlotShape, DeleteShape, Busy,
        Settled, Finished, rows, slots, deletes, Exists
  <1>1. ASSUME NEW c \in Callers, InsertQueued(c)
        PROVE  Stays \/ (ask[c] \in backups /\ IndexAllows(ask[c]))
    BY <1>1 DEF InsertQueued
  <1>2. ASSUME NEW w \in Workers, NEW e \in Execs, ClaimExecution(w, e) PROVE Stays
    BY <1>2 DEF ClaimExecution, StampClaim, Claimable
  <1>3. ASSUME NEW w \in Workers, Work(w) PROVE Stays
    BY <1>3 DEF Work, PrepareFails, StartUpload, CreateFails, UploadDone, UploadFails, SizeUnread,
       RecordSuccess, RecordFailure, ReportLost, UpdateExecution
  <1>4. ASSUME NEW w \in Workers, ReapStaleExecutions(w) \/ Restart(w) PROVE Stays
    BY <1>4 DEF ReapStaleExecutions, Stale, Restart
  <1>5. ASSUME NEW d \in Cleaners, Delete(d) PROVE Stays
    BY <1>5 DEF Delete, PickForDeletion, ReadForSoftDelete, DeleteFile, MarkDeleted,
       DeletionAborts
  <1>6. ASSUME PurgeDeletedExecutions PROVE Stays
    BY <1>6 DEF PurgeDeletedExecutions
  <1>7. ASSUME NEW b \in Backups, DeleteBackup(b) PROVE Stays
    BY <1>7 DEF DeleteBackup
  <1>8. CASE UNCHANGED status
    BY <1>8
  <1>9. QED
    BY <1>1, <1>2, <1>3, <1>4, <1>5, <1>6, <1>7, <1>8
    DEF Next, vars, Claim, Beat, HeartbeatExecution, HeartbeatLost, Tick, Crash, CheckRunning

\* A step that brings no new row makes the backups of settled executions leave
\* their slots, and changes nothing else.
LEMMA LeaveStep ==
    ASSUME QueueInv, QueueInv', StatusMoves,
           \A e \in Execs : status[e] = "none" => status'[e] = "none"
    PROVE  Slots!Next
  <1> DEFINE R == {b \in Backups : ActiveOf(b)' = {}}
  <1>1. Born' = Born
    BY DEF Born, StatusMoves, QueueInv, TypeOK, Settled, Finished
  <1>2. \A b \in Backups : ActiveOf(b)' \subseteq ActiveOf(b)
    BY DEF ActiveOf, Active, StatusMoves, QueueInv, TypeOK, ActiveNotDeleted, Settled, Finished
  <1>3. ASSUME NEW b \in Backups
        PROVE  SlotOf'[b] = IF b \in R THEN None ELSE SlotOf[b]
    <2>1. CASE b \in R
      BY <2>1 DEF SlotOf
    <2>2. CASE b \notin R
      <3>1. PICK e \in Execs : e \in ActiveOf(b)'
        BY <2>2 DEF ActiveOf
      <3>2. e \in ActiveOf(b)
        BY <3>1, <1>2
      <3>3. SlotOf[b] = e
        BY <3>2, SlotHolds DEF QueueInv
      <3>4. \A y \in ActiveOf(b)' : y = e
        BY <3>1 DEF ActiveOf, QueueInv, OneActivePerBackup
      <3>5. (CHOOSE y \in ActiveOf(b)' : TRUE) = e
        BY <3>1, <3>4, ChooseOnly
      <3>6. SlotOf'[b] = e
        BY <3>1, <3>5 DEF SlotOf
      <3>7. QED
        BY <2>2, <3>3, <3>6
    <2>3. QED
      BY <2>1, <2>2
  <1>4. SlotOf' = [b \in Backups |-> IF b \in R THEN None ELSE SlotOf[b]]
    BY <1>3 DEF SlotOf
  <1>5. Slots!Leave(R)
    BY <1>1, <1>4 DEF Slots!Leave
  <1>6. QED
    BY <1>5 DEF Slots!Next

\* The INSERT of a row takes the free slot of its backup.
LEMMA TakeStep ==
    ASSUME QueueInv, QueueInv', NEW c \in Callers, InsertQueued(c),
           ask[c] \in backups, IndexAllows(ask[c])
    PROVE  Slots!Next
  <1> USE ConstantsOK
  <1>1. PICK e \in Execs : /\ status[e] = "none" /\ BackupOf[e] = ask[c]
                           /\ status' = [status EXCEPT ![e] = "queued"]
                           /\ softDeleted' = softDeleted
    BY DEF InsertQueued
  <1>2. e \notin Born /\ Born' = Born \cup {e}
    BY <1>1 DEF Born, QueueInv, TypeOK
  <1>3. BackupOf[e] \in Backups /\ ActiveOf(BackupOf[e]) = {}
    BY <1>1 DEF ActiveOf, IndexAllows, HasRunningExecution
  <1>4. ~softDeleted[e]
    BY <1>1 DEF QueueInv, ActiveNotDeleted
  <1>5. ActiveOf(BackupOf[e])' = {e}
    BY <1>1, <1>3, <1>4 DEF ActiveOf, Active, QueueInv, TypeOK
  <1>6. \A b \in Backups : b # BackupOf[e] => ActiveOf(b)' = ActiveOf(b)
    BY <1>1 DEF ActiveOf, Active, QueueInv, TypeOK
  <1>7. SlotOf[BackupOf[e]] = None
    BY <1>3 DEF SlotOf
  <1>8. (CHOOSE y \in ActiveOf(BackupOf[e])' : TRUE) = e
    BY <1>5, ChooseOnly
  <1>9. SlotOf'[BackupOf[e]] = e
    BY <1>3, <1>5, <1>8 DEF SlotOf
  <1>10. ASSUME NEW b \in Backups, b # BackupOf[e] PROVE SlotOf'[b] = SlotOf[b]
    <2>1. ActiveOf(b)' = ActiveOf(b)
      BY <1>6, <1>10
    <2>2. (CHOOSE y \in ActiveOf(b)' : TRUE) = (CHOOSE y \in ActiveOf(b) : TRUE)
      BY <2>1
    <2>3. QED
      BY <2>1, <2>2 DEF SlotOf
  <1>11. SlotOf' = [SlotOf EXCEPT ![BackupOf[e]] = e]
    BY <1>3, <1>9, <1>10 DEF SlotOf
  <1>12. Slots!Take(e)
    BY <1>2, <1>7, <1>11 DEF Slots!Take
  <1>13. QED
    BY <1>12 DEF Slots!Next

\* The queue implements JobSlots: every behaviour of pods, callers, reapers and
\* cleaners shows as jobs that take and leave one slot per backup.
THEOREM ImplementsJobSlots == Spec => SlotsSpec
  <1>1. Init => Slots!Init
    BY DEF Init, Slots!Init, SlotOf, Born, ActiveOf, Active
  <1>2. QueueInv /\ QueueInv' /\ [Next]_vars => [Slots!Next]_<<SlotOf, Born>>
    <2> SUFFICES ASSUME QueueInv, QueueInv', [Next]_vars PROVE Slots!Next
      OBVIOUS
    <2>1. StatusMoves
      BY StatusStep
    <2>2. CASE \A e \in Execs : status[e] = "none" => status'[e] = "none"
      BY <2>1, <2>2, LeaveStep
    <2>3. CASE \E c \in Callers : InsertQueued(c) /\ ask[c] \in backups /\ IndexAllows(ask[c])
      BY <2>3, TakeStep
    <2>4. QED
      BY <2>2, <2>3, UnusedStays
  <1>3. QED
    BY QueueInvariant, <1>1, <1>2, PTL DEF Spec, SlotsSpec, Slots!Spec

-----------------------------------------------------------------------------
\* What becomes of a job whose worker is gone: the part of JobsSettle that holds
\* without fairness.

\* What a step does to the heartbeat of a row, and to the job of a slot.
BeatMoves ==
    \A e \in Execs :
        \/ beat'[e] = beat[e] /\ (status'[e] = "running" => status[e] = "running")
        \/ status[e] = "queued" /\ beat'[e] = 0
        \/ status'[e] = status[e] /\ beat'[e] = 0 /\ \E w \in Workers : job[w] = e
        \/ /\ status'[e] = status[e] /\ beat[e] # None /\ beat[e] <= StaleAfter
           /\ beat'[e] = beat[e] + 1

JobMoves == \A w \in Workers : job'[w] \in {None, job[w]} \/ status[job'[w]] = "queued"

\* Every step moves heartbeats and jobs in one of these ways.
LEMMA BeatStep == ASSUME QueueInv, Next PROVE BeatMoves /\ JobMoves
  <1> USE ConstantsOK DEF QueueInv, TypeOK, BeatMoves, JobMoves, ClaimedLeftQueue, SlotShape,
        Busy, Settled, Finished, rows, slots, deletes, Exists
  <1>1. ASSUME NEW c \in Callers, InsertQueued(c) PROVE BeatMoves /\ JobMoves
    BY <1>1 DEF InsertQueued
  <1>2. ASSUME NEW w \in Workers, NEW e \in Execs, ClaimExecution(w, e) PROVE BeatMoves /\ JobMoves
    BY <1>2 DEF ClaimExecution, StampClaim, Claimable
  <1>3. ASSUME NEW w \in Workers, RecordSuccess(w) \/ RecordFailure(w) PROVE BeatMoves /\ JobMoves
    BY <1>3 DEF RecordSuccess, RecordFailure, UpdateExecution, Release
  <1>4. ASSUME NEW w \in Workers, HeartbeatExecution(w) PROVE BeatMoves /\ JobMoves
    BY <1>4 DEF HeartbeatExecution
  <1>5. ASSUME NEW w \in Workers, ReapStaleExecutions(w) \/ Restart(w) PROVE BeatMoves /\ JobMoves
    BY <1>5 DEF ReapStaleExecutions, Stale, Restart
  <1>6. ASSUME NEW w \in Workers, Crash(w) \/ ReportLost(w) PROVE BeatMoves /\ JobMoves
    BY <1>6 DEF Crash, ReportLost, Release
  <1>7. ASSUME Tick PROVE BeatMoves /\ JobMoves
    BY <1>7 DEF Tick
  <1>8. ASSUME NEW d \in Cleaners, MarkDeleted(d) PROVE BeatMoves /\ JobMoves
    BY <1>8 DEF MarkDeleted
  <1>9. CASE PurgeDeletedExecutions
    BY <1>9 DEF PurgeDeletedExecutions
  <1>10. ASSUME NEW b \in Backups, DeleteBackup(b) PROVE BeatMoves /\ JobMoves
    BY <1>10 DEF DeleteBackup
  <1>11. CASE UNCHANGED <<status, beat, job>>
    BY <1>11
  <1> QED BY <1>1, <1>2, <1>3, <1>4, <1>5, <1>6, <1>7, <1>8, <1>9, <1>10, <1>11
    DEF Next, Claim, Work, Beat, Delete, CheckRunning, PrepareFails, StartUpload, CreateFails,
        UploadDone, UploadFails, SizeUnread, HeartbeatLost, PickForDeletion, ReadForSoftDelete,
        DeleteFile, DeletionAborts

\* The reaper sees every running row: it carries a heartbeat and is not soft-deleted,
\* and no heartbeat ages past the moment it is stale.
RunningIsSeen ==
    \A e \in Execs : status[e] = "running" => ~softDeleted[e] /\ beat[e] \in 0..(StaleAfter + 1)

\* No running row is ever out of the reaper's sight.
THEOREM ReaperSeesAll == Spec => []RunningIsSeen
  <1>1. QueueInv /\ Init => RunningIsSeen
    BY DEF Init, RunningIsSeen
  <1>2. ASSUME QueueInv, QueueInv', RunningIsSeen, BeatMoves PROVE RunningIsSeen'
    <2> SUFFICES ASSUME NEW e \in Execs, status'[e] = "running"
                 PROVE  beat'[e] \in 0..(StaleAfter + 1)
      BY <1>2 DEF RunningIsSeen, QueueInv, ActiveNotDeleted
    <2>1. StaleAfter \in Nat
      BY ConstantsOK
    <2>2. beat[e] \in Nat \cup {None} /\ (status[e] = "running" => beat[e] \in 0..(StaleAfter + 1))
      BY <1>2 DEF RunningIsSeen, QueueInv, TypeOK
    <2>3. CASE beat'[e] = beat[e] /\ status[e] = "running"
      BY <2>2, <2>3
    <2>4. CASE beat'[e] = 0
      BY <2>1, <2>4
    <2>5. CASE beat[e] # None /\ beat[e] <= StaleAfter /\ beat'[e] = beat[e] + 1
      BY <2>1, <2>2, <2>5
    <2> QED BY <1>2, <2>3, <2>4, <2>5 DEF BeatMoves
  <1>3. ASSUME QueueInv, RunningIsSeen, UNCHANGED vars PROVE RunningIsSeen'
    BY <1>3 DEF RunningIsSeen, vars, rows
  <1>4. QueueInv /\ QueueInv' /\ RunningIsSeen /\ [Next]_vars => RunningIsSeen'
    BY <1>2, <1>3, BeatStep
  <1> QED BY <1>1, <1>4, QueueInvInit, QueueInvariant, PTL DEF Spec

\* A running row that no worker has is taken up by none, and nothing makes its
\* heartbeat younger: every interval that passes makes it older, until it is stale.
AbandonedAges ==
    \A e \in Execs :
        status[e] = "running" /\ (\A w \in Workers : job[w] # e) =>
            \/ status'[e] \in Settled
            \/ /\ status'[e] = "running" /\ \A w \in Workers : job'[w] # e
               /\ beat[e] <= beat'[e]
               /\ Tick => Stale(e) \/ beat'[e] = beat[e] + 1

\* The job of a worker that is gone comes ever nearer to the reaper, whatever the other
\* workers do.
THEOREM AbandonedIsReaped == Spec => [][AbandonedAges]_vars
  <1>1. ASSUME QueueInv, RunningIsSeen, Next PROVE AbandonedAges
    <2> SUFFICES ASSUME NEW e \in Execs, status[e] = "running",
                        \A w \in Workers : job[w] # e, status'[e] \notin Settled
                 PROVE  /\ status'[e] = "running" /\ \A w \in Workers : job'[w] # e
                        /\ beat[e] <= beat'[e]
                        /\ Tick => Stale(e) \/ beat'[e] = beat[e] + 1
      BY DEF AbandonedAges
    <2>1. status'[e] = "running"
      BY <1>1, StatusStep DEF StatusMoves, Settled, Finished
    <2>2. \A w \in Workers : job'[w] # e
      <3>1. JobMoves
        BY <1>1, BeatStep
      <3>2. e # None
        BY ConstantsOK
      <3> QED BY <3>1, <3>2 DEF JobMoves
    <2>3. beat[e] \in 0..(StaleAfter + 1) /\ StaleAfter \in Nat /\ ~softDeleted[e]
      BY <1>1, ConstantsOK DEF RunningIsSeen
    <2>4. beat'[e] = beat[e] \/ beat'[e] = beat[e] + 1
      BY <1>1, BeatStep DEF BeatMoves
    <2>5. beat[e] <= beat'[e]
      BY <2>3, <2>4
    <2>6. ASSUME Tick PROVE Stale(e) \/ beat'[e] = beat[e] + 1
      <3>1. beat'[e] = IF beat[e] # None /\ beat[e] <= StaleAfter THEN beat[e] + 1 ELSE beat[e]
        BY <2>6 DEF Tick
      <3>2. beat[e] # None
        BY <2>3, ConstantsOK
      <3>3. CASE beat[e] <= StaleAfter
        BY <3>1, <3>2, <3>3
      <3>4. CASE beat[e] > StaleAfter
        BY <2>3, <3>2, <3>4 DEF Stale
      <3> QED BY <2>3, <3>3, <3>4
    <2> QED BY <2>1, <2>2, <2>5, <2>6
  <1> QED BY <1>1, QueueInvariant, ReaperSeesAll, PTL DEF Spec
=============================================================================
