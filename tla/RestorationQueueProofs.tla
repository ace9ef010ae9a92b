----------------------- MODULE RestorationQueueProofs -----------------------
(***************************************************************************)
(* What holds of RestorationQueue for every set of targets, restorations,  *)
(* executions, workers and callers.                                        *)
(***************************************************************************)
EXTENDS RestorationQueue, TLAPS

-----------------------------------------------------------------------------
\* The inductive invariant, part by part.

\* A request under way has an id of its own, whose row is still to come.
AskShape ==
    \A c \in Callers : asked[c] # None =>
        /\ status[asked[c]] = "none"
        /\ \A d \in Callers : asked[d] = asked[c] => d = c

\* A slot has a job exactly while it is busy, and only then a due heartbeat.
SlotShape ==
    \A w \in Workers : /\ job[w] = None <=> pc[w] \notin Busy
                       /\ due[w] => job[w] # None

\* A claimed row has left the queue for good.
ClaimedLeftQueue ==
    \A w \in Workers : job[w] # None => status[job[w]] \notin {"none", "queued"}

QueueInv == TypeOK /\ AskShape /\ SlotShape /\ ClaimedLeftQueue /\ OneActivePerTarget

-----------------------------------------------------------------------------
\* The initial state satisfies the invariant.
LEMMA QueueInvInit == Init => QueueInv
  BY ConstantsOK
  DEF Init, QueueInv, TypeOK, Tags, AskShape, SlotShape, ClaimedLeftQueue,
      OneActivePerTarget, Active, Busy, Settled

\* Every step keeps the types.
LEMMA TypeStep == TypeOK /\ SlotShape /\ [Next]_vars => TypeOK'
  <1> SUFFICES ASSUME TypeOK, SlotShape, [Next]_vars PROVE TypeOK'
    OBVIOUS
  <1> USE ConstantsOK DEF TypeOK, SlotShape, Busy, Settled, rows, dumps, databases, slots
  <1>1. ASSUME NEW c \in Callers, EnqueueRestoration(c) PROVE TypeOK'
    <2>1. /\ asked' \in [Callers -> Restores \cup {None}]
          /\ UNCHANGED <<dumps, databases, slots, waiting, crashes>>
      BY <1>1 DEF EnqueueRestoration
    <2>2. UNCHANGED <<dump, beat>>
      BY <1>1 DEF EnqueueRestoration
    <2>3. status' \in [Restores -> {"none", "queued", "running"} \cup Settled]
      BY <1>1 DEF EnqueueRestoration
    <2>4. tag' \in [Restores -> Tags]
      <3>1. DefaultTag \in Tags
        BY DEF Tags
      <3>2. QED
        BY <1>1, <3>1 DEF EnqueueRestoration, TagStored
    <2>5. before' \in [Restores -> SUBSET Restores]
      <3>1. {x \in Restores : status[x] # "none"} \in SUBSET Restores
        OBVIOUS
      <3>2. QED
        BY <1>1, <3>1 DEF EnqueueRestoration
    <2>6. QED
      BY <2>1, <2>2, <2>3, <2>4, <2>5
  <1>2. ASSUME NEW c \in Callers, NEW r \in Restores, NEW e \in Dumps, StartRestore(c, r, e)
        PROVE  TypeOK'
    BY <1>2 DEF StartRestore
  <1>3. ASSUME NEW w \in Workers, NEW r \in Restores, ClaimRestoration(w, r) PROVE TypeOK'
    BY <1>3 DEF ClaimRestoration, StampClaim
  <1>4. ASSUME NEW w \in Workers, Work(w) PROVE TypeOK'
    <2>1. CASE CheckExecution(w) \/ LocateDump(w) \/ TestTarget(w) \/ StepFails(w)
      BY <2>1 DEF CheckExecution, LocateDump, TestTarget, StepFails, Goto, AfterError
    <2>2. CASE DropTarget(w)
      BY <2>2 DEF DropTarget, Goto
    <2>3. CASE CreateTarget(w)
      BY <2>3 DEF CreateTarget, Goto
    <2>4. CASE StartReplay(w)
      <3>1. job[w] \in Restores /\ Tgt(w) \in Targets
        BY <2>4 DEF StartReplay, Tgt
      <3>2. by[Tgt(w)] \cup {job[w]} \in SUBSET Restores
        BY <3>1
      <3>3. QED
        BY <2>4, <3>2 DEF StartReplay, Goto
    <2>5. CASE EndReplay(w)
      BY <2>5 DEF EndReplay, AfterReplay, Goto
    <2>6. CASE RecordSuccess(w)
      BY <2>6 DEF RecordSuccess, Release, UpdateRestoration, Goto
    <2>7. CASE RecordFailure(w)
      BY <2>7 DEF RecordFailure, Release, UpdateRestoration, Goto
    <2>8. CASE ReportLost(w)
      BY <2>8 DEF ReportLost, Release, Goto
    <2>9. CASE ReassignDatabaseOwner(w)
      BY <2>9 DEF ReassignDatabaseOwner, Goto
    <2>10. QED
      BY <1>4, <2>1, <2>2, <2>3, <2>4, <2>5, <2>6, <2>7, <2>8, <2>9 DEF Work
  <1>5. ASSUME NEW w \in Workers, Beat(w) PROVE TypeOK'
    <2>1. CASE HeartbeatRestoration(w)
      BY <2>1 DEF HeartbeatRestoration
    <2>2. CASE HeartbeatLost(w)
      BY <2>2 DEF HeartbeatLost
    <2>3. QED
      BY <1>5, <2>1, <2>2 DEF Beat
  <1>6. ASSUME NEW w \in Workers, ReapStaleRestorations(w) PROVE TypeOK'
    BY <1>6 DEF ReapStaleRestorations
  <1>7. ASSUME NEW w \in Workers, Crash(w) PROVE TypeOK'
    BY <1>7 DEF Crash, Goto
  <1>8. ASSUME NEW w \in Workers, Restart(w) PROVE TypeOK'
    BY <1>8 DEF Restart, Goto
  <1>9. ASSUME Tick PROVE TypeOK'
    BY <1>9 DEF Tick
  <1>10. ASSUME NEW r \in Restores, PurgeOldRestorations(r) PROVE TypeOK'
    BY <1>10 DEF PurgeOldRestorations
  <1>11. ASSUME NEW e \in Dumps, EraseDump(e) \/ MarkDumpDeleted(e) PROVE TypeOK'
    <2>1. CASE EraseDump(e)
      BY <2>1 DEF EraseDump
    <2>2. CASE MarkDumpDeleted(e)
      BY <2>2 DEF MarkDumpDeleted
    <2>3. QED
      BY <1>11, <2>1, <2>2
  <1>12. ASSUME NEW e \in Dumps, RemoveExecution(e) PROVE TypeOK'
    BY <1>12 DEF RemoveExecution
  <1>13. ASSUME NEW w \in Workers, Loop(w) PROVE TypeOK'
    <2>1. CASE ClaimExecution(w)
      BY <2>1 DEF ClaimExecution
    <2>2. CASE EndExecution(w) \/ NoExecution(w) \/ NoRestoration(w)
      BY <2>2 DEF EndExecution, NoExecution, NoRestoration
    <2>3. QED
      BY <1>13, <2>1, <2>2 DEF Loop
  <1>14. ASSUME NEW S \in SUBSET Backlog, BacklogChanges(S) PROVE TypeOK'
    BY <1>14 DEF BacklogChanges
  <1>15. CASE UNCHANGED vars
    BY <1>15 DEF vars
  <1>16. QED
    BY <1>1, <1>2, <1>3, <1>4, <1>5, <1>6, <1>7, <1>8, <1>9, <1>10, <1>11, <1>12, <1>13,
       <1>14, <1>15
    DEF Next, Claim

\* Between jobs a slot changes nothing but its place, and the queue of executions
\* nothing at all.
LEMMA LoopKeeps ==
    ASSUME TypeOK,
           (\E w \in Workers : Loop(w)) \/ (\E S \in SUBSET Backlog : BacklogChanges(S))
    PROVE  /\ UNCHANGED <<rows, dumps, databases, asked, job, due>>
           /\ pc' \in [Workers -> {"idle", "restorations", "execution", "down"} \cup Busy]
           /\ \A w \in Workers : pc'[w] # pc[w] => pc[w] \notin Busy /\ pc'[w] \notin Busy
  <1>1. ASSUME NEW w \in Workers, Loop(w)
        PROVE  /\ UNCHANGED <<rows, dumps, databases, asked, job, due>>
               /\ pc[w] \notin Busy
               /\ \E l \in {"idle", "restorations", "execution"} : pc' = [pc EXCEPT ![w] = l]
    BY <1>1 DEF Loop, ClaimExecution, EndExecution, NoExecution, NoRestoration, Busy
  <1>2. ASSUME NEW S \in SUBSET Backlog, BacklogChanges(S)
        PROVE  UNCHANGED <<rows, dumps, databases, asked, job, due, pc>>
    BY <1>2 DEF BacklogChanges, slots
  <1>3. QED
    BY <1>1, <1>2 DEF TypeOK, Busy

\* Every step keeps the other parts.
LEMMA ShapeStep ==
    QueueInv /\ [Next]_vars =>
      AskShape' /\ SlotShape' /\ ClaimedLeftQueue' /\ OneActivePerTarget'
  <1> DEFINE Rest == AskShape /\ SlotShape /\ ClaimedLeftQueue /\ OneActivePerTarget
  <1> SUFFICES ASSUME QueueInv, [Next]_vars PROVE Rest'
    OBVIOUS
  <1> USE ConstantsOK DEF QueueInv, TypeOK, AskShape, SlotShape, ClaimedLeftQueue,
        OneActivePerTarget, Active, Busy, Settled, rows, dumps, databases, slots
  <1>1. ASSUME NEW c \in Callers, EnqueueRestoration(c) PROVE Rest'
    BY <1>1 DEF EnqueueRestoration, IndexAllows
  <1>2. ASSUME NEW c \in Callers, NEW r \in Restores, NEW e \in Dumps, StartRestore(c, r, e)
        PROVE  Rest'
    BY <1>2 DEF StartRestore
  <1>3. ASSUME NEW w \in Workers, NEW r \in Restores, ClaimRestoration(w, r) PROVE Rest'
    BY <1>3 DEF ClaimRestoration, StampClaim, Claimable
  <1>4. ASSUME NEW w \in Workers, Work(w) PROVE Rest'
    <2>1. CASE RecordSuccess(w)
      BY <2>1 DEF RecordSuccess, Release, UpdateRestoration, Exists, Goto
    <2>2. CASE RecordFailure(w)
      BY <2>2 DEF RecordFailure, Release, UpdateRestoration, Exists, Goto
    <2>3. CASE ReportLost(w)
      BY <2>3 DEF ReportLost, Release, Goto
    <2>4. CASE /\ UNCHANGED <<status, asked, job, due>>
               /\ \E l \in Busy : pc' = [pc EXCEPT ![w] = l]
               /\ pc[w] \in Busy
      BY <2>4
    <2>5. CASE \/ CheckExecution(w) \/ LocateDump(w) \/ DropTarget(w) \/ CreateTarget(w)
               \/ TestTarget(w) \/ StartReplay(w) \/ EndReplay(w)
               \/ ReassignDatabaseOwner(w) \/ StepFails(w)
      BY <2>4, <2>5 DEF CheckExecution, LocateDump, DropTarget, CreateTarget, TestTarget,
         StartReplay, EndReplay, AfterReplay, ReassignDatabaseOwner, StepFails, AfterError, Goto
    <2>6. QED
      BY <1>4, <2>1, <2>2, <2>3, <2>5 DEF Work
  <1>5. ASSUME NEW w \in Workers, Beat(w) PROVE Rest'
    BY <1>5 DEF Beat, HeartbeatRestoration, HeartbeatLost
  <1>6. ASSUME NEW w \in Workers, ReapStaleRestorations(w) PROVE Rest'
    BY <1>6 DEF ReapStaleRestorations, Stale
  <1>7. ASSUME NEW w \in Workers, Crash(w) PROVE Rest'
    BY <1>7 DEF Crash, Goto
  <1>8. ASSUME NEW w \in Workers, Restart(w) PROVE Rest'
    BY <1>8 DEF Restart, Goto
  <1>9. ASSUME Tick PROVE Rest'
    BY <1>9 DEF Tick
  <1>10. ASSUME NEW r \in Restores, PurgeOldRestorations(r) PROVE Rest'
    BY <1>10 DEF PurgeOldRestorations, Purgeable
  <1>11. ASSUME NEW e \in Dumps, EraseDump(e) \/ MarkDumpDeleted(e) PROVE Rest'
    BY <1>11 DEF EraseDump, MarkDumpDeleted
  <1>12. ASSUME NEW e \in Dumps, RemoveExecution(e) PROVE Rest'
    BY <1>12 DEF RemoveExecution, Exists
  <1>13. CASE (\E w \in Workers : Loop(w)) \/ (\E S \in SUBSET Backlog : BacklogChanges(S))
    <2>1. UNCHANGED <<status, asked, job, due>>
      BY <1>13, LoopKeeps
    <2>2. \A w \in Workers : pc'[w] # pc[w] => pc[w] \notin Busy /\ pc'[w] \notin Busy
      BY <1>13, LoopKeeps
    <2>3. QED
      BY <2>1, <2>2
  <1>14. CASE UNCHANGED vars
    BY <1>14 DEF vars
  <1>15. QED
    BY <1>1, <1>2, <1>3, <1>4, <1>5, <1>6, <1>7, <1>8, <1>9, <1>10, <1>11, <1>12, <1>13,
       <1>14
    DEF Next, Claim

\* QueueInv is an invariant.
LEMMA QueueInvariant == Spec => []QueueInv
  <1>1. QueueInv /\ [Next]_vars => QueueInv'
    BY TypeStep, ShapeStep DEF QueueInv
  <1>2. QED
    BY QueueInvInit, <1>1, PTL DEF Spec

\* The state of the queue keeps its types whatever requests, pods, crashes and
\* deletions there are.
THEOREM TypeCorrect == Spec => []TypeOK
  <1>1. QueueInv => TypeOK
    BY DEF QueueInv
  <1>2. QED
    BY QueueInvariant, <1>1, PTL

\* No race of requests, late report, purge or cascade makes two restorations of
\* a target active.
THEOREM OneActive == Spec => []OneActivePerTarget
  <1>1. QueueInv => OneActivePerTarget
    BY DEF QueueInv
  <1>2. QED
    BY QueueInvariant, <1>1, PTL

-----------------------------------------------------------------------------
\* How a step changes the status of a row.

\* The moves a row can make, whoever makes them.
StatusMoves ==
    \A r \in Restores :
        \/ status'[r] = status[r]
        \/ status[r] = "none" /\ status'[r] = "queued"
        \/ status[r] = "queued" /\ status'[r] = "running"
        \/ status[r] \notin {"none", "queued"} /\ status'[r] \in {"success", "failed"}
        \/ status[r] # "none" /\ status'[r] = "gone"

\* Every step makes only these moves.
LEMMA StatusStep == QueueInv /\ [Next]_vars => StatusMoves
  <1> SUFFICES ASSUME QueueInv, [Next]_vars PROVE StatusMoves
    OBVIOUS
  <1> USE ConstantsOK DEF QueueInv, TypeOK, StatusMoves, AskShape, ClaimedLeftQueue,
        SlotShape, Busy, Settled, rows, dumps, slots, Exists
  <1>1. ASSUME NEW c \in Callers, EnqueueRestoration(c) PROVE StatusMoves
    BY <1>1 DEF EnqueueRestoration
  <1>2. ASSUME NEW w \in Workers, NEW r \in Restores, ClaimRestoration(w, r)
        PROVE  StatusMoves
    BY <1>2 DEF ClaimRestoration, StampClaim, Claimable
  <1>3. ASSUME NEW w \in Workers, Work(w) PROVE StatusMoves
    <2>1. CASE RecordSuccess(w)
      BY <2>1 DEF RecordSuccess, UpdateRestoration
    <2>2. CASE RecordFailure(w)
      BY <2>2 DEF RecordFailure, UpdateRestoration
    <2>3. CASE UNCHANGED status
      BY <2>3
    <2>4. QED
      BY <1>3, <2>1, <2>2, <2>3 DEF Work, CheckExecution, LocateDump, DropTarget,
         CreateTarget, TestTarget, StartReplay, EndReplay, ReassignDatabaseOwner, StepFails,
         ReportLost
  <1>4. ASSUME NEW w \in Workers, ReapStaleRestorations(w) \/ Restart(w) PROVE StatusMoves
    BY <1>4 DEF ReapStaleRestorations, Stale, Restart
  <1>5. ASSUME NEW r \in Restores, PurgeOldRestorations(r) PROVE StatusMoves
    BY <1>5 DEF PurgeOldRestorations, Purgeable
  <1>6. ASSUME NEW e \in Dumps, RemoveExecution(e) PROVE StatusMoves
    BY <1>6 DEF RemoveExecution
  <1>7. CASE UNCHANGED status
    BY <1>7
  <1>8. QED
    BY <1>1, <1>2, <1>3, <1>4, <1>5, <1>6, <1>7, LoopKeeps
    DEF Next, vars, Claim, StartRestore, Beat, HeartbeatRestoration, HeartbeatLost, Tick,
        Crash, EraseDump, MarkDumpDeleted

\* No step but the INSERT gives an unused id a row.
LEMMA UnusedStays ==
    ASSUME QueueInv, [Next]_vars
    PROVE  \/ \A r \in Restores : status[r] = "none" => status'[r] = "none"
           \/ \E c \in Callers : EnqueueRestoration(c) /\ IndexAllows(TargetOf[asked[c]])
                                   /\ status' = [status EXCEPT ![asked[c]] = "queued"]
  <1> DEFINE Stays == \A r \in Restores : status[r] = "none" => status'[r] = "none"
  <1> USE ConstantsOK DEF QueueInv, TypeOK, ClaimedLeftQueue, SlotShape, Busy, Settled,
        rows, dumps, slots, Exists
  <1>1. ASSUME NEW w \in Workers, NEW r \in Restores, ClaimRestoration(w, r) PROVE Stays
    BY <1>1 DEF ClaimRestoration, StampClaim, Claimable
  <1>2. ASSUME NEW w \in Workers, Work(w) PROVE Stays
    <2>1. CASE RecordSuccess(w) \/ RecordFailure(w)
      BY <2>1 DEF RecordSuccess, RecordFailure, UpdateRestoration
    <2>2. CASE UNCHANGED status
      BY <2>2
    <2>3. QED
      BY <1>2, <2>1, <2>2 DEF Work, CheckExecution, LocateDump, DropTarget, CreateTarget,
         TestTarget, StartReplay, EndReplay, ReassignDatabaseOwner, StepFails, ReportLost
  <1>3. ASSUME NEW w \in Workers, ReapStaleRestorations(w) \/ Restart(w) PROVE Stays
    BY <1>3 DEF ReapStaleRestorations, Stale, Restart
  <1>4. ASSUME NEW r \in Restores, PurgeOldRestorations(r) PROVE Stays
    BY <1>4 DEF PurgeOldRestorations, Purgeable
  <1>5. ASSUME NEW e \in Dumps, RemoveExecution(e) PROVE Stays
    BY <1>5 DEF RemoveExecution
  <1>6. CASE UNCHANGED status
    BY <1>6
  <1>7. QED
    BY <1>1, <1>2, <1>3, <1>4, <1>5, <1>6, LoopKeeps
    DEF Next, vars, Claim, EnqueueRestoration, StartRestore, Beat, HeartbeatRestoration,
        HeartbeatLost, Tick, Crash, EraseDump, MarkDumpDeleted

\* What a step does to the heartbeat of a row, and to the job of a slot.
BeatMoves ==
    \A e \in Restores :
        \/ beat'[e] = beat[e] /\ (status'[e] = "running" => status[e] = "running")
        \/ status[e] = "queued" /\ beat'[e] = 0
        \/ status'[e] = status[e] /\ beat'[e] = 0 /\ \E w \in Workers : job[w] = e
        \/ /\ status'[e] = status[e] /\ beat[e] # None /\ beat[e] <= StaleAfter
           /\ beat'[e] = beat[e] + 1

JobMoves == \A w \in Workers : job'[w] \in {None, job[w]} \/ status[job'[w]] = "queued"

\* Every step moves heartbeats and jobs in one of these ways.
LEMMA BeatStep == ASSUME QueueInv, Next PROVE BeatMoves /\ JobMoves
  <1> USE ConstantsOK DEF QueueInv, TypeOK, BeatMoves, JobMoves, ClaimedLeftQueue, SlotShape,
        Busy, Settled, rows, dumps, slots, Exists
  <1>1. ASSUME NEW c \in Callers, EnqueueRestoration(c) PROVE BeatMoves /\ JobMoves
    BY <1>1 DEF EnqueueRestoration
  <1>2. ASSUME NEW w \in Workers, NEW r \in Restores, ClaimRestoration(w, r)
        PROVE  BeatMoves /\ JobMoves
    BY <1>2 DEF ClaimRestoration, StampClaim, Claimable
  <1>3. ASSUME NEW w \in Workers, RecordSuccess(w) \/ RecordFailure(w) PROVE BeatMoves /\ JobMoves
    BY <1>3 DEF RecordSuccess, RecordFailure, UpdateRestoration, Release
  <1>4. ASSUME NEW w \in Workers, HeartbeatRestoration(w) PROVE BeatMoves /\ JobMoves
    BY <1>4 DEF HeartbeatRestoration
  <1>5. ASSUME NEW w \in Workers, ReapStaleRestorations(w) \/ Restart(w) PROVE BeatMoves /\ JobMoves
    BY <1>5 DEF ReapStaleRestorations, Stale, Restart
  <1>6. ASSUME NEW w \in Workers, Crash(w) \/ ReportLost(w) PROVE BeatMoves /\ JobMoves
    BY <1>6 DEF Crash, ReportLost, Release
  <1>7. ASSUME Tick PROVE BeatMoves /\ JobMoves
    BY <1>7 DEF Tick
  <1>8. ASSUME NEW r \in Restores, PurgeOldRestorations(r) PROVE BeatMoves /\ JobMoves
    BY <1>8 DEF PurgeOldRestorations
  <1>9. ASSUME NEW e \in Dumps, RemoveExecution(e) PROVE BeatMoves /\ JobMoves
    BY <1>9 DEF RemoveExecution
  <1>10. CASE UNCHANGED <<status, beat, job>>
    BY <1>10
  <1> QED BY <1>1, <1>2, <1>3, <1>4, <1>5, <1>6, <1>7, <1>8, <1>9, <1>10, LoopKeeps
    DEF Next, Claim, Work, Beat, StartRestore, CheckExecution, LocateDump, DropTarget,
        CreateTarget, TestTarget, StartReplay, EndReplay, ReassignDatabaseOwner, StepFails,
        HeartbeatLost, EraseDump, MarkDumpDeleted

\* A settled restoration is never queued or running again.
THEOREM Settles == Spec => NeverReactivated
  <1>1. QueueInv /\ [Next]_vars =>
          [\A r \in Restores :
             status[r] \in Settled => status'[r] \notin {"none", "queued", "running"}]_vars
    <2> SUFFICES ASSUME StatusMoves, NEW r \in Restores, status[r] \in Settled
                 PROVE  status'[r] \notin {"none", "queued", "running"}
      BY StatusStep
    <2> QED
      BY DEF StatusMoves, Settled
  <1>2. QED
    BY QueueInvariant, <1>1, PTL DEF Spec, NeverReactivated

-----------------------------------------------------------------------------
\* While heartbeats arrive and executions stay, a claimed job keeps its row.

\* The row of a claimed job still runs.
JobRuns == \A w \in Workers : job[w] # None => status[job[w]] = "running"

\* The heartbeat of a claimed job is at most one interval old, and only while
\* the next attempt is due.
FreshBeat ==
    \A w \in Workers :
        job[w] # None => \/ beat[job[w]] = 0
                         \/ beat[job[w]] = 1 /\ due[w]

GuardInv == JobRuns /\ FreshBeat /\ OneRestorerPerTarget

\* The initial state satisfies the invariant.
LEMMA GuardInvInit == Init => GuardInv
  BY DEF Init, GuardInv, JobRuns, FreshBeat, OneRestorerPerTarget

\* Every step keeps it, when heartbeats arrive and no execution is removed.
LEMMA GuardInvStep ==
    ASSUME "beat" \notin Faults, Cascading = {}
    PROVE  QueueInv /\ GuardInv /\ [Next]_vars => GuardInv'
  <1> SUFFICES ASSUME QueueInv, GuardInv, [Next]_vars PROVE GuardInv'
    OBVIOUS
  <1> USE ConstantsOK DEF QueueInv, TypeOK, AskShape, SlotShape, ClaimedLeftQueue, GuardInv,
        JobRuns, FreshBeat, OneRestorerPerTarget, Tgt, Busy, Settled, rows, dumps, databases,
        slots
  <1>1. ASSUME NEW c \in Callers, EnqueueRestoration(c) PROVE GuardInv'
    BY <1>1 DEF EnqueueRestoration
  <1>2. ASSUME NEW w \in Workers, NEW r \in Restores, ClaimRestoration(w, r) PROVE GuardInv'
    <2>1. \A v \in Workers : job[v] # None => TargetOf[job[v]] # TargetOf[r]
      BY <1>2 DEF ClaimRestoration, Claimable, OneActivePerTarget, Active
    <2>2. QED
      BY <1>2, <2>1 DEF ClaimRestoration, StampClaim, Claimable
  <1>3. ASSUME NEW w \in Workers, Work(w) PROVE GuardInv'
    <2>1. \A v \in Workers : v # w /\ job[v] # None => job[v] # job[w]
      OBVIOUS
    <2>2. CASE RecordSuccess(w)
      BY <2>1, <2>2 DEF RecordSuccess, Release, UpdateRestoration
    <2>3. CASE RecordFailure(w)
      BY <2>1, <2>3 DEF RecordFailure, Release, UpdateRestoration
    <2>4. CASE ReportLost(w)
      BY <2>4 DEF ReportLost, Release
    <2>5. CASE UNCHANGED <<status, beat, job, due>>
      BY <2>5
    <2>6. QED
      BY <1>3, <2>2, <2>3, <2>4, <2>5 DEF Work, CheckExecution, LocateDump, DropTarget,
         CreateTarget, TestTarget, StartReplay, EndReplay, ReassignDatabaseOwner, StepFails
  <1>4. ASSUME NEW w \in Workers, Beat(w) PROVE GuardInv'
    BY <1>4 DEF Beat, HeartbeatRestoration, HeartbeatLost
  <1>5. ASSUME NEW w \in Workers, ReapStaleRestorations(w) PROVE GuardInv'
    BY <1>5 DEF ReapStaleRestorations, Stale
  <1>6. ASSUME NEW w \in Workers, Crash(w) PROVE GuardInv'
    BY <1>6 DEF Crash
  <1>7. ASSUME NEW w \in Workers, Restart(w) PROVE GuardInv'
    BY <1>7, AllRoleAlone DEF Restart
  <1>8. ASSUME Tick PROVE GuardInv'
    <2>1. UNCHANGED <<status, job, pc>>
      BY <1>8 DEF Tick
    <2>2. ASSUME NEW w \in Workers, job[w] # None PROVE beat'[job[w]] = 1 /\ due'[w]
      <3>1. job[w] \in Restores /\ pc[w] \in Busy /\ beat[job[w]] = 0
        BY <1>8, <2>2 DEF Tick
      <3>2. 0 <= StaleAfter /\ 0 # None
        OBVIOUS
      <3>3. beat'[job[w]] = 1
        BY <1>8, <2>2, <3>1, <3>2 DEF Tick
      <3>4. due'[w] = (pc[w] \in Busy)
        BY <1>8, Zenon DEF Tick
      <3>5. QED
        BY <3>1, <3>3, <3>4
    <2>3. QED
      BY <2>1, <2>2
  <1>9. ASSUME NEW r \in Restores, PurgeOldRestorations(r) PROVE GuardInv'
    BY <1>9 DEF PurgeOldRestorations, Purgeable
  <1>10. CASE UNCHANGED <<status, beat, job, due>>
    BY <1>10
  <1>11. QED
    BY <1>1, <1>2, <1>3, <1>4, <1>5, <1>6, <1>7, <1>8, <1>9, <1>10, LoopKeeps
    DEF Next, vars, Claim, StartRestore, EraseDump, MarkDumpDeleted, RemoveExecution

\* Where heartbeats arrive and no execution's row is removed, two workers never act
\* on one target, for any number of pods, crashes, requests, lost reports and
\* soft-deleted dumps.
THEOREM OneRestorer ==
    ASSUME "beat" \notin Faults, Cascading = {}
    PROVE  Spec => []OneRestorerPerTarget
  <1>1. QueueInv /\ GuardInv /\ [Next]_vars => GuardInv'
    BY GuardInvStep
  <1>2. GuardInv => OneRestorerPerTarget
    BY DEF GuardInv
  <1>3. QED
    BY QueueInvariant, GuardInvInit, <1>1, <1>2, PTL DEF Spec

-----------------------------------------------------------------------------
\* How far a job has come is how far its target has.

\* Only a restore goes through these steps.
Restoring == {"locate", "drop", "create", "test", "open", "replay"}

\* What a worker at pc[w] relies on of its target.
TargetFollows(w) ==
    LET t == Tgt(w) IN
    /\ pc[w] \in Restoring => job[w] \notin OwnerFixes
    /\ pc[w] \in {"create", "test", "open"} => by[t] = {}
    /\ pc[w] = "replay" => by[t] \subseteq {job[w]}
    /\ pc[w] \in {"owner", "succeed"} /\ job[w] \notin OwnerFixes =>
         data[t] = "full" /\ by[t] = {job[w]}
    /\ pc[w] = "succeed" /\ (job[w] \in OwnerFixes \/ t \in Owned) => owned[t]

TargetInv == \A w \in Workers : TargetFollows(w)

\* The initial state satisfies the invariant.
LEMMA TargetInvInit == Init => TargetInv
  BY DEF Init, TargetInv, TargetFollows, Restoring

\* A step of one worker leaves the targets of the others alone.
LEMMA OthersKeep ==
    ASSUME QueueInv, GuardInv, TargetInv, NEW w \in Workers, NEW v \in Workers, v # w,
           pc'[v] = pc[v], job'[v] = job[v], pc[w] \in Busy,
           \A t \in Targets : t # Tgt(w) =>
              data'[t] = data[t] /\ by'[t] = by[t] /\ owned'[t] = owned[t]
    PROVE  TargetFollows(v)'
  <1>1. CASE job[v] = None
    BY <1>1 DEF QueueInv, SlotShape, TargetFollows, Restoring, Busy
  <1>2. CASE job[v] # None
    <2>1. job[w] # None
      BY DEF QueueInv, SlotShape, Busy
    <2>2. Tgt(v) # Tgt(w) /\ Tgt(v) \in Targets
      BY <1>2, <2>1, ConstantsOK DEF GuardInv, OneRestorerPerTarget, Tgt, QueueInv, TypeOK
    <2>3. Tgt(v)' = Tgt(v)
      BY DEF Tgt
    <2>4. QED
      BY <2>2, <2>3 DEF TargetInv, TargetFollows
  <1>3. QED
    BY <1>1, <1>2

\* Every step keeps it.
LEMMA TargetInvStep == QueueInv /\ GuardInv /\ TargetInv /\ [Next]_vars => TargetInv'
  <1> SUFFICES ASSUME QueueInv, GuardInv, TargetInv, [Next]_vars PROVE TargetInv'
    OBVIOUS
  <1>1. ASSUME NEW w \in Workers, Work(w) PROVE TargetInv'
    <2> USE ConstantsOK
    <2>1. pc[w] \in Busy /\ job[w] \in Restores /\ Tgt(w) \in Targets /\ job[w] # None
      BY <1>1 DEF Work, CheckExecution, LocateDump, DropTarget, CreateTarget, TestTarget,
         StartReplay, EndReplay, ReassignDatabaseOwner, StepFails, RecordSuccess,
         RecordFailure, ReportLost, QueueInv, TypeOK, SlotShape, Busy, Tgt
    <2>2. \A v \in Workers : v # w => pc'[v] = pc[v] /\ job'[v] = job[v]
      BY <1>1 DEF Work, CheckExecution, LocateDump, DropTarget, CreateTarget, TestTarget,
         StartReplay, EndReplay, ReassignDatabaseOwner, StepFails, RecordSuccess,
         RecordFailure, ReportLost, Release, Goto, slots, QueueInv, TypeOK
    <2>3. \A t \in Targets : t # Tgt(w) =>
             data'[t] = data[t] /\ by'[t] = by[t] /\ owned'[t] = owned[t]
      BY <1>1 DEF Work, CheckExecution, LocateDump, DropTarget, CreateTarget, TestTarget,
         StartReplay, EndReplay, ReassignDatabaseOwner, StepFails, RecordSuccess,
         RecordFailure, ReportLost, databases, QueueInv, TypeOK
    <2>4. TargetFollows(w)'
      <3> USE <2>1 DEF TargetInv, TargetFollows, Tgt, Restoring, QueueInv, TypeOK, Busy, Goto
      <3>1. CASE CheckExecution(w)
        BY <3>1 DEF CheckExecution, databases
      <3>2. CASE LocateDump(w)
        BY <3>2 DEF LocateDump, databases
      <3>3. CASE DropTarget(w)
        BY <3>3 DEF DropTarget
      <3>4. CASE CreateTarget(w)
        BY <3>4 DEF CreateTarget
      <3>5. CASE TestTarget(w)
        BY <3>5 DEF TestTarget, databases
      <3>6. CASE StartReplay(w)
        BY <3>6 DEF StartReplay
      <3>7. CASE EndReplay(w)
        BY <3>7 DEF EndReplay, AfterReplay
      <3>8. CASE ReassignDatabaseOwner(w)
        BY <3>8 DEF ReassignDatabaseOwner
      <3>9. CASE StepFails(w)
        BY <3>9 DEF StepFails, AfterError
      <3>10. CASE RecordSuccess(w) \/ RecordFailure(w) \/ ReportLost(w)
        BY <3>10 DEF RecordSuccess, RecordFailure, ReportLost, Release
      <3>11. QED
        BY <1>1, <3>1, <3>2, <3>3, <3>4, <3>5, <3>6, <3>7, <3>8, <3>9, <3>10 DEF Work
    <2>5. QED
      BY <2>1, <2>2, <2>3, <2>4, OthersKeep DEF TargetInv
  <1>2. ASSUME NEW w \in Workers, NEW r \in Restores, ClaimRestoration(w, r) PROVE TargetInv'
    BY <1>2 DEF ClaimRestoration, TargetInv, TargetFollows, Tgt, Restoring, databases,
       QueueInv, TypeOK
  <1>3. ASSUME NEW w \in Workers, Crash(w) \/ Restart(w) PROVE TargetInv'
    <2>1. UNCHANGED databases /\ \A v \in Workers : v # w => pc'[v] = pc[v]
      BY <1>3 DEF Crash, Restart, Goto, QueueInv, TypeOK
    <2>2. pc'[w] \in {"down", "idle"} /\ \A v \in Workers : v # w => job'[v] = job[v]
      BY <1>3 DEF Crash, Restart, Goto, QueueInv, TypeOK
    <2>3. QED
      BY <2>1, <2>2 DEF TargetInv, TargetFollows, Tgt, Restoring, databases
  <1>4. CASE UNCHANGED <<pc, job, databases>>
    BY <1>4 DEF TargetInv, TargetFollows, Tgt, databases
  <1>5. CASE (\E w \in Workers : Loop(w)) \/ (\E S \in SUBSET Backlog : BacklogChanges(S))
    <2>1. UNCHANGED <<job, databases>>
      BY <1>5, LoopKeeps DEF QueueInv
    <2>2. \A w \in Workers : pc'[w] = pc[w] \/ pc'[w] \notin Busy
      BY <1>5, LoopKeeps DEF QueueInv
    <2>3. QED
      BY <2>1, <2>2 DEF TargetInv, TargetFollows, Tgt, Restoring, Busy, databases
  <1>6. QED
    BY <1>1, <1>2, <1>3, <1>4, <1>5
    DEF Next, vars, slots, databases, Claim, EnqueueRestoration, StartRestore, Beat,
        HeartbeatRestoration, HeartbeatLost, ReapStaleRestorations, Tick,
        PurgeOldRestorations, EraseDump, MarkDumpDeleted, RemoveExecution

\* A row that becomes successful in a step tells the truth.
Honest ==
    \A r \in Restores :
        status[r] # "success" /\ status'[r] = "success" =>
            LET t == TargetOf[r] IN
            /\ r \notin OwnerFixes => data[t] = "full" /\ by[t] = {r}
            /\ r \in OwnerFixes \/ t \in Owned => owned[t]

\* Only the worker that has come to the end of a job records its success.
LEMMA HonestStep == ASSUME QueueInv, TargetInv, Next PROVE Honest
  <1> USE ConstantsOK DEF Honest
  <1>1. ASSUME NEW w \in Workers, RecordSuccess(w) PROVE Honest
    <2>1. \A r \in Restores : status[r] # "success" /\ status'[r] = "success" => r = job[w]
      BY <1>1 DEF RecordSuccess, UpdateRestoration, QueueInv, TypeOK
    <2>2. pc[w] = "succeed" /\ TargetFollows(w)
      BY <1>1 DEF RecordSuccess, TargetInv
    <2>3. QED
      BY <2>1, <2>2 DEF TargetFollows, Tgt
  <1>2. CASE \A r \in Restores : status[r] # "success" => status'[r] # "success"
    BY <1>2
  <1>3. ASSUME NEW w \in Workers, Work(w) PROVE Honest
    <2>1. CASE RecordFailure(w)
      BY <1>2, <2>1 DEF RecordFailure, UpdateRestoration, QueueInv, TypeOK
    <2>2. CASE UNCHANGED status
      BY <1>2, <2>2
    <2>3. QED
      BY <1>1, <1>3, <2>1, <2>2 DEF Work, CheckExecution, LocateDump, DropTarget, rows,
         CreateTarget, TestTarget, StartReplay, EndReplay, ReassignDatabaseOwner,
         StepFails, ReportLost
  <1>4. ASSUME NEW c \in Callers, EnqueueRestoration(c) PROVE Honest
    BY <1>2, <1>4 DEF EnqueueRestoration, rows, QueueInv, TypeOK
  <1>5. ASSUME NEW w \in Workers, NEW r \in Restores, ClaimRestoration(w, r) PROVE Honest
    BY <1>2, <1>5 DEF ClaimRestoration, StampClaim, QueueInv, TypeOK
  <1>6. ASSUME NEW w \in Workers, ReapStaleRestorations(w) \/ Restart(w) PROVE Honest
    BY <1>2, <1>6 DEF ReapStaleRestorations, Restart, QueueInv, TypeOK
  <1>7. ASSUME NEW r \in Restores, PurgeOldRestorations(r) PROVE Honest
    BY <1>2, <1>7 DEF PurgeOldRestorations, QueueInv, TypeOK
  <1>8. ASSUME NEW e \in Dumps, RemoveExecution(e) PROVE Honest
    BY <1>2, <1>8 DEF RemoveExecution, QueueInv, TypeOK
  <1>9. CASE UNCHANGED status
    BY <1>2, <1>9
  <1>10. QED
    BY <1>3, <1>4, <1>5, <1>6, <1>7, <1>8, <1>9, LoopKeeps
    DEF QueueInv, Next, rows, Claim, StartRestore, Beat, HeartbeatRestoration, HeartbeatLost, Tick,
        Crash, EraseDump, MarkDumpDeleted

\* Where heartbeats arrive and no execution's row is removed, a restoration recorded
\* as successful has left its target as it should be: no crash, failing call,
\* dump deleted after the checks or other restoration in between spoils it unseen.
THEOREM SuccessIsRestored ==
    ASSUME "beat" \notin Faults, Cascading = {}
    PROVE  Spec => SuccessMeansRestored
  <1>1. QueueInv /\ TargetInv /\ [Next]_vars => [Honest]_vars
    BY HonestStep
  <1>2. QueueInv /\ GuardInv /\ [Next]_vars => GuardInv'
    BY GuardInvStep
  <1>3. QED
    BY QueueInvariant, GuardInvInit, TargetInvInit, TargetInvStep, <1>1, <1>2, PTL
    DEF Spec, SuccessMeansRestored, Honest

-----------------------------------------------------------------------------
\* A target keeps what a success left in it until the next restore is claimed.

\* The active restoration of a target came after every other one of the target.
ActiveIsLast ==
    \A x, r \in Restores :
        Active(x) /\ TargetOf[r] = TargetOf[x] /\ r # x /\ status[r] # "none" => r \in before[x]

KeepInv == ActiveIsLast /\ RestoredStays

\* The initial state satisfies the invariant.
LEMMA KeepInvInit == Init => KeepInv
  BY DEF Init, KeepInv, ActiveIsLast, RestoredStays, Active

\* A row comes after all that are there, and the set of those before it stays.
LEMMA LastStep ==
    ASSUME QueueInv, ActiveIsLast, Next
    PROVE  /\ ActiveIsLast'
           /\ \A x \in Restores : status[x] # "none" => before'[x] = before[x]
           /\ \A x \in Restores : before'[x] = before[x]
                                   \/ before'[x] = {r \in Restores : status[r] # "none"}
  <1> USE ConstantsOK DEF QueueInv, TypeOK, AskShape
  <1>1. StatusMoves
    BY StatusStep
  <1>2. CASE UNCHANGED before /\ \A r \in Restores : status[r] = "none" => status'[r] = "none"
    BY <1>1, <1>2 DEF ActiveIsLast, Active, StatusMoves
  <1>3. ASSUME NEW c \in Callers, EnqueueRestoration(c), IndexAllows(TargetOf[asked[c]]),
               status' = [status EXCEPT ![asked[c]] = "queued"]
        PROVE  /\ ActiveIsLast'
               /\ \A x \in Restores : status[x] # "none" => before'[x] = before[x]
               /\ \A x \in Restores : before'[x] = before[x]
                                       \/ before'[x] = {r \in Restores : status[r] # "none"}
    <2>1. PICK a \in Restores : a = asked[c] /\ status[a] = "none"
      BY <1>3 DEF EnqueueRestoration
    <2>2. before' = [before EXCEPT ![a] = {x \in Restores : status[x] # "none"}]
      BY <1>3, <2>1 DEF EnqueueRestoration, rows
    <2>3. ASSUME NEW x \in Restores, NEW r \in Restores, Active(x)', TargetOf[r] = TargetOf[x],
                 r # x, status'[r] # "none"
          PROVE  r \in before'[x]
      <3>1. CASE x = a
        BY <1>3, <2>1, <2>2, <2>3, <3>1
      <3>2. CASE x # a
        <4>1. Active(x)
          BY <1>3, <2>1, <2>3, <3>2 DEF Active
        <4>2. r # a
          BY <1>3, <2>1, <2>3, <4>1 DEF IndexAllows
        <4>3. QED
          BY <1>3, <2>1, <2>2, <2>3, <3>2, <4>1, <4>2 DEF ActiveIsLast
      <3>3. QED
        BY <3>1, <3>2
    <2>4. QED
      BY <2>1, <2>2, <2>3 DEF ActiveIsLast
  <1>4. \/ UNCHANGED before
        \/ \E c \in Callers : EnqueueRestoration(c) /\ IndexAllows(TargetOf[asked[c]])
                               /\ status' = [status EXCEPT ![asked[c]] = "queued"]
    BY LoopKeeps DEF Next, rows, Claim, ClaimRestoration, EnqueueRestoration, StartRestore,
       Beat, HeartbeatRestoration, HeartbeatLost, ReapStaleRestorations, Tick, Crash, Restart,
       PurgeOldRestorations, EraseDump, MarkDumpDeleted, RemoveExecution, Work,
       CheckExecution, LocateDump, DropTarget, CreateTarget, TestTarget, StartReplay,
       EndReplay, ReassignDatabaseOwner, StepFails, RecordSuccess, RecordFailure, ReportLost
  <1>5. QED
    BY <1>2, <1>3, <1>4, UnusedStays

\* Only a running restore changes what a target holds, and no row moves then.
LEMMA DataStep ==
    ASSUME QueueInv, GuardInv, TargetInv, Next, NEW t \in Targets,
           data'[t] # data[t] \/ by'[t] # by[t]
    PROVE  /\ UNCHANGED status
           /\ \E x \in Restores \ OwnerFixes :
                 TargetOf[x] = t /\ status[x] = "running" /\ beat[x] # None
  <1> USE ConstantsOK DEF QueueInv, TypeOK
  <1>1. PICK w \in Workers : \/ DropTarget(w) \/ CreateTarget(w)
                              \/ StartReplay(w) \/ EndReplay(w)
    BY LoopKeeps DEF Next, databases, Claim, ClaimRestoration, EnqueueRestoration, StartRestore,
       Beat, HeartbeatRestoration, HeartbeatLost, ReapStaleRestorations, Tick, Crash, Restart,
       PurgeOldRestorations, EraseDump, MarkDumpDeleted, RemoveExecution, Work,
       CheckExecution, LocateDump, TestTarget, ReassignDatabaseOwner, StepFails, RecordSuccess,
       RecordFailure, ReportLost
  <1>2. UNCHANGED status /\ pc[w] \in {"drop", "create", "open", "replay"} /\ Tgt(w) = t
    BY <1>1 DEF DropTarget, CreateTarget, StartReplay, EndReplay, rows
  <1>3. job[w] \in Restores \ OwnerFixes
    BY <1>2 DEF SlotShape, Busy, TargetInv, TargetFollows, Restoring
  <1>4. status[job[w]] = "running" /\ beat[job[w]] # None
    BY <1>3 DEF GuardInv, JobRuns, FreshBeat
  <1>5. QED
    BY <1>2, <1>3, <1>4 DEF Tgt

\* A restoration that is superseded remains so.
LEMMA SupersededStays ==
    ASSUME QueueInv, ActiveIsLast, Next, NEW r \in Restores, status[r] # "none", Superseded(r)
    PROVE  Superseded(r)'
  <1>1. PICK x \in Restores \ OwnerFixes :
            r \in before[x] /\ TargetOf[x] = TargetOf[r] /\ beat[x] # None
    BY DEF Superseded
  <1>2. r \in before'[x]
    BY <1>1, LastStep
  <1>3. beat[x] \in Nat /\ None \notin Nat
    BY <1>1, ConstantsOK DEF QueueInv, TypeOK
  <1>4. beat'[x] \in Nat
    BY <1>3, BeatStep DEF BeatMoves
  <1>5. QED
    BY <1>1, <1>2, <1>3, <1>4 DEF Superseded

\* Every step keeps it.
LEMMA KeepInvStep ==
    QueueInv /\ GuardInv /\ TargetInv /\ KeepInv /\ [Next]_vars => KeepInv'
  <1>1. ASSUME QueueInv, GuardInv, TargetInv, KeepInv, Next PROVE RestoredStays'
    <2> SUFFICES ASSUME NEW r \in Restores \ OwnerFixes, status'[r] = "success"
                 PROVE  \/ Superseded(r)'
                        \/ data'[TargetOf[r]] = "full" /\ by'[TargetOf[r]] = {r}
      BY DEF RestoredStays
    <2>1. TargetOf[r] \in Targets
      BY ConstantsOK
    <2>2. CASE status[r] # "success"
      <3>1. data[TargetOf[r]] = "full" /\ by[TargetOf[r]] = {r}
        BY <1>1, <2>2, HonestStep DEF Honest
      <3>2. UNCHANGED <<data[TargetOf[r]], by[TargetOf[r]]>>
        BY <1>1, <2>1, <2>2, DataStep
      <3>3. QED
        BY <3>1, <3>2
    <2>3. CASE status[r] = "success" /\ Superseded(r)
      BY <1>1, <2>3, SupersededStays DEF KeepInv
    <2>4. CASE status[r] = "success" /\ ~Superseded(r)
      <3>1. data[TargetOf[r]] = "full" /\ by[TargetOf[r]] = {r}
        BY <1>1, <2>4 DEF KeepInv, RestoredStays
      <3>2. ASSUME NEW x \in Restores \ OwnerFixes, TargetOf[x] = TargetOf[r],
                   status[x] = "running", beat[x] # None
            PROVE  FALSE
        <4>1. r \in before[x]
          BY <1>1, <2>4, <3>2 DEF KeepInv, ActiveIsLast, Active
        <4>2. QED
          BY <2>4, <3>2, <4>1 DEF Superseded
      <3>3. UNCHANGED <<data[TargetOf[r]], by[TargetOf[r]]>>
        BY <1>1, <2>1, <3>2, DataStep
      <3>4. QED
        BY <3>1, <3>3
    <2>5. QED
      BY <2>2, <2>3, <2>4
  <1>2. ASSUME QueueInv, KeepInv, Next PROVE ActiveIsLast'
    BY <1>2, LastStep DEF KeepInv
  <1>3. ASSUME KeepInv, UNCHANGED vars PROVE KeepInv'
    BY <1>3 DEF KeepInv, ActiveIsLast, Active, RestoredStays, Superseded, vars, rows, databases
  <1>4. QED
    BY <1>1, <1>2, <1>3 DEF KeepInv

\* Where heartbeats arrive and no execution's row is removed, a success stays true
\* until the next restore of the target is claimed, for any number of requests,
\* pods, crashes and lost reports: no worker is given up while it can still act.
THEOREM RestoredIsKept ==
    ASSUME "beat" \notin Faults, Cascading = {}
    PROVE  Spec => []RestoredStays
  <1>1. QueueInv /\ GuardInv /\ [Next]_vars => GuardInv'
    BY GuardInvStep
  <1>2. KeepInv => RestoredStays
    BY DEF KeepInv
  <1>3. QED
    BY QueueInvariant, GuardInvInit, TargetInvInit, TargetInvStep, KeepInvInit, KeepInvStep,
       <1>1, <1>2, PTL
    DEF Spec

-----------------------------------------------------------------------------
\* The queue implements one slot per target.

\* Choosing from a set with one element gives that element.
LEMMA ChooseOnly ==
    ASSUME NEW S, NEW x \in S, \A y \in S : y = x
    PROVE  (CHOOSE y \in S : TRUE) = x
  OBVIOUS

\* A slot holds the active restoration of its target.
LEMMA SlotHolds ==
    ASSUME OneActivePerTarget, NEW t \in Targets, NEW r \in Restores, r \in ActiveOf(t)
    PROVE  SlotOf[t] = r
  <1>1. \A y \in ActiveOf(t) : y = r
    BY DEF ActiveOf, OneActivePerTarget
  <1>2. (CHOOSE y \in ActiveOf(t) : TRUE) = r
    BY <1>1, ChooseOnly
  <1>3. QED
    BY <1>2 DEF SlotOf

\* A step that brings no new row makes the targets of settled restorations leave
\* their slots, and changes nothing else.
LEMMA LeaveStep ==
    ASSUME QueueInv, QueueInv', StatusMoves,
           \A r \in Restores : status[r] = "none" => status'[r] = "none"
    PROVE  Slots!Next
  <1> DEFINE R == {t \in Targets : ActiveOf(t)' = {}}
  <1>1. Born' = Born
    BY DEF Born, StatusMoves
  <1>2. \A t \in Targets : ActiveOf(t)' \subseteq ActiveOf(t)
    BY DEF ActiveOf, Active, StatusMoves
  <1>3. ASSUME NEW t \in Targets
        PROVE  SlotOf'[t] = IF t \in R THEN None ELSE SlotOf[t]
    <2>1. CASE t \in R
      BY <2>1 DEF SlotOf
    <2>2. CASE t \notin R
      <3>1. PICK r \in Restores : r \in ActiveOf(t)'
        BY <2>2 DEF ActiveOf
      <3>2. r \in ActiveOf(t)
        BY <3>1, <1>2
      <3>3. SlotOf[t] = r
        BY <3>2, SlotHolds DEF QueueInv
      <3>4. \A y \in ActiveOf(t)' : y = r
        BY <3>1 DEF ActiveOf, QueueInv, OneActivePerTarget
      <3>5. (CHOOSE y \in ActiveOf(t)' : TRUE) = r
        BY <3>1, <3>4, ChooseOnly
      <3>6. SlotOf'[t] = r
        BY <3>1, <3>5 DEF SlotOf
      <3>7. QED
        BY <2>2, <3>3, <3>6
    <2>3. QED
      BY <2>1, <2>2
  <1>4. SlotOf' = [t \in Targets |-> IF t \in R THEN None ELSE SlotOf[t]]
    BY <1>3 DEF SlotOf
  <1>5. Slots!Leave(R)
    BY <1>1, <1>4 DEF Slots!Leave
  <1>6. QED
    BY <1>5 DEF Slots!Next

\* The INSERT of a row takes the free slot of its target.
LEMMA TakeStep ==
    ASSUME QueueInv, NEW c \in Callers, asked[c] # None, IndexAllows(TargetOf[asked[c]]),
           status' = [status EXCEPT ![asked[c]] = "queued"]
    PROVE  Slots!Next
  <1> USE ConstantsOK
  <1>1. PICK r \in Restores : r = asked[c] /\ status[r] = "none"
    BY DEF QueueInv, TypeOK, AskShape
  <1>2. r \notin Born /\ Born' = Born \cup {r}
    BY <1>1 DEF Born, QueueInv, TypeOK
  <1>3. TargetOf[r] \in Targets /\ ActiveOf(TargetOf[r]) = {}
    BY <1>1 DEF ActiveOf, IndexAllows
  <1>4. ActiveOf(TargetOf[r])' = {r}
    BY <1>1, <1>3 DEF ActiveOf, Active, QueueInv, TypeOK
  <1>5. \A t \in Targets : t # TargetOf[r] => ActiveOf(t)' = ActiveOf(t)
    BY <1>1 DEF ActiveOf, Active, QueueInv, TypeOK
  <1>6. SlotOf[TargetOf[r]] = None
    BY <1>3 DEF SlotOf
  <1>7. (CHOOSE y \in ActiveOf(TargetOf[r])' : TRUE) = r
    BY <1>4, ChooseOnly
  <1>8. SlotOf'[TargetOf[r]] = r
    BY <1>3, <1>4, <1>7 DEF SlotOf
  <1>9. ASSUME NEW t \in Targets, t # TargetOf[r] PROVE SlotOf'[t] = SlotOf[t]
    <2>1. ActiveOf(t)' = ActiveOf(t)
      BY <1>5, <1>9
    <2>2. (CHOOSE y \in ActiveOf(t)' : TRUE) = (CHOOSE y \in ActiveOf(t) : TRUE)
      BY <2>1
    <2>3. QED
      BY <2>1, <2>2 DEF SlotOf
  <1>10. SlotOf' = [SlotOf EXCEPT ![TargetOf[r]] = r]
    <2>1. /\ SlotOf = [t \in Targets |-> SlotOf[t]]
          /\ SlotOf' = [t \in Targets |-> SlotOf'[t]]
      BY DEF SlotOf
    <2>2. QED
      BY <1>3, <1>8, <1>9, <2>1
  <1>11. Slots!Take(r)
    BY <1>2, <1>6, <1>10 DEF Slots!Take
  <1>12. QED
    BY <1>11 DEF Slots!Next

\* The queue implements JobSlots: every behaviour of requests, pods, reapers and
\* deletions shows as restorations that take and leave one slot per target.
THEOREM ImplementsJobSlots == Spec => SlotsSpec
  <1>1. Init => Slots!Init
    BY DEF Init, Slots!Init, SlotOf, Born, ActiveOf, Active
  <1>2. QueueInv /\ QueueInv' /\ [Next]_vars => [Slots!Next]_<<SlotOf, Born>>
    <2> SUFFICES ASSUME QueueInv, QueueInv', [Next]_vars PROVE Slots!Next
      OBVIOUS
    <2>1. StatusMoves
      BY StatusStep
    <2>2. CASE \A r \in Restores : status[r] = "none" => status'[r] = "none"
      BY <2>1, <2>2, LeaveStep
    <2>3. CASE \E c \in Callers : EnqueueRestoration(c) /\ IndexAllows(TargetOf[asked[c]])
                                    /\ status' = [status EXCEPT ![asked[c]] = "queued"]
      BY <2>3, TakeStep DEF EnqueueRestoration
    <2>4. QED
      BY <2>2, <2>3, UnusedStays
  <1>3. QED
    BY QueueInvariant, <1>1, <1>2, PTL DEF Spec, SlotsSpec, Slots!Spec

-----------------------------------------------------------------------------
\* What becomes of a job whose worker is gone, without any fairness: QueuedIsServed
\* rests on it, for a running row keeps others from its target.

\* The reaper sees every running row: it carries a heartbeat,
\* and no heartbeat ages past the moment it is stale.
RunningIsSeen ==
    \A e \in Restores : status[e] = "running" => beat[e] \in 0..(StaleAfter + 1)

\* No running row is ever out of the reaper's sight.
THEOREM ReaperSeesAll == Spec => []RunningIsSeen
  <1>1. QueueInv /\ Init => RunningIsSeen
    BY DEF Init, RunningIsSeen
  <1>2. ASSUME QueueInv, QueueInv', RunningIsSeen, BeatMoves PROVE RunningIsSeen'
    <2> SUFFICES ASSUME NEW e \in Restores, status'[e] = "running"
                 PROVE  beat'[e] \in 0..(StaleAfter + 1)
      BY <1>2 DEF RunningIsSeen
    <2>1. StaleAfter \in Nat
      BY ConstantsOK
    <2>2. beat[e] \in Nat \cup {None} /\ (status[e] = "running" => beat[e] \in 0..(StaleAfter + 1))
      BY <1>2 DEF RunningIsSeen, QueueInv, TypeOK
    <2>3. CASE beat'[e] = beat[e] /\ status[e] = "running"
      BY <2>2, <2>3
    <2>4. CASE beat'[e] = 0
      BY <2>1, <2>4
    <2>5. CASE beat[e] # None /\ beat[e] <= StaleAfter /\ beat'[e] = beat[e] + 1
      BY <2>1, <2>2, <2>5
    <2> QED BY <1>2, <2>3, <2>4, <2>5 DEF BeatMoves
  <1>3. ASSUME QueueInv, RunningIsSeen, UNCHANGED vars PROVE RunningIsSeen'
    BY <1>3 DEF RunningIsSeen, vars, rows
  <1>4. QueueInv /\ QueueInv' /\ RunningIsSeen /\ [Next]_vars => RunningIsSeen'
    BY <1>2, <1>3, BeatStep
  <1> QED BY <1>1, <1>4, QueueInvInit, QueueInvariant, PTL DEF Spec

\* A running row that no worker has is taken up by none, and nothing makes its
\* heartbeat younger: every interval that passes makes it older, until it is stale.
AbandonedAges ==
    \A e \in Restores :
        status[e] = "running" /\ (\A w \in Workers : job[w] # e) =>
            \/ status'[e] \in Settled
            \/ /\ status'[e] = "running" /\ \A w \in Workers : job'[w] # e
               /\ beat[e] <= beat'[e]
               /\ Tick => Stale(e) \/ beat'[e] = beat[e] + 1

\* The job of a worker that is gone comes ever nearer to the reaper, whatever the other
\* workers do.
THEOREM AbandonedIsReaped == Spec => [][AbandonedAges]_vars
  <1>1. ASSUME QueueInv, RunningIsSeen, Next PROVE AbandonedAges
    <2> SUFFICES ASSUME NEW e \in Restores, status[e] = "running",
                        \A w \in Workers : job[w] # e, status'[e] \notin Settled
                 PROVE  /\ status'[e] = "running" /\ \A w \in Workers : job'[w] # e
                        /\ beat[e] <= beat'[e]
                        /\ Tick => Stale(e) \/ beat'[e] = beat[e] + 1
      BY DEF AbandonedAges
    <2>1. status'[e] = "running"
      BY <1>1, StatusStep DEF StatusMoves, Settled
    <2>2. \A w \in Workers : job'[w] # e
      <3>1. JobMoves
        BY <1>1, BeatStep
      <3>2. e # None
        BY ConstantsOK
      <3> QED BY <3>1, <3>2 DEF JobMoves
    <2>3. beat[e] \in 0..(StaleAfter + 1) /\ StaleAfter \in Nat
      BY <1>1, ConstantsOK DEF RunningIsSeen
    <2>4. beat'[e] = beat[e] \/ beat'[e] = beat[e] + 1
      BY <1>1, BeatStep DEF BeatMoves
    <2>5. beat[e] <= beat'[e]
      BY <2>3, <2>4
    <2>6. ASSUME Tick PROVE Stale(e) \/ beat'[e] = beat[e] + 1
      <3>1. beat'[e] = IF beat[e] # None /\ beat[e] <= StaleAfter THEN beat[e] + 1 ELSE beat[e]
        BY <2>6 DEF Tick
      <3>2. beat[e] # None
        BY <2>3, ConstantsOK
      <3>3. CASE beat[e] <= StaleAfter
        BY <3>1, <3>2, <3>3
      <3>4. CASE beat[e] > StaleAfter
        BY <2>3, <3>2, <3>4 DEF Stale
      <3> QED BY <2>3, <3>3, <3>4
    <2> QED BY <2>1, <2>2, <2>5, <2>6
  <1> QED BY <1>1, QueueInvariant, ReaperSeesAll, PTL DEF Spec
=============================================================================
