-------------------------- MODULE DiscoveryProofs ---------------------------
(***************************************************************************)
(* A set flag has a living run, a run past its first event keeps others    *)
(* out unless it loses an event, and runs that have not met create each    *)
(* backup once.                                                            *)
(***************************************************************************)
EXTENDS Discovery, TLAPS

\* A run that has begun has a process, and one that registers has a database.
Placed ==
    /\ \A r \in Runs : pc[r] # "new" => pod[r] \in Pods
    /\ \A r \in Runs : pc[r] \in Registering => cur[r] \in Dbs

\* The events of a run that has lost none are fresh: it logs between ticks.
Fresh ==
    \A q \in Runs : pc[q] \in Scanning /\ q \notin lost =>
        log[q] = "open" /\ age[q] <= IF due[q] THEN 1 ELSE 0

\* Runs that have not met are under way one at a time; a run that is about to
\* insert a backup has seen that there is none.
Alone ==
    ~met => /\ \A q, r \in Runs : pc[q] \in Live /\ pc[r] \in Live => q = r
            /\ \A d \in Dbs : copies[d] <= 1
            /\ \A r \in Runs : pc[r] \in {"database", "create", "insert"} =>
                   copies[cur[r]] = 0

USE DiscoveryConstants
    DEF Asking, Beginning, Registering, Scanning, Logging, Live, Over

LEMMA InitTyped == Init => TypeOK /\ Placed
<1> SUFFICES ASSUME Init PROVE TypeOK /\ Placed
  OBVIOUS
<1>1. age \in [Runs -> 0..Window] /\ copies \in [Dbs -> Nat] /\ mishaps \in Nat
  BY DEF Init
<1>2. lock \in [Pods -> Runs \cup {None}] /\ pod \in [Runs -> Pods \cup {None}]
  BY DEF Init
<1>3. /\ pc = [r \in Runs |-> "new"]
      /\ pc \in [Runs -> {"new"} \cup Asking \cup Beginning \cup Live \cup Over]
  BY DEF Init
<1>4. Placed
  BY <1>3 DEF Placed
<1> QED BY <1>1, <1>2, <1>3, <1>4 DEF Init, TypeOK

\* What one event of a run keeps.
LEMMA LogTyped ==
  ASSUME TypeOK, NEW r \in Runs, NEW to \in {"open", "closed"}, LogEvent(r, to)
  PROVE  /\ due' \in [Runs -> BOOLEAN] /\ log' \in [Runs -> {"none", "open", "closed"}]
         /\ age' \in [Runs -> 0..Window] /\ lost' \in SUBSET Runs
  BY DEF TypeOK, LogEvent

LEMMA StepTyped ==
  ASSUME TypeOK, NEW r \in Runs, NEW to \in Scanning, Step(r, to)
  PROVE  /\ due' \in [Runs -> BOOLEAN] /\ log' \in [Runs -> {"none", "open", "closed"}]
         /\ age' \in [Runs -> 0..Window] /\ lost' \in SUBSET Runs
         /\ pc' = [pc EXCEPT ![r] = to]
         /\ pc' \in [Runs -> {"new"} \cup Asking \cup Beginning \cup Live \cup Over]
         /\ UNCHANGED <<mutex, pod, met, mishaps>>
  BY LogTyped DEF TypeOK, Step, Goto

LEMMA NextTyped == TypeOK /\ Placed /\ [Next]_vars => TypeOK' /\ Placed'
<1> SUFFICES ASSUME TypeOK, Placed, [Next]_vars PROVE TypeOK' /\ Placed'
  OBVIOUS
<1> USE DEF Placed, mutex, events, progress, registry
<1>1. ASSUME NEW r \in Runs, AskDatabase(r) \/ ClearFlag(r) \/ LockRun(r) PROVE TypeOK' /\ Placed'
  <2>1. CASE AskDatabase(r)
    BY <2>1 DEF AskDatabase, Goto, TypeOK
  <2>2. CASE ClearFlag(r)
    BY <2>2 DEF ClearFlag, Goto, TypeOK
  <2>3. CASE LockRun(r)
    BY <2>3 DEF LockRun, Goto, TypeOK
  <2> QED BY <1>1, <2>1, <2>2, <2>3
<1>2. ASSUME NEW r \in Runs, CheckFlag(r) \/ AdmitRun(r) PROVE TypeOK' /\ Placed'
  <2>0. ASSUME RefuseRun(r) PROVE TypeOK' /\ Placed'
    BY <2>0, <1>2 DEF CheckFlag, AdmitRun, RefuseRun, Goto, TypeOK
  <2>1. CASE CheckFlag(r)
    <3>1. CASE RefuseRun(r)
      BY <2>0, <3>1
    <3>2. CASE ~RefuseRun(r)
      <4>1. /\ runActive' = [runActive EXCEPT ![pod[r]] = FALSE]
            /\ pc' = [pc EXCEPT ![r] = "check2"]
            /\ pc[r] = "check1"
            /\ UNCHANGED <<lock, pod, events, progress, registry, met, mishaps>>
        BY <2>1, <3>2 DEF CheckFlag, Goto
      <4> QED BY <4>1 DEF TypeOK
    <3> QED BY <3>1, <3>2
  <2>2. CASE AdmitRun(r)
    <3>1. CASE RefuseRun(r)
      BY <2>0, <3>1
    <3>2. CASE ~RefuseRun(r)
      <4>1. /\ runActive' = [runActive EXCEPT ![pod[r]] = TRUE]
            /\ lock' = [lock EXCEPT ![pod[r]] = None]
            /\ pc' = [pc EXCEPT ![r] = "admitted"] /\ met' \in BOOLEAN
            /\ pc[r] = "check2"
            /\ UNCHANGED <<pod, events, progress, registry, mishaps>>
        BY <2>2, <3>2 DEF AdmitRun, Goto, TypeOK
      <4> QED BY <4>1 DEF TypeOK
    <3> QED BY <3>1, <3>2
  <2> QED BY <1>2, <2>1, <2>2
<1>3. ASSUME NEW r \in Runs, StartScan(r) PROVE TypeOK' /\ Placed'
  BY <1>3, StepTyped DEF StartScan, TypeOK
<1>4. ASSUME NEW r \in Runs, DiscoverClusters(r) PROVE TypeOK' /\ Placed'
  BY <1>4, StepTyped DEF DiscoverClusters, TypeOK
<1>5. ASSUME NEW r \in Runs, ScanOpenTCPPorts(r) PROVE TypeOK' /\ Placed'
  BY <1>5, StepTyped DEF ScanOpenTCPPorts, TypeOK
<1>6. ASSUME NEW r \in Runs, ProbePorts(r) PROVE TypeOK' /\ Placed'
  BY <1>6, StepTyped DEF ProbePorts, Answering, TypeOK
<1>7. ASSUME NEW r \in Runs, Progress(r) PROVE TypeOK' /\ Placed'
  BY <1>7, LogTyped DEF Progress, TypeOK
<1>8. ASSUME NEW r \in Runs, ListDatabases(r) PROVE TypeOK' /\ Placed'
  BY <1>8, StepTyped DEF ListDatabases, TypeOK
<1>9. ASSUME NEW r \in Runs, SkipDatabase(r) PROVE TypeOK' /\ Placed'
  BY <1>9, StepTyped DEF SkipDatabase, TypeOK
<1>10. ASSUME NEW r \in Runs, FoundDatabase(r) PROVE TypeOK' /\ Placed'
  BY <1>10, StepTyped DEF FoundDatabase, TypeOK
<1>11. ASSUME NEW r \in Runs, pc[r] \in Registering, NextDatabase(r),
              registered' \in SUBSET Dbs, copies' \in [Dbs -> Nat]
       PROVE TypeOK' /\ Placed'
  BY <1>11, StepTyped DEF NextDatabase, TypeOK
<1>12. ASSUME NEW r \in Runs, NEW to \in Registering, pc[r] \in Registering, Quietly(r, to),
              registered' \in SUBSET Dbs, copies' \in [Dbs -> Nat]
       PROVE TypeOK' /\ Placed'
  BY <1>12 DEF Quietly, Goto, TypeOK
<1>13. ASSUME NEW r \in Runs, LookupBackup(r) \/ LookupDatabase(r) \/ ScheduleBackup(r) \/ RegisterFails(r)
       PROVE TypeOK' /\ Placed'
  BY <1>11, <1>12, <1>13
     DEF LookupBackup, LookupDatabase, ScheduleBackup, RegisterFails, TypeOK
<1>14. ASSUME NEW r \in Runs, CreateDatabase(r) PROVE TypeOK' /\ Placed'
  BY <1>11, <1>12, <1>14 DEF CreateDatabase, TypeOK
<1>15. ASSUME NEW r \in Runs, InsertBackup(r) PROVE TypeOK' /\ Placed'
  <2>1. registered' \in SUBSET Dbs /\ copies' \in [Dbs -> Nat]
    BY <1>15 DEF InsertBackup, TypeOK
  <2> QED BY <2>1, <1>11, <1>12, <1>15 DEF InsertBackup
<1>16. ASSUME NEW r \in Runs, FinishScan(r) \/ EndRun(r) PROVE TypeOK' /\ Placed'
  <2>1. CASE FinishScan(r)
    BY <2>1, LogTyped DEF FinishScan, Goto, TypeOK
  <2>2. CASE EndRun(r)
    BY <2>2, LogTyped DEF EndRun, Goto, TypeOK
  <2> QED BY <1>16, <2>1, <2>2
<1>17. ASSUME NEW r \in Runs, PurgeOldEvents(r) PROVE TypeOK' /\ Placed'
  BY <1>17 DEF PurgeOldEvents, TypeOK
<1>18. ASSUME NEW r \in Runs, NEW p \in Pods, ClickRun(r, p) \/ CallRun(r, p)
       PROVE TypeOK' /\ Placed'
  BY <1>18 DEF ClickRun, CallRun, Goto, TypeOK
<1>19. ASSUME NEW p \in Pods, Crash(p) PROVE TypeOK' /\ Placed'
  <2>1. lock' \in [Pods -> Runs \cup {None}] /\ runActive' \in [Pods -> BOOLEAN]
    BY <1>19 DEF Crash, TypeOK
  <2>2. /\ pc' \in [Runs -> {"new"} \cup Asking \cup Beginning \cup Live \cup Over]
        /\ \A r \in Runs : pc'[r] \in {pc[r], "dead"}
    BY <1>19 DEF Crash, TypeOK
  <2>3. due' \in [Runs -> BOOLEAN]
    BY <1>19 DEF Crash, TypeOK
  <2>4. mishaps' \in Nat
    BY <1>19 DEF Crash, Mishap, TypeOK
  <2>5. UNCHANGED <<pod, log, age, lost, progress, registry, met>>
    BY <1>19 DEF Crash
  <2>6. \A r \in Runs : pc'[r] # "new" => pod[r] \in Pods
    BY <1>19 DEF Crash, TypeOK
  <2> QED BY <2>1, <2>2, <2>3, <2>4, <2>5, <2>6 DEF TypeOK
<1>20. ASSUME NEW d \in Dbs, DeleteDatabase(d) \/ DeleteBackup(d) PROVE TypeOK' /\ Placed'
  BY <1>20 DEF DeleteDatabase, DeleteBackup, Mishap, TypeOK
<1>21. CASE Tick
  BY <1>21 DEF Tick, TypeOK
<1>22. CASE UNCHANGED vars
  BY <1>22 DEF vars, TypeOK
<1> QED
  BY <1>1, <1>2, <1>3, <1>4, <1>5, <1>6, <1>7, <1>8, <1>9, <1>10, <1>13, <1>14, <1>15,
     <1>16, <1>17, <1>18, <1>19, <1>20, <1>21, <1>22 DEF Next, RunStep

\* The variables keep their types in every reachable state.
THEOREM TypeCorrect == Spec => [](TypeOK /\ Placed)
  BY InitTyped, NextTyped, PTL DEF Spec

-----------------------------------------------------------------------------
\* Steps that leave the flags alone, and no run that is under way leaves it.
KeepsRuns ==
    /\ UNCHANGED <<runActive, pod>>
    /\ \A r \in Runs : pc[r] \in Live => pc'[r] \in Live

LEMMA KeptFlag ==
  ASSUME TypeOK, Placed, FlagHasRun, KeepsRuns
  PROVE  FlagHasRun'
  BY DEF FlagHasRun, KeepsRuns

LEMMA NextFlag == TypeOK /\ Placed /\ FlagHasRun /\ [Next]_vars => FlagHasRun'
<1> SUFFICES ASSUME TypeOK, Placed, FlagHasRun, [Next]_vars PROVE FlagHasRun'
  OBVIOUS
<1> USE DEF Placed, mutex, events, progress, registry
<1>1. ASSUME NEW r \in Runs, AskDatabase(r) \/ LockRun(r) PROVE FlagHasRun'
  <2>1. CASE AskDatabase(r)
    BY <2>1, KeptFlag DEF AskDatabase, Goto, TypeOK, KeepsRuns
  <2>2. CASE LockRun(r)
    BY <2>2, KeptFlag DEF LockRun, Goto, TypeOK, KeepsRuns
  <2> QED BY <1>1, <2>1, <2>2
<1>2. ASSUME NEW r \in Runs, ClearFlag(r) \/ EndRun(r) PROVE FlagHasRun'
  BY <1>2 DEF ClearFlag, EndRun, Goto, TypeOK, FlagHasRun
<1>3. ASSUME NEW r \in Runs, CheckFlag(r) PROVE FlagHasRun'
  <2>1. CASE RefuseRun(r)
    BY <1>3, <2>1, KeptFlag DEF CheckFlag, RefuseRun, Goto, TypeOK, KeepsRuns
  <2>2. CASE ~RefuseRun(r)
    BY <1>3, <2>2 DEF CheckFlag, Goto, TypeOK, FlagHasRun
  <2> QED BY <2>1, <2>2
<1>4. ASSUME NEW r \in Runs, AdmitRun(r) PROVE FlagHasRun'
  <2>1. CASE RefuseRun(r)
    BY <1>4, <2>1, KeptFlag DEF AdmitRun, RefuseRun, Goto, TypeOK, KeepsRuns
  <2>2. CASE ~RefuseRun(r)
    BY <1>4, <2>2 DEF AdmitRun, Goto, TypeOK, FlagHasRun
  <2> QED BY <2>1, <2>2
<1>5. ASSUME NEW r \in Runs, NEW to \in Scanning, pc[r] \in Logging, Step(r, to)
      PROVE FlagHasRun'
  BY <1>5, KeptFlag DEF Step, Goto, TypeOK, KeepsRuns
<1>6. ASSUME NEW r \in Runs, NEW to \in Scanning, pc[r] \in Logging, Quietly(r, to)
      PROVE FlagHasRun'
  BY <1>6, KeptFlag DEF Quietly, Goto, TypeOK, KeepsRuns
<1>7. ASSUME NEW r \in Runs,
             \/ StartScan(r) \/ DiscoverClusters(r) \/ ScanOpenTCPPorts(r) \/ ProbePorts(r)
             \/ ListDatabases(r) \/ FoundDatabase(r)
      PROVE FlagHasRun'
  BY <1>5, <1>7 DEF StartScan, DiscoverClusters, ScanOpenTCPPorts, ProbePorts,
                    ListDatabases, FoundDatabase
<1>8. ASSUME NEW r \in Runs,
             \/ LookupBackup(r) \/ LookupDatabase(r) \/ CreateDatabase(r) \/ InsertBackup(r)
             \/ ScheduleBackup(r) \/ RegisterFails(r)
      PROVE FlagHasRun'
  BY <1>5, <1>6, <1>8 DEF LookupBackup, LookupDatabase, CreateDatabase, InsertBackup,
                          ScheduleBackup, RegisterFails, NextDatabase
<1>9. ASSUME NEW r \in Runs, SkipDatabase(r) PROVE FlagHasRun'
  <2>1. CASE Step(r, "scan")
    BY <1>5, <1>9, <2>1 DEF SkipDatabase
  <2>2. CASE ~Step(r, "scan")
    BY <1>9, <2>2, KeptFlag DEF SkipDatabase, KeepsRuns
  <2> QED BY <2>1, <2>2
<1>10. ASSUME NEW r \in Runs, FinishScan(r) \/ Progress(r) \/ PurgeOldEvents(r) PROVE FlagHasRun'
  <2>1. CASE FinishScan(r)
    BY <2>1, KeptFlag DEF FinishScan, Goto, TypeOK, KeepsRuns
  <2>2. CASE Progress(r) \/ PurgeOldEvents(r)
    BY <2>2, KeptFlag DEF Progress, PurgeOldEvents, KeepsRuns
  <2> QED BY <1>10, <2>1, <2>2
<1>11. ASSUME NEW r \in Runs, NEW p \in Pods, ClickRun(r, p) \/ CallRun(r, p) PROVE FlagHasRun'
  <2>1. /\ UNCHANGED runActive
        /\ \A q \in Runs : q # r => pc'[q] = pc[q] /\ pod'[q] = pod[q]
        /\ pc[r] = "new"
    BY <1>11 DEF ClickRun, CallRun, Goto, TypeOK
  <2> QED BY <2>1 DEF FlagHasRun
<1>12. ASSUME NEW p \in Pods, Crash(p) PROVE FlagHasRun'
  <2>1. /\ runActive' = [runActive EXCEPT ![p] = FALSE] /\ UNCHANGED pod
        /\ \A r \in Runs : pod[r] # p => pc'[r] = pc[r]
    BY <1>12 DEF Crash, TypeOK
  <2> QED BY <2>1 DEF FlagHasRun, TypeOK
<1>13. ASSUME NEW d \in Dbs, DeleteDatabase(d) \/ DeleteBackup(d) PROVE FlagHasRun'
  BY <1>13, KeptFlag DEF DeleteDatabase, DeleteBackup, KeepsRuns
<1>14. CASE Tick
  BY <1>14, KeptFlag DEF Tick, KeepsRuns
<1>15. CASE UNCHANGED vars
  BY <1>15, KeptFlag DEF vars, KeepsRuns
<1> QED
  BY <1>1, <1>2, <1>3, <1>4, <1>7, <1>8, <1>9, <1>10, <1>11, <1>12, <1>13, <1>14, <1>15
     DEF Next, RunStep

\* A set flag always has a living run of its process.
THEOREM FlagIsAlive == Spec => []FlagHasRun
<1>1. Init => FlagHasRun
  BY DEF Init, FlagHasRun
<1> QED BY <1>1, NextFlag, TypeCorrect, PTL DEF Spec

-----------------------------------------------------------------------------
LEMMA LogFresh ==
  ASSUME TypeOK, Fresh, NEW r \in Runs, LogEvent(r, "open"),
         \A q \in Runs : q # r => pc'[q] = pc[q]
  PROVE  Fresh'
  BY DEF Fresh, LogEvent, TypeOK

\* Steps without events, of runs that have logged one.
LEMMA QuietFresh ==
  ASSUME TypeOK, Fresh, UNCHANGED events,
         \A q \in Runs : pc'[q] \in Scanning => pc[q] \in Scanning
  PROVE  Fresh'
  BY DEF Fresh, events

LEMMA NextFresh == TypeOK /\ Placed /\ Fresh /\ [Next]_vars => Fresh'
<1> SUFFICES ASSUME TypeOK, Placed, Fresh, [Next]_vars PROVE Fresh'
  OBVIOUS
<1> USE DEF mutex, progress, registry
<1>1. ASSUME NEW r \in Runs, AskDatabase(r) \/ ClearFlag(r) \/ LockRun(r) PROVE Fresh'
  BY <1>1, QuietFresh DEF AskDatabase, ClearFlag, LockRun, Goto, TypeOK
<1>2. ASSUME NEW r \in Runs, CheckFlag(r) \/ AdmitRun(r) \/ EndRun(r) PROVE Fresh'
  BY <1>2, QuietFresh DEF CheckFlag, AdmitRun, RefuseRun, EndRun, Goto, TypeOK
<1>3. ASSUME NEW r \in Runs, NEW to \in Scanning, Step(r, to) PROVE Fresh'
  BY <1>3, LogFresh DEF Step, Goto, TypeOK
<1>4. ASSUME NEW r \in Runs, NEW to \in Scanning, pc[r] \in Scanning, Quietly(r, to)
      PROVE Fresh'
  BY <1>4, QuietFresh DEF Quietly, Goto, TypeOK
<1>5. ASSUME NEW r \in Runs,
             \/ StartScan(r) \/ DiscoverClusters(r) \/ ScanOpenTCPPorts(r) \/ ProbePorts(r)
             \/ ListDatabases(r) \/ FoundDatabase(r)
      PROVE Fresh'
  BY <1>3, <1>5 DEF StartScan, DiscoverClusters, ScanOpenTCPPorts, ProbePorts,
                    ListDatabases, FoundDatabase
<1>6. ASSUME NEW r \in Runs,
             \/ LookupBackup(r) \/ LookupDatabase(r) \/ CreateDatabase(r) \/ InsertBackup(r)
             \/ ScheduleBackup(r) \/ RegisterFails(r)
      PROVE Fresh'
  BY <1>3, <1>4, <1>6 DEF LookupBackup, LookupDatabase, CreateDatabase, InsertBackup,
                          ScheduleBackup, RegisterFails, NextDatabase
<1>7. ASSUME NEW r \in Runs, SkipDatabase(r) PROVE Fresh'
  BY <1>3, <1>7, QuietFresh DEF SkipDatabase
<1>8. ASSUME NEW r \in Runs, Progress(r) PROVE Fresh'
  BY <1>8, LogFresh DEF Progress
<1>9. ASSUME NEW r \in Runs, FinishScan(r) PROVE Fresh'
  BY <1>9 DEF FinishScan, LogEvent, Goto, Fresh, TypeOK
<1>10. ASSUME NEW r \in Runs, PurgeOldEvents(r) PROVE Fresh'
  BY <1>10 DEF PurgeOldEvents, Fresh, TypeOK
<1>11. ASSUME NEW r \in Runs, NEW p \in Pods, ClickRun(r, p) \/ CallRun(r, p) PROVE Fresh'
  BY <1>11, QuietFresh DEF ClickRun, CallRun, Goto, TypeOK
<1>12. ASSUME NEW p \in Pods, Crash(p) PROVE Fresh'
  BY <1>12 DEF Crash, Fresh, TypeOK
<1>13. ASSUME NEW d \in Dbs, DeleteDatabase(d) \/ DeleteBackup(d) PROVE Fresh'
  BY <1>13, QuietFresh DEF DeleteDatabase, DeleteBackup
<1>14. CASE Tick
  <2> SUFFICES ASSUME NEW q \in Runs, pc'[q] \in Scanning, q \notin lost'
               PROVE log'[q] = "open" /\ age'[q] <= IF due'[q] THEN 1 ELSE 0
    BY DEF Fresh
  <2>1. pc[q] \in Scanning /\ q \notin lost /\ log'[q] = log[q] /\ ~due[q]
    BY <1>14 DEF Tick
  <2>2. log[q] = "open" /\ age[q] <= 0
    BY <2>1 DEF Fresh
  <2>3. age[q] \in Nat /\ Window \in Nat
    BY DEF TypeOK
  <2>4. age'[q] <= 1
    BY <1>14, <2>2, <2>3 DEF Tick
  <2>5. due'[q]
    BY <1>14, <2>1 DEF Tick
  <2> QED BY <2>1, <2>2, <2>4, <2>5
<1>15. CASE UNCHANGED vars
  BY <1>15, QuietFresh DEF vars, events
<1> QED
  BY <1>1, <1>2, <1>5, <1>6, <1>7, <1>8, <1>9, <1>10, <1>11, <1>12, <1>13, <1>14, <1>15
     DEF Next, RunStep

\* A run is let in next to one that scans only if that one lost an event.
THEOREM RunsAreAlone == Spec => AdmittedAlone
<1>1. Init => Fresh
  BY DEF Init, Fresh
<1>2. Spec => []Fresh
  BY <1>1, NextFresh, TypeCorrect, PTL DEF Spec
<1> DEFINE Admits ==
      \A r \in Runs : pc[r] = "check2" /\ pc'[r] = "admitted" =>
          \A q \in Runs : pc[q] \in Scanning => q \in lost
<1>3. TypeOK /\ Fresh /\ [Next]_vars => [Admits]_vars
  <2> SUFFICES ASSUME TypeOK, Fresh, [Next]_vars, NEW r \in Runs, pc[r] = "check2",
                      pc'[r] = "admitted", NEW q \in Runs, pc[q] \in Scanning
               PROVE q \in lost
    OBVIOUS
  <2>1. ~HasActiveRun
    <3>1. CASE AdmitRun(r)
      BY <3>1 DEF AdmitRun, RefuseRun, Goto, TypeOK
    <3>2. ASSUME NEW s \in Runs, s # r, RunStep(s) PROVE FALSE
      BY <3>2 DEF RunStep, AskDatabase, ClearFlag, LockRun, CheckFlag, AdmitRun, RefuseRun,
                  StartScan, DiscoverClusters, ScanOpenTCPPorts, ProbePorts, ListDatabases,
                  SkipDatabase, FoundDatabase, LookupBackup, LookupDatabase, CreateDatabase,
                  InsertBackup, ScheduleBackup, RegisterFails, NextDatabase, Quietly, Step,
                  FinishScan, EndRun, Goto, TypeOK
    <3>3. CASE RunStep(r) /\ ~AdmitRun(r)
      BY <3>3 DEF RunStep, AskDatabase, ClearFlag, LockRun, CheckFlag,
                  StartScan, DiscoverClusters, ScanOpenTCPPorts, ProbePorts, ListDatabases,
                  SkipDatabase, FoundDatabase, LookupBackup, LookupDatabase, CreateDatabase,
                  InsertBackup, ScheduleBackup, RegisterFails, FinishScan, EndRun
    <3>4. ASSUME NEW s \in Runs, NEW p \in Pods, ClickRun(s, p) \/ CallRun(s, p) PROVE FALSE
      BY <3>4 DEF ClickRun, CallRun, Goto, TypeOK
    <3>5. ASSUME NEW p \in Pods, Crash(p) PROVE FALSE
      BY <3>5 DEF Crash, TypeOK
    <3>6. ~UNCHANGED pc
      OBVIOUS
    <3> QED
      BY <3>1, <3>2, <3>3, <3>4, <3>5, <3>6
         DEF Next, Progress, PurgeOldEvents, DeleteDatabase, DeleteBackup, Tick, vars
  <2>2. q \notin lost => Seen(q)
    BY DEF Fresh, Seen, TypeOK
  <2> QED BY <2>1, <2>2 DEF HasActiveRun
<1> QED BY <1>2, <1>3, TypeCorrect, PTL DEF AdmittedAlone, Spec

-----------------------------------------------------------------------------
\* Steps of runs that are under way, or that start none, and leave the backups.
LEMMA KeptAlone ==
  ASSUME TypeOK, Placed, Alone, UNCHANGED <<met, copies>>,
         \A q \in Runs : pc'[q] \in Live => pc[q] \in Live,
         \A q \in Runs : pc'[q] \in {"database", "create", "insert"} =>
             cur'[q] = cur[q] /\ copies[cur[q]] = 0
  PROVE  Alone'
  BY DEF Alone

LEMMA StepAlone ==
  ASSUME TypeOK, Placed, Alone, NEW r \in Runs, pc[r] \in Logging, NEW to \in Scanning,
         pc' = [pc EXCEPT ![r] = to], UNCHANGED <<met, copies>>,
         \A q \in Runs : q # r => cur'[q] = cur[q],
         to \in {"database", "create", "insert"} => cur'[r] = cur[r] /\ copies[cur[r]] = 0
  PROVE  Alone'
  BY DEF Alone, TypeOK

LEMMA NextAlone == TypeOK /\ Placed /\ Alone /\ [Next]_vars => Alone'
<1> SUFFICES ASSUME TypeOK, Placed, Alone, [Next]_vars PROVE Alone'
  OBVIOUS
<1> USE DEF mutex, progress, registry
<1>1. ASSUME NEW r \in Runs, NextDatabase(r), pc[r] \in Registering, UNCHANGED copies PROVE Alone'
  BY <1>1, StepAlone DEF NextDatabase, Step, Goto, TypeOK
<1>2. ASSUME NEW r \in Runs,
             \/ StartScan(r) \/ DiscoverClusters(r) \/ ScanOpenTCPPorts(r) \/ ProbePorts(r)
             \/ ListDatabases(r)
      PROVE Alone'
  <2>1. CASE StartScan(r)
    BY <2>1, StepAlone DEF StartScan, Step, Goto
  <2>2. CASE DiscoverClusters(r)
    BY <2>2, StepAlone DEF DiscoverClusters, Step, Goto
  <2>3. CASE ScanOpenTCPPorts(r)
    BY <2>3, StepAlone DEF ScanOpenTCPPorts, Step, Goto
  <2>4. CASE ProbePorts(r)
    BY <2>4, StepAlone DEF ProbePorts, Step, Goto
  <2>5. CASE ListDatabases(r)
    BY <2>5, StepAlone DEF ListDatabases, Step, Goto
  <2> QED BY <1>2, <2>1, <2>2, <2>3, <2>4, <2>5
<1>3. ASSUME NEW r \in Runs, FoundDatabase(r) PROVE Alone'
  BY <1>3, StepAlone DEF FoundDatabase, Step, Goto, TypeOK
<1>4. ASSUME NEW r \in Runs, SkipDatabase(r) PROVE Alone'
  <2>1. CASE Step(r, "scan")
    BY <1>4, <2>1, StepAlone DEF SkipDatabase, Step, Goto
  <2>2. CASE UNCHANGED <<mutex, pc, pod, events, met, mishaps>>
    BY <1>4, <2>2, KeptAlone DEF SkipDatabase, Alone
  <2> QED BY <1>4, <2>1, <2>2 DEF SkipDatabase
<1>5. ASSUME NEW r \in Runs, LookupBackup(r) \/ LookupDatabase(r) PROVE Alone'
  <2>1. CASE LookupBackup(r) /\ copies[cur[r]] > 0
    BY <2>1, <1>1 DEF LookupBackup, Placed, TypeOK
  <2>2. CASE LookupBackup(r) /\ ~(copies[cur[r]] > 0)
    BY <2>2, StepAlone DEF LookupBackup, Quietly, Goto
  <2>3. CASE LookupDatabase(r)
    <3>1. ~met => copies[cur[r]] = 0
      BY <2>3 DEF LookupDatabase, Alone
    <3>2. met => Alone'
      BY <2>3 DEF LookupDatabase, Quietly, Alone
    <3> QED BY <2>3, <3>1, <3>2, StepAlone DEF LookupDatabase, Quietly, Goto, Alone
  <2> QED BY <1>5, <2>1, <2>2, <2>3
<1>6. ASSUME NEW r \in Runs, CreateDatabase(r) PROVE Alone'
  <2>1. CASE NextDatabase(r)
    BY <1>6, <2>1, <1>1 DEF CreateDatabase
  <2>2. CASE Quietly(r, "insert")
    <3>1. ~met => copies[cur[r]] = 0
      BY <1>6 DEF CreateDatabase, Alone
    <3>2. met => Alone'
      BY <2>2 DEF Quietly, Alone
    <3> QED BY <1>6, <2>2, <3>1, <3>2, StepAlone DEF CreateDatabase, Quietly, Goto
  <2> QED BY <1>6, <2>1, <2>2 DEF CreateDatabase
<1>7. ASSUME NEW r \in Runs, InsertBackup(r) PROVE Alone'
  <2>1. CASE NextDatabase(r) /\ UNCHANGED copies
    BY <1>7, <2>1, <1>1 DEF InsertBackup
  <2>2. CASE Quietly(r, "job") /\ copies' = [copies EXCEPT ![cur[r]] = @ + 1]
    <3> SUFFICES ASSUME ~met PROVE Alone'
      BY <2>2 DEF Quietly, Alone
    <3>1. pc[r] = "insert" /\ cur[r] \in Dbs /\ copies[cur[r]] = 0
      BY <1>7 DEF InsertBackup, Alone, Placed
    <3>2. \A q \in Runs : q # r => pc'[q] \notin Live
      BY <2>2, <3>1 DEF Quietly, Goto, Alone, TypeOK
    <3>3. pc'[r] = "job"
      BY <2>2 DEF Quietly, Goto, TypeOK
    <3>4. \A d \in Dbs : copies'[d] <= 1
      BY <2>2, <3>1 DEF Alone, TypeOK
    <3> QED BY <3>2, <3>3, <3>4 DEF Alone
  <2> QED BY <1>7, <2>1, <2>2 DEF InsertBackup
<1>8. ASSUME NEW r \in Runs, ScheduleBackup(r) \/ RegisterFails(r) PROVE Alone'
  BY <1>8, <1>1 DEF ScheduleBackup, RegisterFails
<1>9. ASSUME NEW r \in Runs, AdmitRun(r) PROVE Alone'
  <2>1. CASE RefuseRun(r)
    BY <1>9, <2>1, KeptAlone DEF AdmitRun, RefuseRun, Goto, TypeOK, Alone
  <2>2. CASE ~RefuseRun(r)
    <3> SUFFICES ASSUME ~met' PROVE Alone'
      BY DEF Alone
    <3>1. /\ ~met /\ \A q \in Runs : pc[q] \notin Live
          /\ pc' = [pc EXCEPT ![r] = "admitted"] /\ UNCHANGED <<copies, cur>>
      BY <1>9, <2>2 DEF AdmitRun, Goto
    <3>2. \A q \in Runs : pc'[q] \in Live => q = r
      BY <3>1 DEF TypeOK
    <3>3. \A q \in Runs : pc'[q] \notin {"database", "create", "insert"}
      BY <3>1 DEF TypeOK
    <3> QED BY <3>1, <3>2, <3>3 DEF Alone
  <2> QED BY <2>1, <2>2
<1>10. ASSUME NEW r \in Runs, AskDatabase(r) \/ ClearFlag(r) \/ LockRun(r) \/ CheckFlag(r)
       PROVE Alone'
  <2>1. /\ UNCHANGED <<met, copies, cur>>
        /\ \A q \in Runs : pc'[q] \in Live => pc'[q] = pc[q]
    BY <1>10 DEF AskDatabase, ClearFlag, LockRun, CheckFlag, RefuseRun, Goto, TypeOK
  <2> QED BY <2>1, KeptAlone DEF Alone
<1>11. ASSUME NEW r \in Runs, FinishScan(r) \/ EndRun(r) \/ Progress(r) \/ PurgeOldEvents(r)
       PROVE Alone'
  <2>1. /\ UNCHANGED <<met, copies, cur>>
        /\ \A q \in Runs : pc'[q] = pc[q] \/ (q = r /\ pc[r] = "scan" /\ pc'[r] = "finish")
                                         \/ pc'[q] = "done"
    BY <1>11 DEF FinishScan, EndRun, Progress, PurgeOldEvents, Goto, TypeOK
  <2> QED BY <2>1, KeptAlone DEF Alone
<1>12. ASSUME NEW r \in Runs, NEW p \in Pods, ClickRun(r, p) \/ CallRun(r, p) PROVE Alone'
  <2>1. /\ UNCHANGED <<met, copies, cur>>
        /\ \A q \in Runs : pc'[q] \in Live => pc'[q] = pc[q]
    BY <1>12 DEF ClickRun, CallRun, Goto, TypeOK
  <2> QED BY <2>1, KeptAlone DEF Alone
<1>13. ASSUME NEW p \in Pods, Crash(p) PROVE Alone'
  <2>1. /\ UNCHANGED <<met, copies, cur>>
        /\ \A q \in Runs : pc'[q] \in Live => pc'[q] = pc[q]
    BY <1>13 DEF Crash
  <2> QED BY <2>1, KeptAlone DEF Alone
<1>14. ASSUME NEW d \in Dbs, DeleteDatabase(d) \/ DeleteBackup(d) PROVE Alone'
  <2>1. /\ UNCHANGED <<pc, cur, met>>
        /\ \A e \in Dbs : copies'[e] \in Nat /\ copies'[e] <= copies[e]
    BY <1>14 DEF DeleteDatabase, DeleteBackup, TypeOK
  <2>2. \A r \in Runs : pc[r] \in {"database", "create", "insert"} => cur[r] \in Dbs
    BY DEF Placed
  <2>3. \A e \in Dbs : copies[e] \in Nat
    BY DEF TypeOK
  <2> SUFFICES ASSUME ~met PROVE Alone'
    BY <2>1 DEF Alone
  <2>4. \A e \in Dbs : copies'[e] <= 1
    BY <2>1, <2>3 DEF Alone
  <2>5. \A r \in Runs : pc'[r] \in {"database", "create", "insert"} => copies'[cur'[r]] = 0
    BY <2>1, <2>2, <2>3 DEF Alone
  <2> QED BY <2>1, <2>4, <2>5 DEF Alone
<1>15. CASE Tick
  BY <1>15 DEF Tick, Alone
<1>16. CASE UNCHANGED vars
  BY <1>16 DEF vars, Alone
<1> QED
  BY <1>2, <1>3, <1>4, <1>5, <1>6, <1>7, <1>8, <1>9, <1>10, <1>11, <1>12, <1>13, <1>14,
     <1>15, <1>16 DEF Next, RunStep

\* As long as no two runs have met, no database gets a second backup.
THEOREM BackupsAreSingle == Spec => []OneBackupEach
<1>1. Init => Alone
  <2> SUFFICES ASSUME Init PROVE Alone
    OBVIOUS
  <2>1. \A q \in Runs : pc[q] = "new"
    BY DEF Init
  <2>2. \A d \in Dbs : copies[d] = 0
    BY DEF Init
  <2> QED BY <2>1, <2>2 DEF Alone
<1>2. Alone => OneBackupEach
  BY DEF Alone, OneBackupEach
<1> QED BY <1>1, <1>2, NextAlone, TypeCorrect, PTL DEF Spec
=============================================================================
