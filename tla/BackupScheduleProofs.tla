------------------------ MODULE BackupScheduleProofs ------------------------
(***************************************************************************)
(* What holds of BackupSchedule for every set of pods and backups: a       *)
(* re-sync that nothing interfered with is exact, whatever it found.       *)
(***************************************************************************)
EXTENDS BackupSchedule, TLAPS

Edits == [op : {"none", "save", "add", "delete"},
          backup : Backups \cup {None}, row : Rows \cup {None}]
Syncings == [rows : [Backups -> Rows \cup {None}], left : SUBSET Backups,
             now : Backups \cup {None}, running : BOOLEAN]

\* A pod that does not sync has nothing left to do; one that does looks only at
\* rows it has read, and adds a job only for an active one.
SyncShape ==
    \A p \in Pods :
        /\ ~sync[p].running => sync[p].left = {} /\ sync[p].now = None
        /\ \A b \in sync[p].left : sync[p].rows[b] # None
        /\ sync[p].now # None =>
              sync[p].rows[sync[p].now] # None /\ sync[p].rows[sync[p].now].active

\* A save under way has a row to schedule.
EditShape == \A p \in Pods : edit[p].op # "none" => edit[p].backup \in Backups

\* A re-sync that nothing interfered with has the table, and each backup it is
\* done with has the job it should have.
DoneIsExact ==
    \A p \in Pods : sync[p].running /\ p \notin dirty =>
        /\ sync[p].rows = row
        /\ \A b \in Backups :
              row[b] # None /\ b \notin sync[p].left /\ b # sync[p].now =>
                  jobs[p][b] = Wanted(row[b])

Inv == TypeOK /\ SyncShape /\ EditShape /\ DoneIsExact

-----------------------------------------------------------------------------
\* What a row wants is a cron expression or no job.
LEMMA WantedTyped == ASSUME NEW r \in Rows \cup {None} PROVE Wanted(r) \in Crons \cup {None}
  BY DEF Wanted, Rows

\* Setting the job of one backup in one pod changes that job only.
LEMMA JobSet ==
    ASSUME TypeOK, NEW p \in Pods, NEW b \in Backups, NEW c \in Crons \cup {None}, SetJob(p, b, c)
    PROVE  /\ jobs' \in [Pods -> [Backups -> Crons \cup {None}]]
           /\ jobs'[p][b] = c
           /\ \A d \in Backups : d # b => jobs'[p][d] = jobs[p][d]
           /\ \A q \in Pods : q # p => jobs'[q] = jobs[q]
  BY DEF TypeOK, SetJob

\* The start of a request, and the end of one.
LEMMA BeginTyped ==
    ASSUME TypeOK, EditShape, NEW p \in Pods, NEW e \in Edits, e.backup \in Backups, Begin(p, e)
    PROVE  edit' \in [Pods -> Edits] /\ EditShape' /\ edits' \in 0..MaxEdits
  BY ScheduleAssumption DEF TypeOK, Begin, EditShape, Edits

LEMMA NoEditTyped == NoEdit \in Edits /\ NoSync \in Syncings
  BY DEF NoEdit, NoSync, Edits, Syncings

\* Steps that leave the syncs alone: every pod they touch becomes dirty.
LEMMA Interferes ==
    ASSUME TypeOK, SyncShape, DoneIsExact, UNCHANGED sync, dirty \subseteq dirty',
           UNCHANGED row \/ dirty' = Pods,
           \A p \in Pods : p \notin dirty' => jobs'[p] = jobs[p]
    PROVE  SyncShape' /\ DoneIsExact'
  BY DEF SyncShape, DoneIsExact, Wanted

LEMMA InvInit == Init => Inv
  <1> SUFFICES ASSUME Init PROVE Inv
    OBVIOUS
  <1>1. TypeOK
    BY ScheduleAssumption, NoEditTyped DEF Init, TypeOK, Edits, Syncings
  <1>2. SyncShape /\ EditShape /\ DoneIsExact
    BY DEF Init, SyncShape, EditShape, DoneIsExact, NoSync, NoEdit
  <1> QED BY <1>1, <1>2 DEF Inv

\* Requests, and the deletions of the table.
LEMMA RequestStep ==
    ASSUME Inv, NEW p \in Pods,
           \/ CreateBackup(p) \/ UpdateBackup(p) \/ DuplicateBackup(p) \/ DeleteBackup(p)
           \/ Edit(p) \/ \E b \in Backups : DeleteCascade(b)
    PROVE  Inv'
  <1> USE ScheduleAssumption DEF bounds
  <1>t. TypeOK /\ EditShape /\ edit \in [Pods -> Edits] /\ sync \in [Pods -> Syncings]
    BY DEF Inv, TypeOK, Edits, Syncings
  <1>i. ASSUME UNCHANGED sync, dirty \subseteq dirty', UNCHANGED row \/ dirty' = Pods,
               \A q \in Pods : q \notin dirty' => jobs'[q] = jobs[q]
        PROVE  SyncShape' /\ DoneIsExact'
    BY <1>i, Interferes DEF Inv
  <1>1. ASSUME NEW b \in Backups, NEW r \in Rows, Save(p, b, r),
               InsertRow(b, r) \/ UpdateRow(b, r)
        PROVE  Inv'
    <2> DEFINE e == [op |-> "save", backup |-> b, row |-> r]
    <2>1. edit' \in [Pods -> Edits] /\ EditShape' /\ edits' \in 0..MaxEdits
      <3>1. e \in Edits /\ e.backup \in Backups
        BY DEF Edits
      <3> QED BY <1>1, <1>t, <3>1, BeginTyped DEF Save
    <2>2. row' \in [Backups -> Rows \cup {None}]
      BY <1>1, <1>t DEF InsertRow, UpdateRow, TypeOK
    <2>3. TypeOK'
      BY <1>1, <1>t, <2>1, <2>2 DEF Save, TypeOK, Edits, Syncings
    <2>4. SyncShape' /\ DoneIsExact'
      BY <1>1, <1>t, <1>i DEF Save, TypeOK
    <2> QED BY <2>1, <2>3, <2>4 DEF Inv
  <1>2. CASE DuplicateBackup(p)
    <2>1. row' \in [Backups -> Rows \cup {None}]
      <3>1. PICK b \in Backups, copy \in Backups :
                row[b] # None /\ row' = [row EXCEPT ![copy] = [row[b] EXCEPT !.active = FALSE]]
        BY <1>2 DEF DuplicateBackup
      <3>2. [row[b] EXCEPT !.active = FALSE] \in Rows
        <4>1. row[b] \in Rows
          BY <1>t, <3>1 DEF TypeOK
        <4> QED BY <4>1 DEF Rows
      <3> QED BY <1>t, <3>1, <3>2 DEF TypeOK
    <2>2. TypeOK' /\ EditShape'
      BY <1>2, <1>t, <2>1 DEF DuplicateBackup, TypeOK, EditShape
    <2>3. SyncShape' /\ DoneIsExact'
      BY <1>2, <1>t, <1>i DEF DuplicateBackup, TypeOK
    <2> QED BY <2>2, <2>3 DEF Inv
  <1>3. CASE DeleteBackup(p)
    <2>1. PICK b \in Backups : /\ Begin(p, [op |-> "delete", backup |-> b, row |-> None])
                               /\ SetJob(p, b, None)
      BY <1>3 DEF DeleteBackup
    <2> DEFINE e == [op |-> "delete", backup |-> b, row |-> None]
    <2>2. edit' \in [Pods -> Edits] /\ EditShape' /\ edits' \in 0..MaxEdits
      <3>1. e \in Edits /\ e.backup \in Backups
        BY DEF Edits
      <3> QED BY <1>t, <2>1, <3>1, BeginTyped
    <2>3. /\ jobs' \in [Pods -> [Backups -> Crons \cup {None}]]
          /\ \A q \in Pods : q # p => jobs'[q] = jobs[q]
      BY <1>t, <2>1, JobSet
    <2>4. TypeOK'
      BY <1>3, <1>t, <2>2, <2>3 DEF DeleteBackup, TypeOK, Edits, Syncings
    <2>5. SyncShape' /\ DoneIsExact'
      BY <1>3, <1>t, <2>3, <1>i DEF DeleteBackup
    <2> QED BY <2>2, <2>4, <2>5 DEF Inv
  <1>4. CASE DeleteRow(p)
    <2>1. edit' \in [Pods -> Edits] /\ EditShape'
      BY <1>4, <1>t, NoEditTyped DEF DeleteRow, EditShape, NoEdit
    <2>2. TypeOK'
      BY <1>4, <1>t, <2>1 DEF DeleteRow, TypeOK, Gone, Edits, Syncings
    <2>3. SyncShape' /\ DoneIsExact'
      BY <1>4, <1>t, <1>i DEF DeleteRow, TypeOK
    <2> QED BY <2>1, <2>2, <2>3 DEF Inv
  <1>5. CASE EditRemovesJob(p)
    <2>1. edit' \in [Pods -> Edits] /\ EditShape' /\ edit[p].backup \in Backups
      BY <1>5, <1>t DEF EditRemovesJob, EditShape, Edits
    <2>2. /\ jobs' \in [Pods -> [Backups -> Crons \cup {None}]]
          /\ \A q \in Pods : q # p => jobs'[q] = jobs[q]
      BY <1>5, <1>t, <2>1, JobSet DEF EditRemovesJob
    <2>3. TypeOK'
      BY <1>5, <1>t, <2>1, <2>2 DEF EditRemovesJob, TypeOK, Edits, Syncings
    <2>4. SyncShape' /\ DoneIsExact'
      BY <1>5, <1>t, <2>2, <1>i DEF EditRemovesJob
    <2> QED BY <2>1, <2>3, <2>4 DEF Inv
  <1>6. CASE EditAddsJob(p)
    <2>1. edit' \in [Pods -> Edits] /\ EditShape' /\ edit[p].backup \in Backups
      BY <1>6, <1>t, NoEditTyped DEF EditAddsJob, EditShape, NoEdit, Edits
    <2>2. Wanted(edit[p].row) \in Crons \cup {None}
      BY <1>t, WantedTyped DEF Edits
    <2>3. /\ jobs' \in [Pods -> [Backups -> Crons \cup {None}]]
          /\ \A q \in Pods : q # p => jobs'[q] = jobs[q]
      <3>1. CASE Wanted(edit[p].row) = None
        BY <1>6, <1>t, <3>1 DEF EditAddsJob, TypeOK
      <3>2. CASE Wanted(edit[p].row) # None
        BY <1>6, <1>t, <2>1, <2>2, <3>2, JobSet DEF EditAddsJob
      <3> QED BY <3>1, <3>2
    <2>4. TypeOK'
      BY <1>6, <1>t, <2>1, <2>3 DEF EditAddsJob, TypeOK, Edits, Syncings
    <2>5. SyncShape' /\ DoneIsExact'
      BY <1>6, <1>t, <2>3, <1>i DEF EditAddsJob
    <2> QED BY <2>1, <2>4, <2>5 DEF Inv
  <1>7. ASSUME NEW b \in Backups, DeleteCascade(b) PROVE Inv'
    <2>1. TypeOK' /\ EditShape'
      BY <1>7, <1>t DEF DeleteCascade, TypeOK, EditShape, Gone
    <2>2. SyncShape' /\ DoneIsExact'
      BY <1>7, <1>t, <1>i DEF DeleteCascade, TypeOK
    <2> QED BY <2>1, <2>2 DEF Inv
  <1> QED BY <1>1, <1>2, <1>3, <1>4, <1>5, <1>6, <1>7
          DEF CreateBackup, UpdateBackup, Edit

\* The steps of a re-sync, and a pod that is lost.
LEMMA SyncStep ==
    ASSUME Inv, NEW p \in Pods, ScheduleAll(p) \/ SyncAddFails(p) \/ Restart(p)
    PROVE  Inv'
  <1> USE ScheduleAssumption DEF bounds, Fault
  <1>t. /\ TypeOK /\ SyncShape /\ EditShape /\ DoneIsExact
        /\ edit \in [Pods -> Edits] /\ sync \in [Pods -> Syncings]
    BY DEF Inv, TypeOK, Edits, Syncings
  <1>1. CASE Read(p)
    <2> DEFINE s == [rows |-> row, now |-> None, running |-> TRUE,
                     left |-> {b \in Backups : row[b] # None}]
    <2>1. s \in Syncings /\ sync' = [sync EXCEPT ![p] = s]
      BY <1>1, <1>t DEF Read, TypeOK, Syncings
    <2>2. TypeOK' /\ EditShape'
      BY <1>1, <1>t, <2>1 DEF Read, TypeOK, EditShape, Syncings
    <2>3. SyncShape'
      BY <1>1, <1>t, <2>1 DEF Read, SyncShape
    <2>4. DoneIsExact'
      BY <1>1, <1>t, <2>1 DEF Read, DoneIsExact
    <2> QED BY <2>2, <2>3, <2>4 DEF Inv
  <1>2. CASE SyncRemovesJob(p)
    <2>1. PICK b \in sync[p].left :
             /\ SetJob(p, b, None)
             /\ sync' = [sync EXCEPT ![p].left = @ \ {b},
                                     ![p].now = IF sync[p].rows[b].active THEN b ELSE None]
      BY <1>2 DEF SyncRemovesJob, LookedAt
    <2>2. b \in Backups /\ sync[p].running /\ sync[p].rows[b] # None /\ sync[p].now = None
      BY <1>2, <1>t DEF SyncRemovesJob, SyncShape, Syncings
    <2>3. /\ jobs' \in [Pods -> [Backups -> Crons \cup {None}]]
          /\ jobs'[p][b] = None
          /\ \A d \in Backups : d # b => jobs'[p][d] = jobs[p][d]
          /\ \A q \in Pods : q # p => jobs'[q] = jobs[q]
      BY <1>t, <2>1, <2>2, JobSet
    <2>4. /\ sync' \in [Pods -> Syncings]
          /\ \A q \in Pods : q # p => sync'[q] = sync[q]
          /\ sync'[p].rows = sync[p].rows /\ sync'[p].running
          /\ sync'[p].left = sync[p].left \ {b}
          /\ sync'[p].now = IF sync[p].rows[b].active THEN b ELSE None
      <3> DEFINE s == [sync[p] EXCEPT !.left = sync[p].left \ {b},
                                      !.now = IF sync[p].rows[b].active THEN b ELSE None]
      <3>1. sync' = [sync EXCEPT ![p] = s]
        BY <1>t, <2>1
      <3>2. /\ s \in Syncings /\ s.rows = sync[p].rows /\ s.running
            /\ s.left = sync[p].left \ {b}
            /\ s.now = IF sync[p].rows[b].active THEN b ELSE None
        BY <1>t, <2>2 DEF Syncings
      <3> HIDE DEF s
      <3> QED BY <1>t, <3>1, <3>2
    <2>5. TypeOK' /\ EditShape'
      BY <1>2, <1>t, <2>3, <2>4 DEF SyncRemovesJob, TypeOK, EditShape, Syncings
    <2>6. SyncShape'
      BY <1>t, <2>2, <2>4 DEF SyncShape
    <2>7. DoneIsExact'
      BY <1>2, <1>t, <2>2, <2>3, <2>4 DEF SyncRemovesJob, DoneIsExact, Wanted
    <2> QED BY <2>5, <2>6, <2>7 DEF Inv
  <1>3. CASE SyncAddsJob(p)
    <2> DEFINE b == sync[p].now
    <2>1. b \in Backups /\ sync[p].running /\ sync[p].rows[b] \in Rows /\ sync[p].rows[b].active
      BY <1>3, <1>t DEF SyncAddsJob, SyncShape, Syncings
    <2>2. sync[p].rows[b].cron \in Crons
      BY <2>1 DEF Rows
    <2>3. /\ jobs' \in [Pods -> [Backups -> Crons \cup {None}]]
          /\ jobs'[p][b] = sync[p].rows[b].cron
          /\ \A d \in Backups : d # b => jobs'[p][d] = jobs[p][d]
          /\ \A q \in Pods : q # p => jobs'[q] = jobs[q]
      BY <1>3, <1>t, <2>1, <2>2, JobSet DEF SyncAddsJob
    <2>4. /\ sync' \in [Pods -> Syncings]
          /\ \A q \in Pods : q # p => sync'[q] = sync[q]
          /\ sync'[p].rows = sync[p].rows /\ sync'[p].running
          /\ sync'[p].left = sync[p].left /\ sync'[p].now = None
      BY <1>3, <1>t, <2>1 DEF SyncAddsJob, Syncings
    <2>5. TypeOK' /\ EditShape'
      BY <1>3, <1>t, <2>3, <2>4 DEF SyncAddsJob, TypeOK, EditShape, Syncings
    <2>6. SyncShape'
      BY <1>t, <2>4 DEF SyncShape
    <2>7. DoneIsExact'
      BY <1>3, <1>t, <2>1, <2>3, <2>4 DEF SyncAddsJob, DoneIsExact, Wanted
    <2> QED BY <2>5, <2>6, <2>7 DEF Inv
  <1>4. CASE EndSync(p) \/ Restart(p)
    <2>1. sync' \in [Pods -> Syncings] /\ sync' = [sync EXCEPT ![p] = NoSync]
      BY <1>4, <1>t, NoEditTyped DEF EndSync, Restart
    <2>2. edit' \in [Pods -> Edits] /\ EditShape'
      BY <1>4, <1>t, NoEditTyped DEF EndSync, Restart, EditShape, NoEdit
    <2>3. /\ jobs' \in [Pods -> [Backups -> Crons \cup {None}]]
          /\ \A q \in Pods : q # p => jobs'[q] = jobs[q]
      <3>1. CASE EndSync(p)
        BY <3>1, <1>t DEF EndSync, TypeOK
      <3>2. CASE Restart(p)
        <4>1. [b \in Backups |-> None] \in [Backups -> Crons \cup {None}]
          OBVIOUS
        <4> QED BY <3>2, <4>1, <1>t DEF Restart, TypeOK
      <3> QED BY <1>4, <3>1, <3>2
    <2>4. TypeOK'
      <3>1. UNCHANGED <<row, queued, edits>> /\ dirty' \subseteq Pods /\ faults' \in 0..MaxFaults
        BY <1>4, <1>t DEF EndSync, Restart, TypeOK
      <3> QED BY <1>t, <2>1, <2>2, <2>3, <3>1 DEF TypeOK, Edits, Syncings
    <2>5. SyncShape'
      BY <1>t, <2>1 DEF SyncShape, NoSync
    <2>6. DoneIsExact'
      BY <1>4, <1>t, <2>1, <2>3 DEF EndSync, Restart, DoneIsExact, NoSync, Wanted
    <2> QED BY <2>2, <2>4, <2>5, <2>6 DEF Inv
  <1>5. CASE SyncAddFails(p)
    <2>1. /\ sync' \in [Pods -> Syncings]
          /\ \A q \in Pods : q # p => sync'[q] = sync[q]
          /\ sync'[p].rows = sync[p].rows /\ sync'[p].running = sync[p].running
          /\ sync'[p].left = sync[p].left /\ sync'[p].now = None
      BY <1>5, <1>t DEF SyncAddFails, Syncings
    <2>2. TypeOK' /\ EditShape'
      <3>1. /\ UNCHANGED <<row, queued, jobs, edit, edits>>
            /\ dirty' \subseteq Pods /\ faults' \in 0..MaxFaults
        BY <1>5, <1>t DEF SyncAddFails, TypeOK
      <3> QED BY <1>t, <2>1, <3>1 DEF TypeOK, EditShape, Syncings
    <2>3. SyncShape'
      BY <1>t, <2>1 DEF SyncShape
    <2>4. DoneIsExact'
      BY <1>5, <1>t, <2>1 DEF SyncAddFails, DoneIsExact, Wanted
    <2> QED BY <2>2, <2>3, <2>4 DEF Inv
  <1> QED BY <1>1, <1>2, <1>3, <1>4, <1>5 DEF ScheduleAll

LEMMA InvStep == Inv /\ [Next]_vars => Inv'
  <1> SUFFICES ASSUME Inv, [Next]_vars PROVE Inv'
    OBVIOUS
  <1>1. ASSUME NEW p \in Pods, NEW b \in Backups, Fire(p, b) PROVE Inv'
    BY <1>1 DEF Fire, bounds, Inv, TypeOK, SyncShape, EditShape, DoneIsExact
  <1>2. ASSUME NEW b \in Backups, Finish(b) PROVE Inv'
    BY <1>2 DEF Finish, bounds, Inv, TypeOK, SyncShape, EditShape, DoneIsExact
  <1>3. CASE UNCHANGED vars
    BY <1>3 DEF vars, bounds, Inv, TypeOK, SyncShape, EditShape, DoneIsExact
  <1>4. CASE Pods = {} /\ \E b \in Backups : DeleteCascade(b)
    BY <1>4, ScheduleAssumption
       DEF DeleteCascade, Gone, Inv, TypeOK, SyncShape, EditShape, DoneIsExact
  <1> QED BY <1>1, <1>2, <1>3, <1>4, RequestStep, SyncStep DEF Next

LEMMA Invariant == Spec => []Inv
  BY InvInit, InvStep, PTL DEF Spec

\* The variables keep their types, whatever pods are lost and jobs not added.
THEOREM TypeCorrect == Spec => []TypeOK
  <1>1. Inv => TypeOK
    BY DEF Inv
  <1> QED BY Invariant, <1>1, PTL

\* A re-sync that nothing interfered with leaves each pod with the job every
\* backup should have, from whatever jobs it found.
THEOREM ResyncIsExact == Spec => SyncIsExact
  <1> DEFINE Exact == \A p \in Pods : sync[p].running /\ sync'[p] = NoSync /\ p \notin dirty' =>
                          Follows(p)
  <1>1. Inv /\ [Next]_vars => [Exact]_vars
    <2> SUFFICES ASSUME Inv, Next, NEW p \in Pods, sync[p].running, sync'[p] = NoSync,
                        p \notin dirty'
                 PROVE  Follows(p)
      OBVIOUS
    <2>0. sync \in [Pods -> Syncings] /\ ~sync'[p].running /\ None \notin Backups
      BY ScheduleAssumption DEF Inv, TypeOK, Syncings, NoSync
    <2>1. sync'[p] # sync[p]
      BY <2>0
    <2>2. ASSUME NEW q \in Pods, ScheduleAll(q) \/ SyncAddFails(q) \/ Restart(q)
          PROVE  EndSync(p) /\ p \notin dirty
      <3>1. q = p
        BY <2>2, <2>0, <2>1 DEF ScheduleAll, Read, SyncRemovesJob, SyncAddsJob, EndSync,
                                SyncAddFails, Restart, Syncings
      <3>2. ~Read(p) /\ ~SyncAddFails(p) /\ ~Restart(p)
        BY DEF Read, SyncAddFails, Restart
      <3>3. ~SyncRemovesJob(p) /\ ~SyncAddsJob(p)
        <4>1. ASSUME NEW L, NEW b, sync' = [sync EXCEPT ![p].left = L, ![p].now = b] PROVE FALSE
          BY <2>0, <4>1 DEF Syncings
        <4>2. ASSUME NEW b, sync' = [sync EXCEPT ![p].now = b] PROVE FALSE
          BY <2>0, <4>2 DEF Syncings
        <4>3. ~SyncAddsJob(p)
          BY <4>2 DEF SyncAddsJob
        <4>4. ~SyncRemovesJob(p)
          <5> SUFFICES ASSUME SyncRemovesJob(p) PROVE FALSE
            OBVIOUS
          <5>1. PICK b : sync' = [sync EXCEPT
                                    ![p].left = sync[p].left \ {b},
                                    ![p].now = IF sync[p].rows[b].active THEN b ELSE None]
            BY <2>0 DEF SyncRemovesJob, Syncings
          <5> QED BY <4>1, <5>1
        <4> QED BY <4>3, <4>4
      <3> QED BY <2>2, <3>1, <3>2, <3>3 DEF ScheduleAll, EndSync
    <2>3. EndSync(p) /\ p \notin dirty
      BY <2>1, <2>2
         DEF Next, CreateBackup, UpdateBackup, Save, DuplicateBackup, DeleteBackup, Edit,
             DeleteRow, EditRemovesJob, EditAddsJob, Fire, DeleteCascade, Finish
    <2> QED BY <2>0, <2>3 DEF Inv, DoneIsExact, EndSync, LookedAt, Follows
  <1> QED BY <1>1, Invariant, PTL DEF Spec, SyncIsExact
=============================================================================
