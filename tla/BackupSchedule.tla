--------------------------- MODULE BackupSchedule ---------------------------
(***************************************************************************)
(* The cron jobs of backups.  Each pod has a scheduler of its own, started *)
(* whatever its role; a pod that serves HTTP changes the backups table and *)
(* then its own jobs; worker pods bring theirs in line with the table when *)
(* they start and every five minutes (ScheduleAll).  A job that fires      *)
(* queues an execution.                                                    *)
(*                                                                         *)
(* The cron expression and its time zone are one value, and a job may fire *)
(* at any time.  The removal of a job and the one that replaces it are two *)
(* steps.                                                                  *)
(***************************************************************************)
EXTENDS Naturals

CONSTANTS
    Pods,
    Serves,     \* pods that serve HTTP: roles web and all
    Syncs,      \* pods with the re-sync: roles worker and all
    Backups,
    Crons,
    None,       \* no backup, no job, no row
    MaxEdits,   \* bound on the changes made to the table
    MaxFaults   \* bound on pods lost and jobs that cannot be added

ASSUME ScheduleAssumption ==
    /\ Serves \cup Syncs = Pods
    /\ None \notin Backups /\ None \notin Crons
    /\ MaxEdits \in Nat /\ MaxFaults \in Nat

VARIABLES
    row,     \* backups: each one's row, None when there is none
    queued,  \* backups with a queued or running execution
    jobs,    \* the cron expression of each job of each pod's scheduler
    edit,    \* the request each pod handles
    sync,    \* ScheduleAll of each pod: the rows it read, those left to do,
             \* and the one whose job is removed and not yet added
    dirty,   \* pods where the table or a job changed since their sync began
    edits,   \* changes begun so far
    faults   \* failures so far

bounds == <<edits, faults>>
vars == <<row, queued, jobs, edit, sync, dirty, bounds>>

Rows == [active : BOOLEAN, cron : Crons]

NoEdit == [op |-> "none", backup |-> None, row |-> None]
NoSync == [rows |-> [b \in Backups |-> None], left |-> {}, now |-> None,
           running |-> FALSE]

Init ==
    /\ row = [b \in Backups |-> None]
    /\ queued = {}
    /\ jobs = [p \in Pods |-> [b \in Backups |-> None]]
    /\ edit = [p \in Pods |-> NoEdit]
    /\ sync = [p \in Pods |-> NoSync]
    /\ dirty = Pods
    /\ edits = 0 /\ faults = 0

TypeOK ==
    /\ row \in [Backups -> Rows \cup {None}]
    /\ queued \subseteq Backups
    /\ jobs \in [Pods -> [Backups -> Crons \cup {None}]]
    /\ edit \in [Pods -> [op : {"none", "save", "add", "delete"},
                          backup : Backups \cup {None}, row : Rows \cup {None}]]
    /\ sync \in [Pods -> [rows : [Backups -> Rows \cup {None}],
                          left : SUBSET Backups, now : Backups \cup {None},
                          running : BOOLEAN]]
    /\ dirty \subseteq Pods
    /\ edits \in 0..MaxEdits /\ faults \in 0..MaxFaults

Gone == None

Wanted(r) == IF r # None /\ r.active THEN r.cron ELSE None

SetJob(p, b, c) == jobs' = [jobs EXCEPT ![p][b] = c]

-----------------------------------------------------------------------------
(* Requests: CreateBackup, UpdateBackup, DuplicateBackup, DeleteBackup *)

Begin(p, e) ==
    /\ p \in Serves
    /\ edit[p] = NoEdit
    /\ edits < MaxEdits
    /\ edits' = edits + 1
    /\ edit' = [edit EXCEPT ![p] = e]

\* INSERT and UPDATE.
InsertRow(b, r) == row[b] = None /\ row' = [row EXCEPT ![b] = r]
UpdateRow(b, r) == row[b] \notin {None, r} /\ row' = [row EXCEPT ![b] = r]

\* The row that the statement returns goes into the job that follows.
Save(p, b, r) ==
    /\ Begin(p, [op |-> "save", backup |-> b, row |-> r])
    /\ dirty' = Pods
    /\ UNCHANGED <<queued, jobs, sync, faults>>

CreateBackup(p) == \E b \in Backups, r \in Rows : Save(p, b, r) /\ InsertRow(b, r)

\* The form sends every field, so a row becomes what the form was opened with
\* and its user has changed, whatever it is by now: any other row.
UpdateBackup(p) == \E b \in Backups, r \in Rows : Save(p, b, r) /\ UpdateRow(b, r)

\* The copy is inactive and gets no job.
DuplicateBackup(p) ==
    /\ p \in Serves /\ edits < MaxEdits
    /\ \E b, copy \in Backups :
         /\ row[b] # None /\ row[copy] = None
         /\ row' = [row EXCEPT ![copy] = [row[b] EXCEPT !.active = FALSE]]
    /\ edits' = edits + 1
    /\ dirty' = Pods
    /\ UNCHANGED <<queued, jobs, edit, sync, faults>>

DeleteBackup(p) ==
    /\ \E b \in Backups :
         /\ row[b] # None
         /\ Begin(p, [op |-> "delete", backup |-> b, row |-> None])
         /\ SetJob(p, b, None)
    /\ dirty' = dirty \cup {p}
    /\ UNCHANGED <<row, queued, sync, faults>>

\* The row goes, and its executions with it.
DeleteRow(p) ==
    /\ edit[p].op = "delete"
    /\ row' = [row EXCEPT ![edit[p].backup] = Gone]
    /\ queued' = queued \ {edit[p].backup}
    /\ edit' = [edit EXCEPT ![p] = NoEdit]
    /\ dirty' = Pods
    /\ UNCHANGED <<jobs, sync, bounds>>

\* A database or a destination is deleted: its backups go, no job is touched.
DeleteCascade(b) ==
    /\ row[b] # None /\ edits < MaxEdits
    /\ row' = [row EXCEPT ![b] = Gone]
    /\ queued' = queued \ {b}
    /\ edits' = edits + 1
    /\ dirty' = Pods
    /\ UNCHANGED <<jobs, edit, sync, faults>>

\* jobRemove, the first half of jobUpsert too.
EditRemovesJob(p) ==
    /\ edit[p].op = "save"
    /\ SetJob(p, edit[p].backup, None)
    /\ edit' = [edit EXCEPT ![p].op = "add"]
    /\ dirty' = dirty \cup {p}
    /\ UNCHANGED <<row, queued, sync, bounds>>

EditAddsJob(p) ==
    /\ edit[p].op = "add"
    /\ IF Wanted(edit[p].row) = None THEN UNCHANGED jobs
       ELSE SetJob(p, edit[p].backup, Wanted(edit[p].row))
    /\ edit' = [edit EXCEPT ![p] = NoEdit]
    /\ dirty' = dirty \cup {p}
    /\ UNCHANGED <<row, queued, sync, bounds>>

-----------------------------------------------------------------------------
(* ScheduleAll, one at a time in each pod *)

Read(p) ==
    /\ p \in Syncs
    /\ ~sync[p].running
    /\ sync' = [sync EXCEPT ![p] = [rows |-> row, now |-> None, running |-> TRUE,
                                    left |-> {b \in Backups : row[b] # None}]]
    /\ dirty' = dirty \ {p}
    /\ UNCHANGED <<row, queued, jobs, edit, bounds>>

MutLookedAt(p) == {b \in sync[p].left : sync[p].rows[b].active}  \* active ones only
MutScheduled(p) == {b \in sync[p].left : jobs[p][b] = None}     \* new ones only
LookedAt(p) == sync[p].left

SyncRemovesJob(p) ==
    /\ sync[p].now = None
    /\ \E b \in LookedAt(p) :
         /\ SetJob(p, b, None)
         /\ sync' = [sync EXCEPT
                       ![p].left = @ \ {b},
                       ![p].now = IF sync[p].rows[b].active THEN b ELSE None]
    /\ UNCHANGED <<row, queued, edit, dirty, bounds>>

SyncAddsJob(p) ==
    /\ sync[p].now # None
    /\ SetJob(p, sync[p].now, sync[p].rows[sync[p].now].cron)
    /\ sync' = [sync EXCEPT ![p].now = None]
    /\ UNCHANGED <<row, queued, edit, dirty, bounds>>

Fault ==
    /\ faults < MaxFaults
    /\ faults' = faults + 1
    /\ UNCHANGED edits

\* The scheduler does not take the job; the error is logged.
SyncAddFails(p) ==
    /\ sync[p].now # None
    /\ Fault
    /\ sync' = [sync EXCEPT ![p].now = None]
    /\ dirty' = dirty \cup {p}
    /\ UNCHANGED <<row, queued, jobs, edit>>

EndSync(p) ==
    /\ sync[p].running /\ LookedAt(p) = {} /\ sync[p].now = None
    /\ sync' = [sync EXCEPT ![p] = NoSync]
    /\ UNCHANGED <<row, queued, jobs, edit, dirty, bounds>>

-----------------------------------------------------------------------------

\* A pod restarts with an empty scheduler; what it was doing is lost.
Restart(p) ==
    /\ Fault
    /\ jobs' = [jobs EXCEPT ![p] = [b \in Backups |-> None]]
    /\ edit' = [edit EXCEPT ![p] = NoEdit]
    /\ sync' = [sync EXCEPT ![p] = NoSync]
    /\ dirty' = dirty \cup {p}
    /\ UNCHANGED <<row, queued>>

\* The task of a job: EnqueueExecution.  The insert fails without the backup's
\* row, or next to an active execution.
Fire(p, b) ==
    /\ jobs[p][b] # None
    /\ row[b] # None /\ b \notin queued
    /\ queued' = queued \cup {b}
    /\ UNCHANGED <<row, jobs, edit, sync, dirty, bounds>>

\* Workers run the execution to its end.
Finish(b) ==
    /\ b \in queued
    /\ queued' = queued \ {b}
    /\ UNCHANGED <<row, jobs, edit, sync, dirty, bounds>>

Edit(p) == DeleteRow(p) \/ EditRemovesJob(p) \/ EditAddsJob(p)

ScheduleAll(p) == Read(p) \/ SyncRemovesJob(p) \/ SyncAddsJob(p) \/ EndSync(p)

Next ==
    \/ \E p \in Pods :
         \/ CreateBackup(p) \/ UpdateBackup(p) \/ DuplicateBackup(p) \/ DeleteBackup(p)
         \/ Edit(p) \/ ScheduleAll(p) \/ SyncAddFails(p) \/ Restart(p)
         \/ \E b \in Backups : Fire(p, b)
    \/ \E b \in Backups : DeleteCascade(b) \/ Finish(b)

Spec == Init /\ [][Next]_vars

\* Requests end, and the scheduler runs the re-sync again and again.
FairSpec ==
    /\ Spec
    /\ \A p \in Pods : WF_vars(Edit(p)) /\ WF_vars(ScheduleAll(p))

-----------------------------------------------------------------------------

Follows(p) == \A b \in Backups : row[b] # None => jobs[p][b] = Wanted(row[b])

\* A re-sync that nothing interfered with leaves the pod with the job each
\* backup of the table should have, whatever state it was in before.
SyncIsExact ==
    [][\A p \in Pods : sync[p].running /\ sync'[p] = NoSync /\ p \notin dirty' =>
          Follows(p)]_vars

\* Once the changes are over, each pod with a re-sync has the right jobs, except
\* for the moment a re-sync takes to replace one: a disabled backup has none.
Settled(p) ==
    \A b \in Backups :
        row[b] # None =>
            \/ jobs[p][b] = Wanted(row[b])
            \/ jobs[p][b] = None /\ sync[p].now = b
WorkersSettle == \A p \in Syncs : <>[]Settled(p)
=============================================================================
