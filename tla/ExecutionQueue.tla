--------------------------- MODULE ExecutionQueue ---------------------------
(***************************************************************************)
(* The queue of backup executions: the rows of the table `executions`, the *)
(* callers that enqueue them, the worker slots that claim and run them,    *)
(* the heartbeats and the reaper, the stored dump of each execution, and   *)
(* the housekeeping that deletes dumps and rows.                           *)
(*                                                                         *)
(* One SQL statement is one step.  Everything between two statements (a    *)
(* dump, an upload, the deletion of a stored file) is a step of its own,   *)
(* so that every other process may act in between.                         *)
(***************************************************************************)
EXTENDS Naturals

CONSTANTS
    Backups,     \* backup definitions (rows of `backups`)
    Execs,       \* ids an execution row can get; each is used at most once
    Workers,     \* worker slots, each in a pod of its own
    Callers,     \* concurrent calls of EnqueueExecution: cron, "Run now", "Retry"
    Cleaners,    \* concurrent calls of SoftDeleteExecution: housekeeping, UI
    None,        \* no execution, no backup, no heartbeat yet
    BackupOf,    \* the backup an execution id belongs to
    Serves,      \* the backups whose tag is among a worker's tags
    LocalBackups,\* backups with is_local = TRUE; the others are stored in S3
    Deletable,   \* backups an administrator may delete
    AllRole,     \* workers whose pod runs with PBW_ROLE=all
    StaleAfter,  \* reapStaleAfter, in heartbeat intervals
    Faults,      \* which calls may fail: "beat", "report"
    MaxMishaps   \* bound on pod crashes and on calls that fail

ASSUME ConstantsOK ==
    /\ BackupOf \in [Execs -> Backups]
    /\ Serves \in [Workers -> SUBSET Backups]
    /\ LocalBackups \subseteq Backups
    /\ Deletable \subseteq Backups
    /\ AllRole \subseteq Workers
    /\ StaleAfter \in Nat \ {0}
    /\ MaxMishaps \in Nat
    /\ None \notin Execs /\ None \notin Backups /\ None \notin Nat

\* PBW_ROLE=all is the single-process deployment.
ASSUME AllRoleAlone == AllRole # {} => \A v, w \in Workers : v = w

VARIABLES
    backups,     \* the rows of `backups` that exist
    status,      \* executions.status; "none" before the INSERT, "gone" after the DELETE
    softDeleted, \* executions.deleted_at IS NOT NULL
    path,        \* executions.path IS NOT NULL
    before,      \* the rows inserted before this one (started_at order)
    beat,        \* age of executions.heartbeat_at in intervals, None when NULL
    stored,      \* the dump object of the execution in its destination
    ask,         \* the backup an EnqueueExecution call is about to insert for
    pc,          \* where a worker slot is
    job,         \* the execution a worker slot has claimed
    due,         \* the worker's heartbeat ticker has fired
    delPc,       \* where a SoftDeleteExecution call is
    delExec,     \* the execution it deletes
    delPath,     \* the path column it has read
    erased,      \* history: executions whose dump a cleaner removed
    mishaps      \* number of pod crashes and failed calls so far

rows    == <<status, softDeleted, path, before, beat>>
slots   == <<pc, job, due>>
deletes == <<delPc, delExec, delPath>>
vars    == <<backups, rows, stored, ask, slots, deletes, erased, mishaps>>

Busy     == {"prepare", "upload", "succeed", "fail", "failPath"}
Finished == {"success", "failed"}       \* finished_at IS NOT NULL, not deleted
Settled  == Finished \cup {"deleted", "gone"}

TypeOK ==
    /\ backups \in SUBSET Backups
    /\ status \in [Execs -> {"none", "queued", "running"} \cup Settled]
    /\ softDeleted \in [Execs -> BOOLEAN]
    /\ path \in [Execs -> BOOLEAN]
    /\ before \in [Execs -> SUBSET Execs]
    /\ beat \in [Execs -> Nat \cup {None}]
    /\ stored \in [Execs -> {"none", "partial", "complete"}]
    /\ ask \in [Callers -> Backups \cup {None}]
    /\ pc \in [Workers -> {"idle", "down"} \cup Busy]
    /\ job \in [Workers -> Execs \cup {None}]
    /\ due \in [Workers -> BOOLEAN]
    /\ delPc \in [Cleaners -> {"idle", "listed", "file", "mark"}]
    /\ delExec \in [Cleaners -> Execs \cup {None}]
    /\ delPath \in [Cleaners -> BOOLEAN]
    /\ erased \in SUBSET Execs
    /\ mishaps \in Nat

Init ==
    /\ backups = Backups
    /\ status = [e \in Execs |-> "none"]
    /\ softDeleted = [e \in Execs |-> FALSE]
    /\ path = [e \in Execs |-> FALSE]
    /\ before = [e \in Execs |-> {}]
    /\ beat = [e \in Execs |-> None]
    /\ stored = [e \in Execs |-> "none"]
    /\ ask = [c \in Callers |-> None]
    /\ pc = [w \in Workers |-> "idle"]
    /\ job = [w \in Workers |-> None]
    /\ due = [w \in Workers |-> FALSE]
    /\ delPc = [d \in Cleaners |-> "idle"]
    /\ delExec = [d \in Cleaners |-> None]
    /\ delPath = [d \in Cleaners |-> FALSE]
    /\ erased = {}
    /\ mishaps = 0

\* A pod crashes, or a call fails: what a run counts and bounds.
Mishap == mishaps < MaxMishaps /\ mishaps' = mishaps + 1

-----------------------------------------------------------------------------
\* The rows.

Exists(e) == status[e] \notin {"none", "gone"}

\* A row covered by the partial unique index executions_one_active_per_backup_uidx.
Active(e) == status[e] \in {"queued", "running"} /\ ~softDeleted[e]

HasRunningExecution(b) == \E e \in Execs : BackupOf[e] = b /\ Active(e)

\* The INSERT of a queued row satisfies the unique index.
MutIndexAllows(b) == TRUE     \* no unique index
IndexAllows(b) == ~HasRunningExecution(b)

\* EnqueueExecution, first statement: the call goes on only when no execution
\* of the backup is queued or running.
CheckRunning(c, b) ==
    /\ ask[c] = None
    /\ b \in backups
    /\ ~HasRunningExecution(b)
    /\ ask' = [ask EXCEPT ![c] = b]
    /\ UNCHANGED <<backups, rows, stored, slots, deletes, erased, mishaps>>

\* EnqueueExecution, second statement.  The INSERT meets the unique index and
\* the foreign key; either violation ends the call without a row.
InsertQueued(c) ==
    /\ ask[c] # None
    /\ ask' = [ask EXCEPT ![c] = None]
    /\ \/ /\ ask[c] \in backups /\ IndexAllows(ask[c])
          /\ \E e \in Execs :
                /\ status[e] = "none" /\ BackupOf[e] = ask[c]
                /\ status' = [status EXCEPT ![e] = "queued"]
                /\ before' = [before EXCEPT ![e] = {x \in Execs : status[x] # "none"}]
          /\ UNCHANGED <<softDeleted, path, beat>>
       \/ /\ ask[c] \notin backups \/ ~IndexAllows(ask[c])
          /\ UNCHANGED rows
    /\ UNCHANGED <<backups, stored, slots, deletes, erased, mishaps>>

\* Mutant: a failed row is picked up again.
MutClaimFailed(w, e) ==
    status[e] \in {"queued", "failed"} /\ ~softDeleted[e] /\ BackupOf[e] \in Serves[w]

Claimable(w, e) ==
    status[e] = "queued" /\ ~softDeleted[e] /\ BackupOf[e] \in Serves[w]

Oldest(w, e) == \A x \in before[e] : ~Claimable(w, x)

\* The columns the claim sets.
MutClaimUnstamped(e) ==       \* heartbeat_at stays NULL
    /\ status' = [status EXCEPT ![e] = "running"] /\ beat' = beat
MutClaimUnmarked(e) ==        \* a SELECT without the UPDATE
    /\ status' = status /\ beat' = [beat EXCEPT ![e] = 0]
StampClaim(e) ==
    /\ status' = [status EXCEPT ![e] = "running"]
    /\ beat' = [beat EXCEPT ![e] = 0]

\* ClaimExecution: one statement takes the oldest queued row the worker's tags
\* cover and stamps it; the heartbeat goroutine starts with the job.
ClaimExecution(w, e) ==
    /\ pc[w] = "idle"
    /\ Claimable(w, e)
    /\ Oldest(w, e)
    /\ StampClaim(e)
    /\ pc' = [pc EXCEPT ![w] = "prepare"]
    /\ job' = [job EXCEPT ![w] = e]
    /\ UNCHANGED <<backups, softDeleted, path, before, stored, ask, due, deletes,
                   erased, mishaps>>

-----------------------------------------------------------------------------
\* RunClaimedExecution.

\* Reading the backup, testing the destination and the database, starting the
\* dump: every early return of the method records no path.
PrepareFails(w) ==
    /\ pc[w] = "prepare"
    /\ pc' = [pc EXCEPT ![w] = "fail"]
    /\ UNCHANGED <<backups, rows, stored, ask, job, due, deletes, erased, mishaps>>

\* The upload starts.  A local upload creates the file before any data is
\* copied; an S3 object appears only when its upload is complete.
StartUpload(w) ==
    /\ pc[w] = "prepare"
    /\ BackupOf[job[w]] \in backups
    /\ pc' = [pc EXCEPT ![w] = "upload"]
    /\ stored' = IF BackupOf[job[w]] \in LocalBackups
                   THEN [stored EXCEPT ![job[w]] = "partial"] ELSE stored
    /\ UNCHANGED <<backups, rows, ask, job, due, deletes, erased, mishaps>>

\* LocalUpload cannot create the directory or the file.
MutCreateFails(w) ==          \* its error is not returned
    /\ pc[w] = "prepare"
    /\ BackupOf[job[w]] \in backups \cap LocalBackups
    /\ pc' = [pc EXCEPT ![w] = "succeed"]
    /\ UNCHANGED <<backups, rows, stored, ask, job, due, deletes, erased, mishaps>>
CreateFails(w) ==
    /\ pc[w] = "prepare"
    /\ BackupOf[job[w]] \in backups \cap LocalBackups
    /\ pc' = [pc EXCEPT ![w] = "failPath"]
    /\ UNCHANGED <<backups, rows, stored, ask, job, due, deletes, erased, mishaps>>

UploadDone(w) ==
    /\ pc[w] = "upload"
    /\ pc' = [pc EXCEPT ![w] = "succeed"]
    /\ stored' = [stored EXCEPT ![job[w]] = "complete"]
    /\ UNCHANGED <<backups, rows, ask, job, due, deletes, erased, mishaps>>

\* The dump or the copy fails: a local file stays as far as it was written.
UploadFails(w) ==
    /\ pc[w] = "upload"
    /\ pc' = [pc EXCEPT ![w] = "failPath"]
    /\ UNCHANGED <<backups, rows, stored, ask, job, due, deletes, erased, mishaps>>

\* S3Upload: the object is there, but neither can its size be read nor can it
\* be deleted again.
SizeUnread(w) ==
    /\ pc[w] = "upload"
    /\ BackupOf[job[w]] \notin LocalBackups
    /\ pc' = [pc EXCEPT ![w] = "failPath"]
    /\ stored' = [stored EXCEPT ![job[w]] = "complete"]
    /\ UNCHANGED <<backups, rows, ask, job, due, deletes, erased, mishaps>>

\* The slot is free again and its heartbeat goroutine stopped.
Release(w) ==
    /\ pc' = [pc EXCEPT ![w] = "idle"]
    /\ job' = [job EXCEPT ![w] = None]
    /\ due' = [due EXCEPT ![w] = FALSE]

\* ExecutionsServiceUpdateExecution: unconditional, by id; no row, no effect.
UpdateExecution(e, to, withPath) ==
    /\ status' = IF Exists(e) THEN [status EXCEPT ![e] = to] ELSE status
    /\ path' = IF Exists(e) /\ withPath THEN [path EXCEPT ![e] = TRUE] ELSE path

RecordSuccess(w) ==
    /\ pc[w] = "succeed"
    /\ UpdateExecution(job[w], "success", TRUE)
    /\ Release(w)
    /\ UNCHANGED <<backups, softDeleted, before, beat, stored, ask, deletes, erased, mishaps>>

\* failExec: an upload that failed records the path it was writing to.
MutFailureHasPath(w) == FALSE
FailureHasPath(w) == pc[w] = "failPath"

RecordFailure(w) ==
    /\ pc[w] \in {"fail", "failPath"}
    /\ UpdateExecution(job[w], "failed", FailureHasPath(w))
    /\ Release(w)
    /\ UNCHANGED <<backups, softDeleted, before, beat, stored, ask, deletes, erased, mishaps>>

\* updateExec logs a failed final update and swallows it.
ReportLost(w) ==
    /\ "report" \in Faults
    /\ pc[w] \in {"succeed", "fail", "failPath"}
    /\ Mishap
    /\ Release(w)
    /\ UNCHANGED <<backups, rows, stored, ask, deletes, erased>>

-----------------------------------------------------------------------------
\* Heartbeats, the reaper, pod crashes.

\* A heartbeat interval passes.  Every attempt of the previous interval is over.
Tick ==
    /\ \A w \in Workers : ~due[w]
    /\ beat' = [e \in Execs |->
                  IF status[e] = "running" /\ beat[e] # None /\ beat[e] <= StaleAfter
                    THEN beat[e] + 1 ELSE beat[e]]
    /\ due' = [w \in Workers |-> pc[w] \in Busy]
    /\ UNCHANGED <<backups, status, softDeleted, path, before, stored, ask, pc, job,
                   deletes, erased, mishaps>>

HeartbeatExecution(w) ==
    /\ due[w]
    /\ due' = [due EXCEPT ![w] = FALSE]
    /\ beat' = IF status[job[w]] = "running" THEN [beat EXCEPT ![job[w]] = 0] ELSE beat
    /\ UNCHANGED <<backups, status, softDeleted, path, before, stored, ask, pc, job,
                   deletes, erased, mishaps>>

\* startHeartbeat logs a failed heartbeat and waits for the next tick.
HeartbeatLost(w) ==
    /\ "beat" \in Faults
    /\ due[w]
    /\ Mishap
    /\ due' = [due EXCEPT ![w] = FALSE]
    /\ UNCHANGED <<backups, rows, stored, ask, pc, job, deletes, erased>>

MutStale(e) ==                \* reapStaleAfter below the heartbeat interval
    status[e] = "running" /\ ~softDeleted[e] /\ beat[e] # None /\ beat[e] > 0
Stale(e) ==
    status[e] = "running" /\ ~softDeleted[e] /\ beat[e] # None /\ beat[e] > StaleAfter

\* ReapStaleExecutions, run by the reap loop of any living worker pod.
ReapStaleExecutions(w) ==
    /\ pc[w] # "down"
    /\ \E e \in Execs : Stale(e)
    /\ status' = [e \in Execs |-> IF Stale(e) THEN "failed" ELSE status[e]]
    /\ UNCHANGED <<backups, softDeleted, path, before, beat, stored, ask, slots, deletes,
                   erased, mishaps>>

Crash(w) ==
    /\ pc[w] # "down"
    /\ Mishap
    /\ pc' = [pc EXCEPT ![w] = "down"]
    /\ job' = [job EXCEPT ![w] = None]
    /\ due' = [due EXCEPT ![w] = FALSE]
    /\ UNCHANGED <<backups, rows, stored, ask, deletes, erased>>

\* The pod starts.  With PBW_ROLE=all, service.New runs MarkStaleExecutions first.
Restart(w) ==
    /\ pc[w] = "down"
    /\ pc' = [pc EXCEPT ![w] = "idle"]
    /\ status' = [e \in Execs |->
                    IF w \in AllRole /\ status[e] = "running" /\ ~softDeleted[e]
                      THEN "failed" ELSE status[e]]
    /\ UNCHANGED <<backups, softDeleted, path, before, beat, stored, ask, job, due, deletes,
                   erased, mishaps>>

-----------------------------------------------------------------------------
\* Deletion.

\* An execution is picked for deletion: by the list of expired executions, or
\* by an administrator looking at a successful one.
PickForDeletion(d, e) ==
    /\ delPc[d] = "idle"
    /\ status[e] \in Finished
    /\ delPc' = [delPc EXCEPT ![d] = "listed"]
    /\ delExec' = [delExec EXCEPT ![d] = e]
    /\ UNCHANGED <<backups, rows, stored, ask, slots, delPath, erased, mishaps>>

DeletionEnds(d) ==
    /\ delPc' = [delPc EXCEPT ![d] = "idle"]
    /\ delExec' = [delExec EXCEPT ![d] = None]
    /\ delPath' = [delPath EXCEPT ![d] = FALSE]

\* SoftDeleteExecution reads the row, whatever its status is by now.
ReadForSoftDelete(d) ==
    /\ delPc[d] = "listed"
    /\ \/ /\ Exists(delExec[d])
          /\ delPc' = [delPc EXCEPT ![d] = "file"]
          /\ delPath' = [delPath EXCEPT ![d] = path[delExec[d]]]
          /\ UNCHANGED delExec
       \/ /\ ~Exists(delExec[d])
          /\ DeletionEnds(d)
    /\ UNCHANGED <<backups, rows, stored, ask, slots, erased, mishaps>>

\* S3Delete succeeds on a missing object, LocalDelete fails on a missing file.
DeleteFile(d) ==
    LET e == delExec[d] IN
    /\ delPc[d] = "file"
    /\ \/ /\ ~delPath[d]
          /\ delPc' = [delPc EXCEPT ![d] = "mark"]
          /\ UNCHANGED <<stored, erased, delExec, delPath>>
       \/ /\ delPath[d]
          /\ BackupOf[e] \in LocalBackups => stored[e] # "none"
          /\ stored' = [stored EXCEPT ![e] = "none"]
          /\ erased' = erased \cup {e}
          /\ delPc' = [delPc EXCEPT ![d] = "mark"]
          /\ UNCHANGED <<delExec, delPath>>
       \/ /\ delPath[d]
          /\ BackupOf[e] \in LocalBackups /\ stored[e] = "none"
          /\ DeletionEnds(d)
          /\ UNCHANGED <<stored, erased>>
    /\ UNCHANGED <<backups, rows, ask, slots, mishaps>>

\* The UPDATE of SoftDeleteExecution.
MarkDeleted(d) ==
    LET e == delExec[d] IN
    /\ delPc[d] = "mark"
    /\ status' = IF Exists(e) THEN [status EXCEPT ![e] = "deleted"] ELSE status
    /\ softDeleted' = IF Exists(e) THEN [softDeleted EXCEPT ![e] = TRUE] ELSE softDeleted
    /\ DeletionEnds(d)
    /\ UNCHANGED <<backups, path, before, beat, stored, ask, slots, erased, mishaps>>

\* A storage or database error, or the end of the process, ends the call.
DeletionAborts(d) ==
    /\ delPc[d] # "idle"
    /\ DeletionEnds(d)
    /\ UNCHANGED <<backups, rows, stored, ask, slots, erased, mishaps>>

PurgeDeletedExecutions ==
    /\ \E e \in Execs : status[e] = "deleted"
    /\ status' = [e \in Execs |-> IF status[e] = "deleted" THEN "gone" ELSE status[e]]
    /\ UNCHANGED <<backups, softDeleted, path, before, beat, stored, ask, slots, deletes,
                   erased, mishaps>>

\* DeleteBackup: the rows of its executions go with it (ON DELETE CASCADE).
DeleteBackup(b) ==
    /\ b \in backups \cap Deletable
    /\ backups' = backups \ {b}
    /\ status' = [e \in Execs |->
                    IF BackupOf[e] = b /\ Exists(e) THEN "gone" ELSE status[e]]
    /\ UNCHANGED <<softDeleted, path, before, beat, stored, ask, slots, deletes, erased, mishaps>>

-----------------------------------------------------------------------------

Work(w) ==
    \/ PrepareFails(w) \/ StartUpload(w) \/ CreateFails(w)
    \/ UploadDone(w) \/ UploadFails(w) \/ SizeUnread(w)
    \/ RecordSuccess(w) \/ RecordFailure(w) \/ ReportLost(w)

Claim(w) == \E e \in Execs : ClaimExecution(w, e)

Beat(w) == HeartbeatExecution(w) \/ HeartbeatLost(w)

Delete(d) ==
    \/ \E e \in Execs : PickForDeletion(d, e)
    \/ ReadForSoftDelete(d) \/ DeleteFile(d) \/ MarkDeleted(d) \/ DeletionAborts(d)

Next ==
    \/ \E c \in Callers : InsertQueued(c) \/ \E b \in Backups : CheckRunning(c, b)
    \/ \E w \in Workers : \/ Claim(w) \/ Work(w) \/ Beat(w)
                          \/ ReapStaleExecutions(w) \/ Crash(w) \/ Restart(w)
    \/ Tick
    \/ \E d \in Cleaners : Delete(d)
    \/ PurgeDeletedExecutions
    \/ \E b \in Backups : DeleteBackup(b)

Spec == Init /\ [][Next]_vars

\* Every loop of a worker pod keeps running, its storage and database calls
\* return, time passes, and a crashed pod is started again.
Fairness ==
    /\ WF_vars(Tick)
    /\ \A w \in Workers : /\ WF_vars(Claim(w))
                          /\ WF_vars(Work(w))
                          /\ WF_vars(Beat(w))
                          /\ WF_vars(ReapStaleExecutions(w))
                          /\ WF_vars(Restart(w))

FairSpec == Spec /\ Fairness

-----------------------------------------------------------------------------
\* Properties.

\* At most one execution of a backup is queued or running, although the check
\* of EnqueueExecution and its INSERT are separate statements and cron fires in
\* every worker pod: the partial unique index is what holds it.
OneActivePerBackup ==
    \A e, f \in Execs :
        Active(e) /\ Active(f) /\ BackupOf[e] = BackupOf[f] => e = f

\* An execution is claimed by one worker slot only, even when pods poll at the
\* same time, crash, restart, or lose their job to the reaper.
OneRunnerPerExecution ==
    \A v, w \in Workers : job[v] = job[w] /\ job[v] # None => v = w

\* No two workers dump the same backup at a time.  It rests on the whole chain
\* of claim, heartbeat, reaper and index, and is lost as soon as heartbeats may
\* be: a job reaped under a living worker frees the index for the next one.
OneDumpPerBackup ==
    \A v, w \in Workers :
        job[v] # None /\ job[w] # None /\ BackupOf[job[v]] = BackupOf[job[w]] => v = w

\* A row that says success has its complete dump in storage, unless the
\* deletion of that dump has begun: what a restore relies on.
SuccessHasDump ==
    \A e \in Execs :
        status[e] = "success" => path[e] /\ (stored[e] = "complete" \/ e \in erased)

\* As long as no pod has crashed, no heartbeat or report was lost and no backup
\* was deleted, no stored dump is left that housekeeping cannot reach: its row
\* is finished and records the path.  SoftDeleteExecution removes the file
\* before it marks the row for this reason.
NoOrphanDump ==
    mishaps = 0 /\ backups = Backups =>
        \A e \in Execs :
            stored[e] # "none" =>
                \/ \E w \in Workers : job[w] = e
                \/ status[e] \in Finished /\ path[e]

\* A settled execution is never queued or run again: "Retry" makes a new row,
\* and the reaper, the housekeeping and late workers only move rows onwards.
NeverReactivated ==
    [][\A e \in Execs :
          status[e] \in Settled => status'[e] \notin {"none", "queued", "running"}]_vars

\* A running row is failed by its own worker or once no worker runs it (README:
\* the reaper only catches tasks whose worker process died).
ReapsOnlyTheDead ==
    [][\A e \in Execs :
          status[e] = "running" /\ status'[e] = "failed" =>
             \A w \in Workers :
                job[w] = e => pc[w] \in {"fail", "failPath"} /\ job'[w] = None]_vars

\* Every job settles while some worker serves its backup: a queued one does not
\* wait forever, and a running one is reaped by any pod when its worker crashed
\* or its final report was lost.
JobsSettle ==
    \A e \in Execs : status[e] \in {"queued", "running"} ~> status[e] \in Settled

\* The queue implements one slot per backup: the steps of enqueueing, claiming,
\* reaping, deleting and late reporting show as taking a free slot or leaving it.
ActiveOf(b) == {e \in Execs : BackupOf[e] = b /\ Active(e)}
SlotOf == [b \in Backups |-> IF ActiveOf(b) = {} THEN None ELSE CHOOSE e \in ActiveOf(b) : TRUE]
Born == {e \in Execs : status[e] # "none"}

Slots == INSTANCE JobSlots WITH
            Resources <- Backups, Jobs <- Execs, ResourceOf <- BackupOf, Free <- None,
            slot <- SlotOf, used <- Born

SlotsSpec == Slots!Spec
=============================================================================
