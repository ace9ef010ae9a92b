-------------------------- MODULE RestorationQueue --------------------------
(***************************************************************************)
(* The queue of restorations: the rows of the table `restorations`, the    *)
(* requests that enqueue a restore or an owner fix of a target database,   *)
(* the worker slots that claim them, drop and recreate the target, replay  *)
(* the dump of an execution into it and hand it to its owner, next to the  *)
(* reaper, the purge, and the deletion of executions, whose restorations   *)
(* go with them.                                                           *)
(*                                                                         *)
(* The slots serve the queue of executions too, and try it first.  Of that *)
(* queue (ExecutionQueue) this module has the tags of the rows that wait.  *)
(*                                                                         *)
(* One SQL statement on pgwarden's database, and one psql run on a target, *)
(* is one step; the replay of a dump is two, its start and its end.        *)
(***************************************************************************)
EXTENDS Naturals

CONSTANTS
    Restores,    \* ids a restoration row can get; each is used at most once
    Targets,     \* target databases (host:port-database, the row's target name)
    TargetOf,    \* the target an id restores
    OwnerFixes,  \* ids whose operation is fix_owner; the others restore
    Owned,       \* targets whose preset names an owner
    Dumps,       \* the executions restored from
    LocalDumps,  \* those of backups with is_local = TRUE; the others are in S3
    Expiring,    \* executions that may be soft-deleted while the system runs
    Cascading,   \* executions whose row may be removed, by a purge or with its backup
    Backlog,     \* tags of executions that may be queued
    Workers,     \* worker slots, each in a pod of its own
    Callers,     \* concurrent calls of StartRestore or FixOwner
    None,        \* no restoration, no execution, no heartbeat yet
    PresetTag,   \* the tag a target carries in the restore presets
    DefaultTag,  \* "default"
    Serves,      \* a worker's tags (PBW_WORKER_TAGS)
    AllRole,     \* workers whose pod runs with PBW_ROLE=all
    StaleAfter,  \* reapStaleAfter, in heartbeat intervals
    Faults,      \* which calls may fail: "claim", "beat", "report"
    Purging,     \* the purge of old restorations runs
    MaxCrashes   \* bound on pod crashes

Tags == {DefaultTag} \cup {PresetTag[t] : t \in Targets}

ASSUME ConstantsOK ==
    /\ TargetOf \in [Restores -> Targets]
    /\ OwnerFixes \subseteq Restores
    /\ Owned \subseteq Targets
    /\ LocalDumps \subseteq Dumps
    /\ Expiring \subseteq Dumps /\ Cascading \subseteq Dumps
    /\ Backlog \subseteq Tags
    /\ Serves \in [Workers -> SUBSET Tags]
    /\ AllRole \subseteq Workers
    /\ StaleAfter \in Nat \ {0}
    /\ Purging \in BOOLEAN
    /\ MaxCrashes \in Nat
    /\ None \notin Restores /\ None \notin Dumps /\ None \notin Nat

\* PBW_ROLE=all is the single-process deployment.
ASSUME AllRoleAlone == AllRole # {} => \A v, w \in Workers : v = w

VARIABLES
    status,  \* restorations.status; "none" before the INSERT, "gone" after the DELETE
    tag,     \* restorations.tag
    dump,    \* the execution a request has resolved, then restorations.execution_id
    before,  \* the rows inserted before this one (started_at order)
    beat,    \* age of restorations.heartbeat_at in intervals, None when NULL
    exec,    \* the execution row of a dump: "success", "deleted" or "gone"
    stored,  \* the dump itself is in its destination
    data,    \* what a target database holds
    by,      \* the restorations whose statements it holds
    owned,   \* it belongs to the preset's owner, with all in it that an owner change is for
    waiting, \* the tags of the executions that are queued
    asked,   \* the row a StartRestore or FixOwner call is about to insert
    pc,      \* where a worker slot is
    job,     \* the restoration it has claimed
    due,     \* its heartbeat ticker has fired
    crashes  \* number of pod crashes so far

rows      == <<status, tag, dump, before, beat>>
dumps     == <<exec, stored>>
databases == <<data, by, owned>>
slots     == <<pc, job, due>>
vars      == <<rows, dumps, databases, waiting, asked, slots, crashes>>

Busy == {"check", "locate", "drop", "create", "test", "open", "replay", "owner",
         "succeed", "fail"}
Settled == {"success", "failed", "gone"}

TypeOK ==
    /\ status \in [Restores -> {"none", "queued", "running"} \cup Settled]
    /\ tag \in [Restores -> Tags]
    /\ dump \in [Restores -> Dumps \cup {None}]
    /\ before \in [Restores -> SUBSET Restores]
    /\ beat \in [Restores -> Nat \cup {None}]
    /\ exec \in [Dumps -> {"success", "deleted", "gone"}]
    /\ stored \in [Dumps -> BOOLEAN]
    /\ data \in [Targets -> {"old", "none", "empty", "partial", "full"}]
    /\ by \in [Targets -> SUBSET Restores]
    /\ owned \in [Targets -> BOOLEAN]
    /\ waiting \subseteq Backlog
    /\ asked \in [Callers -> Restores \cup {None}]
    /\ pc \in [Workers -> {"idle", "restorations", "execution", "down"} \cup Busy]
    /\ job \in [Workers -> Restores \cup {None}]
    /\ due \in [Workers -> BOOLEAN]
    /\ crashes \in Nat

\* The dump of a successful execution may be missing: a deletion that ended
\* after it removed the file leaves the row as it was.
Init ==
    /\ status = [r \in Restores |-> "none"]
    /\ tag = [r \in Restores |-> DefaultTag]
    /\ dump = [r \in Restores |-> None]
    /\ before = [r \in Restores |-> {}]
    /\ beat = [r \in Restores |-> None]
    /\ exec = [e \in Dumps |-> "success"]
    /\ stored \in [Dumps -> BOOLEAN]
    /\ data = [t \in Targets |-> "old"]
    /\ by = [t \in Targets |-> {}]
    /\ owned \in [Targets -> BOOLEAN]
    /\ waiting = {}
    /\ asked = [c \in Callers |-> None]
    /\ pc = [w \in Workers |-> "idle"]
    /\ job = [w \in Workers |-> None]
    /\ due = [w \in Workers |-> FALSE]
    /\ crashes = 0

-----------------------------------------------------------------------------
\* The rows.

Exists(r) == status[r] \notin {"none", "gone"}

\* A row covered by the partial unique index restorations_one_active_per_target_uidx.
Active(r) == status[r] \in {"queued", "running"}

MutIndexAllows(t) == TRUE     \* no unique index
IndexAllows(t) == ~ \E r \in Restores : TargetOf[r] = t /\ Active(r)

\* StartRestore and FixOwner up to the insert: the preset's source has a
\* successful execution, and the target's host answers.
StartRestore(c, r, e) ==
    /\ asked[c] = None
    /\ status[r] = "none"
    /\ \A d \in Callers : asked[d] # r
    /\ exec[e] = "success"
    /\ asked' = [asked EXCEPT ![c] = r]
    /\ dump' = [dump EXCEPT ![r] = e]
    /\ UNCHANGED <<status, tag, before, beat, dumps, databases, slots, waiting, crashes>>

\* The tag the row gets.  The presets are parsed into targets without their
\* tag, and an empty tag is stored as the default one.
TagStored(t) == DefaultTag

\* EnqueueRestoration: the INSERT meets the unique index and the foreign key;
\* either violation ends the request without a row.
EnqueueRestoration(c) ==
    LET r == asked[c] IN
    /\ r # None
    /\ asked' = [asked EXCEPT ![c] = None]
    /\ \/ /\ exec[dump[r]] # "gone" /\ IndexAllows(TargetOf[r])
          /\ status' = [status EXCEPT ![r] = "queued"]
          /\ tag' = [tag EXCEPT ![r] = TagStored(TargetOf[r])]
          /\ before' = [before EXCEPT ![r] = {x \in Restores : status[x] # "none"}]
          /\ UNCHANGED <<dump, beat>>
       \/ /\ exec[dump[r]] = "gone" \/ ~IndexAllows(TargetOf[r])
          /\ UNCHANGED rows
    /\ UNCHANGED <<dumps, databases, slots, waiting, crashes>>

\* Mutants: a failed row is picked up again; every tag has to match.
MutClaimFailed(w, r) == status[r] \in {"queued", "failed"} /\ tag[r] \in Serves[w]
MutAllTags(w, r) == status[r] = "queued" /\ Serves[w] = {tag[r]}
Claimable(w, r) == status[r] = "queued" /\ tag[r] \in Serves[w]

\* claimLoop: a slot asks for an execution first, and only when there is none for
\* it, or the answer is an error, for a restoration.
ClaimExecution(w) ==
    /\ pc[w] = "idle"
    /\ \E t \in waiting \cap Serves[w] : waiting' \in {waiting, waiting \ {t}}
    /\ pc' = [pc EXCEPT ![w] = "execution"]
    /\ UNCHANGED <<rows, dumps, databases, asked, job, due, crashes>>

EndExecution(w) ==
    /\ pc[w] = "execution"
    /\ pc' = [pc EXCEPT ![w] = "idle"]
    /\ UNCHANGED <<rows, dumps, databases, asked, job, due, waiting, crashes>>

NoExecution(w) ==
    /\ pc[w] = "idle"
    /\ waiting \cap Serves[w] = {} \/ "claim" \in Faults
    /\ pc' = [pc EXCEPT ![w] = "restorations"]
    /\ UNCHANGED <<rows, dumps, databases, asked, job, due, waiting, crashes>>

\* Executions are queued, and go with their backups; other pods take them too.
BacklogChanges(S) ==
    /\ S # waiting
    /\ waiting' = S
    /\ UNCHANGED <<rows, dumps, databases, asked, slots, crashes>>

Oldest(w, r) == \A x \in before[r] : ~Claimable(w, x)

\* The columns the claim sets.
MutClaimUnmarked(r) ==        \* a SELECT without the UPDATE
    /\ status' = status /\ beat' = [beat EXCEPT ![r] = 0]
StampClaim(r) ==
    /\ status' = [status EXCEPT ![r] = "running"]
    /\ beat' = [beat EXCEPT ![r] = 0]

ClaimRestoration(w, r) ==
    /\ pc[w] = "restorations"
    /\ Claimable(w, r)
    /\ Oldest(w, r)
    /\ StampClaim(r)
    /\ pc' = [pc EXCEPT ![w] = "check"]
    /\ job' = [job EXCEPT ![w] = r]
    /\ UNCHANGED <<tag, dump, before, dumps, databases, asked, due, waiting, crashes>>

\* The slot sleeps and starts again with the executions.
NoRestoration(w) ==
    /\ pc[w] = "restorations"
    /\ (\A r \in Restores : ~Claimable(w, r)) \/ "claim" \in Faults
    /\ pc' = [pc EXCEPT ![w] = "idle"]
    /\ UNCHANGED <<rows, dumps, databases, asked, job, due, waiting, crashes>>

-----------------------------------------------------------------------------
\* RunClaimedRestoration: RunRestoration or runFixOwnerTask.

Goto(w, l) == pc' = [pc EXCEPT ![w] = l]

\* The target and the dump of the restoration a worker runs.
Tgt(w) == TargetOf[job[w]]
Src(w) == dump[job[w]]

\* GetExecution.  A restore wants a successful execution with a path, an owner
\* fix only the version its row leads to.
Readable(w) ==
    IF job[w] \in OwnerFixes THEN exec[Src(w)] # "gone" ELSE exec[Src(w)] = "success"

CheckExecution(w) ==
    /\ pc[w] = "check"
    /\ Readable(w)
    /\ Goto(w, IF job[w] \in OwnerFixes THEN "owner" ELSE "locate")
    /\ UNCHANGED <<rows, dumps, databases, asked, job, due, waiting, crashes>>

\* GetExecutionRestoreFile and, for S3, S3ObjectSize.
Located(w) ==
    /\ exec[Src(w)] # "gone"
    /\ Src(w) \notin LocalDumps => stored[Src(w)]

LocateDump(w) ==
    /\ pc[w] = "locate"
    /\ Located(w)
    /\ Goto(w, "drop")
    /\ UNCHANGED <<rows, dumps, databases, asked, job, due, waiting, crashes>>

\* PrepareTargetDatabase: every session on the target is ended and it is dropped.
DropTarget(w) ==
    /\ pc[w] = "drop"
    /\ Goto(w, "create")
    /\ data' = [data EXCEPT ![Tgt(w)] = "none"]
    /\ by' = [by EXCEPT ![Tgt(w)] = {}]
    /\ UNCHANGED <<rows, dumps, owned, asked, job, due, waiting, crashes>>

\* CREATE DATABASE ... OWNER: it fails when the database is there.
CreateTarget(w) ==
    /\ pc[w] = "create"
    /\ data[Tgt(w)] = "none"
    /\ Goto(w, "test")
    /\ data' = [data EXCEPT ![Tgt(w)] = "empty"]
    /\ owned' = [owned EXCEPT ![Tgt(w)] = TRUE]
    /\ UNCHANGED <<rows, dumps, by, asked, job, due, waiting, crashes>>

\* PGClient.Test connects to the target.
TestTarget(w) ==
    /\ pc[w] = "test"
    /\ data[Tgt(w)] # "none"
    /\ Goto(w, "open")
    /\ UNCHANGED <<rows, dumps, databases, asked, job, due, waiting, crashes>>

\* The archive is opened and psql starts to replay it, as the user of the
\* connection.
StartReplay(w) ==
    /\ pc[w] = "open"
    /\ stored[Src(w)]
    /\ data[Tgt(w)] # "none"
    /\ Goto(w, "replay")
    /\ data' = [data EXCEPT ![Tgt(w)] = "partial"]
    /\ by' = [by EXCEPT ![Tgt(w)] = @ \cup {job[w]}]
    /\ owned' = [owned EXCEPT ![Tgt(w)] = FALSE]
    /\ UNCHANGED <<rows, dumps, asked, job, due, waiting, crashes>>

\* The replay is complete, on a connection nobody has terminated.  The owner
\* comes next if the preset names one.
AfterReplay(w) == IF Tgt(w) \in Owned THEN "owner" ELSE "succeed"

EndReplay(w) ==
    /\ pc[w] = "replay"
    /\ job[w] \in by[Tgt(w)]
    /\ Goto(w, AfterReplay(w))
    /\ data' = [data EXCEPT ![Tgt(w)] = "full"]
    /\ UNCHANGED <<rows, dumps, by, owned, asked, job, due, waiting, crashes>>

\* The database, and what it holds of the kinds the script lists: schemas,
\* relations, composite types, domains and routines.
ReassignDatabaseOwner(w) ==
    /\ pc[w] = "owner"
    /\ data[Tgt(w)] # "none"
    /\ Goto(w, "succeed")
    /\ owned' = [owned EXCEPT ![Tgt(w)] = TRUE]
    /\ UNCHANGED <<rows, dumps, data, by, asked, job, due, waiting, crashes>>

\* Any of these calls may fail.  ON_ERROR_STOP leaves what was replayed so far.
MutAfterError(w) == "succeed" \* the error of psql is not looked at
AfterError(w) == "fail"

StepFails(w) ==
    /\ pc[w] \in Busy \ {"succeed", "fail"}
    /\ Goto(w, AfterError(w))
    /\ UNCHANGED <<rows, dumps, databases, asked, job, due, waiting, crashes>>

\* The slot is free again and its heartbeat goroutine stopped.
Release(w) ==
    /\ Goto(w, "idle")
    /\ job' = [job EXCEPT ![w] = None]
    /\ due' = [due EXCEPT ![w] = FALSE]

\* RestorationsServiceUpdateRestoration: unconditional, by id; no row, no effect.
UpdateRestoration(r, to) ==
    status' = IF Exists(r) THEN [status EXCEPT ![r] = to] ELSE status

RecordSuccess(w) ==
    /\ pc[w] = "succeed"
    /\ UpdateRestoration(job[w], "success")
    /\ Release(w)
    /\ UNCHANGED <<tag, dump, before, beat, dumps, databases, asked, waiting, crashes>>

RecordFailure(w) ==
    /\ pc[w] = "fail"
    /\ UpdateRestoration(job[w], "failed")
    /\ Release(w)
    /\ UNCHANGED <<tag, dump, before, beat, dumps, databases, asked, waiting, crashes>>

\* A failed final update is swallowed.
ReportLost(w) ==
    /\ "report" \in Faults
    /\ pc[w] \in {"succeed", "fail"}
    /\ Release(w)
    /\ UNCHANGED <<rows, dumps, databases, asked, waiting, crashes>>

-----------------------------------------------------------------------------
\* Heartbeats, the reaper, pod crashes.

\* A heartbeat interval passes.  Every attempt of the previous interval is over.
Tick ==
    /\ \A w \in Workers : ~due[w]
    /\ beat' = [r \in Restores |->
                  IF status[r] = "running" /\ beat[r] # None /\ beat[r] <= StaleAfter
                    THEN beat[r] + 1 ELSE beat[r]]
    /\ due' = [w \in Workers |-> pc[w] \in Busy]
    /\ UNCHANGED <<status, tag, dump, before, dumps, databases, asked, pc, job, waiting, crashes>>

HeartbeatRestoration(w) ==
    /\ due[w]
    /\ due' = [due EXCEPT ![w] = FALSE]
    /\ beat' = IF status[job[w]] = "running" THEN [beat EXCEPT ![job[w]] = 0] ELSE beat
    /\ UNCHANGED <<status, tag, dump, before, dumps, databases, asked, pc, job, waiting, crashes>>

HeartbeatLost(w) ==
    /\ "beat" \in Faults
    /\ due[w]
    /\ due' = [due EXCEPT ![w] = FALSE]
    /\ UNCHANGED <<rows, dumps, databases, asked, pc, job, waiting, crashes>>

MutStale(r) == status[r] = "running" /\ beat[r] # None /\ beat[r] >= StaleAfter  \* too early
Stale(r) == status[r] = "running" /\ beat[r] # None /\ beat[r] > StaleAfter

ReapStaleRestorations(w) ==
    /\ pc[w] # "down"
    /\ \E r \in Restores : Stale(r)
    /\ status' = [r \in Restores |-> IF Stale(r) THEN "failed" ELSE status[r]]
    /\ UNCHANGED <<tag, dump, before, beat, dumps, databases, asked, slots, waiting, crashes>>

\* The pod dies: psql loses its connection and stops where it is.
Crash(w) ==
    /\ pc[w] # "down"
    /\ crashes < MaxCrashes
    /\ crashes' = crashes + 1
    /\ Goto(w, "down")
    /\ job' = [job EXCEPT ![w] = None]
    /\ due' = [due EXCEPT ![w] = FALSE]
    /\ UNCHANGED <<rows, dumps, databases, waiting, asked>>

\* The pod starts.  With PBW_ROLE=all, service.New runs MarkStaleRestorations first.
Restart(w) ==
    /\ pc[w] = "down"
    /\ Goto(w, "idle")
    /\ status' = [r \in Restores |->
                    IF w \in AllRole /\ status[r] = "running" THEN "failed" ELSE status[r]]
    /\ UNCHANGED <<tag, dump, before, beat, dumps, databases, asked, job, due, waiting, crashes>>

-----------------------------------------------------------------------------
\* Deletion.

\* HousekeepRestorations: whatever is not running and old enough goes.  Age is
\* left open, so any such row may be old enough.
Purgeable(r) == status[r] \in {"queued", "success", "failed"}

PurgeOldRestorations(r) ==
    /\ Purging
    /\ Purgeable(r)
    /\ status' = [status EXCEPT ![r] = "gone"]
    /\ UNCHANGED <<tag, dump, before, beat, dumps, databases, asked, slots, waiting, crashes>>

\* SoftDeleteExecution: the dump goes first, then the row is marked.
EraseDump(e) ==
    /\ e \in Expiring
    /\ exec[e] = "success" /\ stored[e]
    /\ stored' = [stored EXCEPT ![e] = FALSE]
    /\ UNCHANGED <<rows, exec, databases, asked, slots, waiting, crashes>>

MarkDumpDeleted(e) ==
    /\ e \in Expiring
    /\ exec[e] = "success" /\ ~stored[e]
    /\ exec' = [exec EXCEPT ![e] = "deleted"]
    /\ UNCHANGED <<rows, stored, databases, asked, slots, waiting, crashes>>

\* The row goes, by the purge of deleted executions or with its backup, and its
\* restorations with it (ON DELETE CASCADE).
RemoveExecution(e) ==
    /\ e \in Cascading
    /\ exec[e] # "gone"
    /\ exec' = [exec EXCEPT ![e] = "gone"]
    /\ status' = [r \in Restores |->
                    IF dump[r] = e /\ Exists(r) THEN "gone" ELSE status[r]]
    /\ UNCHANGED <<tag, dump, before, beat, stored, databases, asked, slots, waiting, crashes>>

-----------------------------------------------------------------------------

Work(w) ==
    \/ CheckExecution(w) \/ LocateDump(w) \/ DropTarget(w) \/ CreateTarget(w)
    \/ TestTarget(w) \/ StartReplay(w) \/ EndReplay(w) \/ ReassignDatabaseOwner(w)
    \/ StepFails(w) \/ RecordSuccess(w) \/ RecordFailure(w) \/ ReportLost(w)

Claim(w) == \E r \in Restores : ClaimRestoration(w, r)

\* What a slot does besides running a restoration.
Loop(w) == ClaimExecution(w) \/ EndExecution(w) \/ NoExecution(w) \/ NoRestoration(w)

Beat(w) == HeartbeatRestoration(w) \/ HeartbeatLost(w)

Next ==
    \/ \E c \in Callers : \/ EnqueueRestoration(c)
                          \/ \E r \in Restores, e \in Dumps : StartRestore(c, r, e)
    \/ \E S \in SUBSET Backlog : BacklogChanges(S)
    \/ \E w \in Workers : \/ Loop(w) \/ Claim(w) \/ Work(w) \/ Beat(w)
                          \/ ReapStaleRestorations(w) \/ Crash(w) \/ Restart(w)
    \/ Tick
    \/ \E r \in Restores : PurgeOldRestorations(r)
    \/ \E e \in Dumps : EraseDump(e) \/ MarkDumpDeleted(e) \/ RemoveExecution(e)

Spec == Init /\ [][Next]_vars

\* Every loop of a worker pod keeps running, its calls return, time passes, and
\* a crashed pod is started again.  What the claim loop comes to is up to the queues.
Fairness ==
    /\ WF_vars(Tick)
    /\ \A w \in Workers : /\ WF_vars(Loop(w) \/ Claim(w))
                          /\ WF_vars(Work(w))
                          /\ WF_vars(Beat(w))
                          /\ WF_vars(ReapStaleRestorations(w))
                          /\ WF_vars(Restart(w))

FairSpec == Spec /\ Fairness

-----------------------------------------------------------------------------
\* Properties.

\* At most one restoration of a target is queued or running, whichever requests
\* race and whatever workers report late.
OneActivePerTarget ==
    \A r, s \in Restores : Active(r) /\ Active(s) /\ TargetOf[r] = TargetOf[s] => r = s

\* No two workers act on the same target (migration 20260708110000: "at most one
\* running restoration per target database ... parallel restores would race on
\* DROP/CREATE DATABASE").  It needs every heartbeat and every row: a job whose
\* row was reaped or deleted no longer guards its target.
OneRestorerPerTarget ==
    \A v, w \in Workers : job[v] # None /\ job[w] # None /\ Tgt(v) = Tgt(w) => v = w

\* A restoration is recorded as successful only when the target holds its dump,
\* all of it and nothing else, in the hands of the configured owner: not when the
\* dump was deleted after the checks, the target being dropped by then.
SuccessMeansRestored ==
    [][\A r \in Restores :
          status[r] # "success" /\ status'[r] = "success" =>
             LET t == TargetOf[r] IN
             /\ r \notin OwnerFixes => data[t] = "full" /\ by[t] = {r}
             /\ r \in OwnerFixes \/ t \in Owned => owned[t]]_vars

\* A later restore of the same target has been claimed.
Superseded(r) ==
    \E x \in Restores \ OwnerFixes :
        r \in before[x] /\ TargetOf[x] = TargetOf[r] /\ beat[x] # None

\* What a success says of the target stays true until the next restore of it is
\* claimed: no worker that was given up for dead drops or refills it afterwards.
RestoredStays ==
    \A r \in Restores \ OwnerFixes :
        status[r] = "success" =>
            Superseded(r) \/ (data[TargetOf[r]] = "full" /\ by[TargetOf[r]] = {r})

\* A settled restoration is never queued or run again.
NeverReactivated ==
    [][\A r \in Restores :
          status[r] \in Settled => status'[r] \notin {"none", "queued", "running"}]_vars

\* A queued restoration does not wait for ever while some worker serves its tag, if
\* executions do not either: as long as these go on to be queued, the slots may
\* never come to the restorations (claimLoop).
QueuedIsServed ==
    <>[](waiting = {}) => \A r \in Restores : status[r] = "queued" ~> status[r] # "queued"

\* The queue implements one slot per target.
ActiveOf(t) == {r \in Restores : TargetOf[r] = t /\ Active(r)}
SlotOf == [t \in Targets |-> IF ActiveOf(t) = {} THEN None ELSE CHOOSE r \in ActiveOf(t) : TRUE]
Born == {r \in Restores : status[r] # "none"}

Slots == INSTANCE JobSlots WITH
            Resources <- Targets, Jobs <- Restores, ResourceOf <- TargetOf, Free <- None,
            slot <- SlotOf, used <- Born

SlotsSpec == Slots!Spec
=============================================================================
