----------------------------- MODULE Discovery ------------------------------
(***************************************************************************)
(* Discovery runs: the mutex and flag of each process, the events by which *)
(* processes see each other's runs, and the databases and backups a run    *)
(* registers.  Every worker pod fires the weekly run by its own cron; the  *)
(* UI and the command `discover` start runs as well.                       *)
(*                                                                         *)
(* One SQL statement is one step.  beginRun holds runMu across its         *)
(* queries; Running releases it before the query and takes it again.       *)
(***************************************************************************)
EXTENDS Naturals

CONSTANTS
    Pods,        \* processes, each with a discovery.Service of its own
    Runs,        \* calls of Run; each id is used at most once
    Clusters,    \* ports of the configured hosts
    Dbs,         \* remote databases, by host, port and name
    ClusterOf,   \* the cluster a database is in
    None,        \* nobody holds runMu; no process; no database
    Window,      \* ticks after which a silent run counts as over (30 minutes)
    Faults,      \* which calls may fail: "log", "query", "step"
    MaxMishaps   \* bound on crashes and on deletions by an administrator

ASSUME DiscoveryConstants ==
    /\ ClusterOf \in [Dbs -> Clusters]
    /\ None \notin Pods \cup Runs \cup Dbs
    /\ Window \in Nat /\ Window > 1
    /\ MaxMishaps \in Nat

VARIABLES
    lock,        \* the run that holds runMu of a process
    runActive,   \* Service.runActive of each process
    pc,          \* where a run is
    pod,         \* the process it runs in
    log,         \* its events: "none", "open", or "closed" by scan_finished
    age,         \* ticks since its last stored event
    due,         \* it has to log something before the next tick
    lost,        \* history: runs that lost an event
    ports,       \* clusters found and not listed yet
    todo,        \* databases listed and not registered yet
    cur,         \* the database a run is registering
    registered,  \* rows of `databases`, by name (unique)
    copies,      \* number of rows of `backups` with the directory of a database
    met,         \* history: a run passed beginRun while another was under way
    mishaps      \* number of crashes and deletions so far

mutex    == <<lock, runActive>>
events   == <<log, age, due, lost>>
progress == <<ports, todo, cur>>
registry == <<registered, copies>>
vars     == <<mutex, pc, pod, events, progress, registry, met, mishaps>>

\* Places of a run: in Running, in beginRun, in runLocked, before endRun, after.
Asking      == {"asked", "clear"}
Beginning   == {"begin", "check1", "check2"}
Registering == {"backup", "database", "create", "insert", "job"}
Scanning    == {"host", "tcp", "probe", "scan"} \cup Registering
Logging     == {"admitted"} \cup Scanning
Live        == Logging \cup {"finish"}
Over        == {"done", "dead"}

TypeOK ==
    /\ lock \in [Pods -> Runs \cup {None}]
    /\ runActive \in [Pods -> BOOLEAN]
    /\ pc \in [Runs -> {"new"} \cup Asking \cup Beginning \cup Live \cup Over]
    /\ pod \in [Runs -> Pods \cup {None}]
    /\ log \in [Runs -> {"none", "open", "closed"}]
    /\ age \in [Runs -> 0..Window]
    /\ due \in [Runs -> BOOLEAN]
    /\ lost \in SUBSET Runs
    /\ ports \in [Runs -> SUBSET Clusters]
    /\ todo \in [Runs -> SUBSET Dbs]
    /\ cur \in [Runs -> Dbs \cup {None}]
    /\ registered \in SUBSET Dbs
    /\ copies \in [Dbs -> Nat]
    /\ met \in BOOLEAN
    /\ mishaps \in Nat

Init ==
    /\ lock = [p \in Pods |-> None]
    /\ runActive = [p \in Pods |-> FALSE]
    /\ pc = [r \in Runs |-> "new"]
    /\ pod = [r \in Runs |-> None]
    /\ log = [r \in Runs |-> "none"]
    /\ age = [r \in Runs |-> 0]
    /\ due = [r \in Runs |-> FALSE]
    /\ lost = {}
    /\ ports = [r \in Runs |-> {}]
    /\ todo = [r \in Runs |-> {}]
    /\ cur = [r \in Runs |-> None]
    /\ registered = {}
    /\ copies = [d \in Dbs |-> 0]
    /\ met = FALSE
    /\ mishaps = 0

-----------------------------------------------------------------------------
\* The events of a run, as the other processes see them.

\* logEvent: an INSERT that fails is dropped.
LogEvent(r, to) ==
    /\ due' = [due EXCEPT ![r] = FALSE]
    /\ \/ /\ log' = [log EXCEPT ![r] = to]
          /\ age' = [age EXCEPT ![r] = 0]
          /\ UNCHANGED lost
       \/ /\ "log" \in Faults
          /\ lost' = lost \cup {r}
          /\ UNCHANGED <<log, age>>

\* Mutants: a window that is too short, and none at all.
MutSeenShort(r) == log[r] = "open" /\ age[r] + 1 < Window
MutSeenAlways(r) == log[r] = "open"

\* A run without scan_finished whose last event is within the window.
Seen(r) == log[r] = "open" /\ age[r] < Window

HasActiveRun == \E r \in Runs : Seen(r)

\* Ten minutes pass.  A run logs between any two of its calls, and each of
\* these is limited to seconds, so it logs at least once in that time.
Tick ==
    /\ \A r \in Runs : ~due[r]
    /\ age' = [r \in Runs |-> IF log[r] # "none" /\ age[r] < Window THEN age[r] + 1 ELSE age[r]]
    /\ due' = [r \in Runs |-> pc[r] \in Logging]
    /\ UNCHANGED <<mutex, pc, pod, log, lost, progress, registry, met, mishaps>>

\* HousekeepEvents: PBW_DISCOVERY_EVENTS_RETENTION_DAYS is longer than the window.
PurgeOldEvents(r) ==
    /\ log[r] # "none" /\ age[r] = Window
    /\ log' = [log EXCEPT ![r] = "none"]
    /\ age' = [age EXCEPT ![r] = 0]
    /\ UNCHANGED <<mutex, pc, pod, due, lost, progress, registry, met, mishaps>>

-----------------------------------------------------------------------------
\* Starting and ending a run.

Mishap == mishaps < MaxMishaps /\ mishaps' = mishaps + 1

Goto(r, at) == pc' = [pc EXCEPT ![r] = at]

\* The UI asks Running first; it reads the flag under runMu.
ClickRun(r, p) ==
    /\ pc[r] = "new" /\ lock[p] = None
    /\ pod' = [pod EXCEPT ![r] = p]
    /\ Goto(r, IF runActive[p] THEN "asked" ELSE "begin")
    /\ UNCHANGED <<mutex, events, progress, registry, met, mishaps>>

\* Running without runMu: the database is asked about runs of any process.
AskDatabase(r) ==
    /\ pc[r] = "asked"
    /\ \/ Goto(r, IF HasActiveRun THEN "done" ELSE "clear")
       \/ "query" \in Faults /\ Goto(r, "done")
    /\ UNCHANGED <<mutex, pod, events, progress, registry, met, mishaps>>

\* Running takes runMu again and clears the flag, whoever has set it by now.
ClearFlag(r) ==
    /\ pc[r] = "clear" /\ lock[pod[r]] = None
    /\ runActive' = [runActive EXCEPT ![pod[r]] = FALSE]
    /\ Goto(r, "begin")
    /\ UNCHANGED <<lock, pod, events, progress, registry, met, mishaps>>

\* Cron and the command line call Run at once.
CallRun(r, p) ==
    /\ pc[r] = "new"
    /\ pod' = [pod EXCEPT ![r] = p]
    /\ Goto(r, "begin")
    /\ UNCHANGED <<mutex, events, progress, registry, met, mishaps>>

\* beginRun: takes runMu and looks at the flag.
LockRun(r) ==
    /\ pc[r] = "begin" /\ lock[pod[r]] = None
    /\ lock' = [lock EXCEPT ![pod[r]] = r]
    /\ Goto(r, IF runActive[pod[r]] THEN "check1" ELSE "check2")
    /\ UNCHANGED <<runActive, pod, events, progress, registry, met, mishaps>>

\* Mutant: a refused run returns without releasing runMu.
MutRefuseRun(r) ==
    /\ Goto(r, "done")
    /\ UNCHANGED <<mutex, pod, events, progress, registry, met, mishaps>>
RefuseRun(r) ==
    /\ lock' = [lock EXCEPT ![pod[r]] = None]
    /\ Goto(r, "done")
    /\ UNCHANGED <<runActive, pod, events, progress, registry, met, mishaps>>

\* A set flag without an active run in the database is taken for a leftover.
CheckFlag(r) ==
    /\ pc[r] = "check1"
    /\ \/ HasActiveRun /\ RefuseRun(r)
       \/ "query" \in Faults /\ RefuseRun(r)
       \/ /\ ~HasActiveRun
          /\ runActive' = [runActive EXCEPT ![pod[r]] = FALSE]
          /\ Goto(r, "check2")
          /\ UNCHANGED <<lock, pod, events, progress, registry, met, mishaps>>

\* Mutant: the flag is set before the query, and stays when the run is refused.
MutAdmitRun(r) ==
    /\ pc[r] = "check2"
    /\ runActive' = [runActive EXCEPT ![pod[r]] = TRUE]
    /\ lock' = [lock EXCEPT ![pod[r]] = None]
    /\ Goto(r, IF HasActiveRun THEN "done" ELSE "admitted")
    /\ UNCHANGED <<pod, events, progress, registry, met, mishaps>>

\* The second query, asked by every run; the flag is set and runMu released.
AdmitRun(r) ==
    /\ pc[r] = "check2"
    /\ \/ HasActiveRun /\ RefuseRun(r)
       \/ "query" \in Faults /\ RefuseRun(r)
       \/ /\ ~HasActiveRun
          /\ runActive' = [runActive EXCEPT ![pod[r]] = TRUE]
          /\ lock' = [lock EXCEPT ![pod[r]] = None]
          /\ Goto(r, "admitted")
          /\ met' = (met \/ \E q \in Runs : pc[q] \in Live)
          /\ UNCHANGED <<pod, events, progress, registry, mishaps>>

\* The deferred endRun; it clears the flag for later runs of the process too.
EndRun(r) ==
    /\ pc[r] = "finish" /\ lock[pod[r]] = None
    /\ runActive' = [runActive EXCEPT ![pod[r]] = FALSE]
    /\ Goto(r, "done")
    /\ UNCHANGED <<lock, pod, events, progress, registry, met, mishaps>>

\* The process dies; it starts again with a clear flag and a free mutex.
Crash(p) ==
    LET here == {r \in Runs : pod[r] = p /\ pc[r] \notin Over} IN
    /\ Mishap /\ here # {}
    /\ lock' = [lock EXCEPT ![p] = None]
    /\ runActive' = [runActive EXCEPT ![p] = FALSE]
    /\ pc' = [r \in Runs |-> IF r \in here THEN "dead" ELSE pc[r]]
    /\ due' = [r \in Runs |-> IF r \in here THEN FALSE ELSE due[r]]
    /\ UNCHANGED <<pod, log, age, lost, progress, registry, met>>

-----------------------------------------------------------------------------
\* runLocked.  Each step logs at least one event.

Step(r, to) ==
    /\ Goto(r, to)
    /\ LogEvent(r, "open")
    /\ UNCHANGED <<mutex, pod, met, mishaps>>

StartScan(r) ==
    /\ pc[r] = "admitted"
    /\ Step(r, "host")
    /\ UNCHANGED <<progress, registry>>

\* discoverClusters: the configured ports of a host, or a scan of all of them.
\* A list of ports that does not parse is an error of the host.
DiscoverClusters(r) ==
    /\ pc[r] = "host"
    /\ \/ ports' = [ports EXCEPT ![r] = Clusters] /\ Step(r, "scan")
       \/ UNCHANGED ports /\ Step(r, "tcp")
       \/ "step" \in Faults /\ UNCHANGED ports /\ Step(r, "scan")
    /\ UNCHANGED <<todo, cur, registry>>

\* The ports that accept a connection in time.
ScanOpenTCPPorts(r) ==
    /\ pc[r] = "tcp"
    /\ \E open \in SUBSET Clusters :
         /\ ports' = [ports EXCEPT ![r] = open]
         /\ Step(r, IF open = {} THEN "scan" ELSE "probe")
    /\ UNCHANGED <<todo, cur, registry>>

\* probePostgresOnPort: any of the open ports may answer as PostgreSQL in time,
\* or refuse the credentials, which tells as much.
Answering(open) == SUBSET open

ProbePorts(r) ==
    /\ pc[r] = "probe"
    /\ \E postgres \in Answering(ports[r]) : ports' = [ports EXCEPT ![r] = postgres]
    /\ Step(r, "scan")
    /\ UNCHANGED <<todo, cur, registry>>

\* Long phases report their progress.
Progress(r) ==
    /\ pc[r] \in {"tcp", "probe", "scan"} /\ due[r]
    /\ LogEvent(r, "open")
    /\ UNCHANGED <<mutex, pc, pod, progress, registry, met, mishaps>>

\* listDatabases of the next cluster; one that cannot be listed is an error.
ListDatabases(r) ==
    /\ pc[r] = "scan" /\ todo[r] = {}
    /\ \E c \in ports[r] :
         /\ ports' = [ports EXCEPT ![r] = @ \ {c}]
         /\ \/ todo' = [todo EXCEPT ![r] = {d \in Dbs : ClusterOf[d] = c}]
            \/ "step" \in Faults /\ UNCHANGED todo
    /\ Step(r, "scan")
    /\ UNCHANGED <<cur, registry>>

\* isExcluded, without an event, or a size above the limit.
SkipDatabase(r) ==
    /\ pc[r] = "scan"
    /\ \E d \in todo[r] : todo' = [todo EXCEPT ![r] = @ \ {d}]
    /\ \/ Step(r, "scan")
       \/ UNCHANGED <<mutex, pc, pod, events, met, mishaps>>
    /\ UNCHANGED <<ports, cur, registry>>

FoundDatabase(r) ==
    /\ pc[r] = "scan"
    /\ \E d \in todo[r] :
         /\ cur' = [cur EXCEPT ![r] = d]
         /\ todo' = [todo EXCEPT ![r] = @ \ {d}]
    /\ Step(r, "backup")
    /\ UNCHANGED <<ports, registry>>

\* Back in the loop over the databases, with the outcome logged.
NextDatabase(r) ==
    /\ cur' = [cur EXCEPT ![r] = None]
    /\ Step(r, "scan")
    /\ UNCHANGED <<ports, todo>>

Quietly(r, to) ==
    /\ Goto(r, to)
    /\ UNCHANGED <<mutex, pod, events, progress, met, mishaps>>

\* Mutant: the directory is not looked up.
MutLookupBackup(r) ==
    /\ pc[r] = "backup" /\ Quietly(r, "database") /\ UNCHANGED registry

\* ensureBackup: DiscoveryServiceGetBackupByDestDir.
LookupBackup(r) ==
    /\ pc[r] = "backup"
    /\ \/ copies[cur[r]] > 0 /\ NextDatabase(r)
       \/ copies[cur[r]] = 0 /\ Quietly(r, "database")
    /\ UNCHANGED registry

\* ensureDatabase: DiscoveryServiceGetDatabaseByName.
LookupDatabase(r) ==
    /\ pc[r] = "database"
    /\ Quietly(r, IF cur[r] \in registered THEN "insert" ELSE "create")
    /\ UNCHANGED registry

\* CreateDatabase; the name is unique.
CreateDatabase(r) ==
    /\ pc[r] = "create"
    /\ \/ /\ cur[r] \notin registered
          /\ registered' = registered \cup {cur[r]}
          /\ Quietly(r, "insert")
       \/ /\ cur[r] \in registered
          /\ NextDatabase(r)
          /\ UNCHANGED registered
    /\ UNCHANGED copies

\* CreateBackup, the INSERT: it needs the row of the database, and nothing else.
InsertBackup(r) ==
    /\ pc[r] = "insert"
    /\ \/ /\ cur[r] \in registered
          /\ copies' = [copies EXCEPT ![cur[r]] = @ + 1]
          /\ Quietly(r, "job")
       \/ /\ cur[r] \notin registered
          /\ NextDatabase(r)
          /\ UNCHANGED copies
    /\ UNCHANGED registered

\* CreateBackup, the job in the scheduler of this process.
ScheduleBackup(r) ==
    /\ pc[r] = "job"
    /\ NextDatabase(r)
    /\ UNCHANGED registry

\* A statement, the test of the database, or the scheduler fails, or the 30
\* seconds of ensureBackup are over: an error is logged and the scan goes on.
RegisterFails(r) ==
    /\ "step" \in Faults
    /\ pc[r] \in Registering
    /\ NextDatabase(r)
    /\ UNCHANGED registry

FinishScan(r) ==
    /\ pc[r] = "scan" /\ ports[r] = {} /\ todo[r] = {}
    /\ Goto(r, "finish")
    /\ LogEvent(r, "closed")
    /\ UNCHANGED <<mutex, pod, progress, registry, met, mishaps>>

-----------------------------------------------------------------------------
\* An administrator deletes rows in the UI.

DeleteDatabase(d) ==
    /\ d \in registered /\ Mishap
    /\ registered' = registered \ {d}
    /\ copies' = [copies EXCEPT ![d] = 0]
    /\ UNCHANGED <<mutex, pc, pod, events, progress, met>>

DeleteBackup(d) ==
    /\ copies[d] > 0 /\ Mishap
    /\ copies' = [copies EXCEPT ![d] = @ - 1]
    /\ UNCHANGED <<mutex, pc, pod, events, progress, registered, met>>

-----------------------------------------------------------------------------

RunStep(r) ==
    \/ AskDatabase(r) \/ ClearFlag(r)
    \/ LockRun(r) \/ CheckFlag(r) \/ AdmitRun(r)
    \/ StartScan(r) \/ DiscoverClusters(r) \/ ScanOpenTCPPorts(r)
    \/ ProbePorts(r) \/ ListDatabases(r)
    \/ SkipDatabase(r) \/ FoundDatabase(r) \/ LookupBackup(r)
    \/ LookupDatabase(r) \/ CreateDatabase(r) \/ InsertBackup(r) \/ ScheduleBackup(r) \/ RegisterFails(r)
    \/ FinishScan(r) \/ EndRun(r)

Next ==
    \/ \E r \in Runs : \/ RunStep(r) \/ Progress(r) \/ PurgeOldEvents(r)
                       \/ \E p \in Pods : ClickRun(r, p) \/ CallRun(r, p)
    \/ \E p \in Pods : Crash(p)
    \/ \E d \in Dbs : DeleteDatabase(d) \/ DeleteBackup(d)
    \/ Tick

Spec == Init /\ [][Next]_vars

\* Every call of a run returns, and time passes.
Fairness == WF_vars(Tick) /\ \A r \in Runs : WF_vars(RunStep(r))

FairSpec == Spec /\ Fairness

-----------------------------------------------------------------------------
\* Properties.

\* A set flag belongs to a run of its process that is under way: no early
\* return, dead run or overlapping run leaves it behind.  (What beginRun and
\* Running take for a leftover is therefore always a living run.)
FlagHasRun ==
    \A p \in Pods : runActive[p] => \E r \in Runs : pod[r] = p /\ pc[r] \in Live

\* A run is let in while another one scans only where that one lost an event:
\* between the first and the last event of a run its events keep the others
\* out, in every process.  (Before its first event nothing does.)
AdmittedAlone ==
    [][\A r \in Runs : pc[r] = "check2" /\ pc'[r] = "admitted" =>
          \A q \in Runs : pc[q] \in Scanning => q \in lost]_vars

\* As long as no two runs have met, no database has two backups: what a run
\* that died or failed half-way has left is found by the next one.
OneBackupEach == ~met => \A d \in Dbs : copies[d] <= 1

\* Every call of Run ends: no process waits for ever on runMu.
RunsEnd == \A r \in Runs : pc[r] # "new" ~> pc[r] \in Over

\* A run that died, or lost its scan_finished, holds the others up no longer
\* than the window.
OverIsForgotten == \A r \in Runs : pc[r] \in Over ~> ~Seen(r)
=============================================================================
