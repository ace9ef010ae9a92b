------------------------------ MODULE Console -------------------------------
(***************************************************************************)
(* What web pods do for the people and programs that use them: sessions,   *)
(* the restore wizard and the restore API, backups run by hand, downloads, *)
(* the audit log (view/web, view/api, view/middleware, service/auth,       *)
(* service/auditlogs, and service/restorations up to the queue), next to   *)
(* the registered databases of module Registry and to configurations that  *)
(* each pod follows in its own time.                                       *)
(*                                                                         *)
(* A request looks the session up once, computes what it may do from the   *)
(* presets its pod works with, and then reads presets, databases and dumps *)
(* one after the other before it puts a job into the queue and a line into *)
(* the audit log.  Everything it reads may change between these steps.     *)
(***************************************************************************)
EXTENDS Registry, FiniteSets

CONSTANTS
    Clients,   \* browsers and programs that send requests
    Presets,   \* IDs of restore presets
    Envs,      \* names of environments
    Pods,      \* web pods
    Configs,   \* contents of the restore presets
    Groups,
    UserOf,    \* the user of each client
    LoginOf,   \* how a client logs in: "password", "oidc", or "bearer"
    GroupsOf,  \* the groups its token carries
    Dumps,     \* executions with a dump, a later one being greater
    DumpOf,    \* the database each of them is of
    DayOf,     \* the day each of them has finished
    Sends      \* bound: what each client asks for

INSTANCE Access

WizardPages == {"step1", "step2", "step3"}
Wizard == WizardPages \cup {"run", "fix_owner"}
Restores == {"run", "api"}
Ops == Wizard \cup {"api", "run_backup", "retry", "download", "api_download"}

\* What presets name, what a job and an entry of the audit log hold.
PresetsIn(config) == {config.presets[p] : p \in PresetsOf(config)}
Sources == UNION {{preset.source : preset \in PresetsIn(config)} : config \in Configs}
Targets ==
    UNION {{preset.targets[e] : preset \in PresetsIn(config), e \in Envs} : config \in Configs}

\* ORDER BY finished_at DESC LIMIT 1
Newest(some) == CHOOSE d \in some : \A e \in some : e <= d
NewestOnes == {Newest(some) : some \in (SUBSET Dumps) \ {{}}}

JobType ==
    [op : Ops, source : Sources \cup Databases, target : Targets \cup {None},
     database : Databases \cup {None}, conn : Conns \cup {None},
     dump : {0} \cup NewestOnes]
EntryType ==
    [user : STRING, action : {"run_restore", "fix_owner", "download_dump", "run_backup"},
     preset : Presets \cup Sources \cup Databases, env : Envs \cup {None}]

ASSUME ConsoleAssumption ==
    /\ None \notin Presets \cup JobType \cup EntryType
    /\ Managers \subseteq Clients
    /\ UserOf \in [Clients -> STRING]
    /\ LoginOf \in [Clients -> {"password", "oidc", "bearer"}]
    /\ GroupsOf \in [Clients -> SUBSET Groups]
    /\ Dumps \subseteq Nat
    /\ DumpOf \in [Dumps -> Databases]
    /\ DayOf \in [Dumps -> Nat]
    /\ Sends \in [Clients -> SUBSET Ops]

VARIABLES
    saved,    \* the presets as they are in the database
    applied,  \* the presets each pod works with
    session,  \* clients with a live session
    dumps,    \* executions that are successful, with a path
    form,     \* the wizard each client has open
    req       \* each client's request

vars == <<registryVars, saved, applied, session, dumps, form, req>>
console == <<saved, applied, session, dumps, form, req>>

NoForm == [page |-> "none", action |-> "restore", preset |-> None, env |-> None,
           shown |-> {}, can |-> FALSE]

\* What one request has been given, has read and has written.  The worlds
\* are those its pod has worked in since it began.
NoReq == [op |-> "none", at |-> "idle", pod |-> None, access |-> Unrestricted,
          preset |-> None, env |-> None, choice |-> {}, source |-> None,
          target |-> None, registered |-> {}, database |-> None, conn |-> None,
          dump |-> 0, job |-> None, entry |-> None, left |-> FALSE, worlds |-> {}]

World(p) == [config |-> applied[p], conn |-> conn, dumps |-> dumps]

Full(c) == LoginOf[c] = "password"

\* InjectReqctx, RequireAuthAPI: who is asking, and what they may do.
BearsToken(c) == LoginOf[c] = "bearer"
Authenticated(c) == c \in session \/ BearsToken(c)
AccessOn(p, c) == AccessOf(applied[p], GroupsOf[c], Full(c))

SuccessesOf(name) == {d \in dumps : DumpOf[d] = name}

Init ==
    /\ RegistryInit
    /\ saved \in Configs
    /\ applied \in [Pods -> Configs]
    /\ session = {}
    /\ dumps \in SUBSET Dumps
    /\ form = [c \in Clients |-> NoForm]
    /\ req = [c \in Clients |-> NoReq]

-----------------------------------------------------------------------------
(* Sessions.                                                               *)

\* RequireNoAuth, CreateSession.
CreateSession(c) ==
    /\ c \notin session
    /\ session' = session \cup {c}
    /\ UNCHANGED <<registryVars, saved, applied, dumps, form, req>>

Login(c) == LoginOf[c] = "password" /\ CreateSession(c)

\* The callback; a user who comes for the first time is created.
LoginWithOidc(c) == LoginOf[c] = "oidc" /\ CreateSession(c)

SessionsEnd(some) ==
    /\ MayChange
    /\ session' = session \ some
    /\ UNCHANGED <<rows, up, edit, test, saved, applied, dumps, form, req>>

Logout(c) == c \in session /\ SessionsEnd({c})

LogoutAll(c) ==
    c \in session /\ SessionsEnd({d \in Clients : UserOf[d] = UserOf[c]})

\* Every 10 minutes, of sessions older than 12 hours; any may be that old.
DeleteOldSessions(c) == c \in session /\ SessionsEnd({c})

-----------------------------------------------------------------------------
(* The requests that a client can send.                                    *)

\* InjectReqctx, RequireAuth; for the API RequireAuthAPI.
Send(c, p, op, preset, env, choice) ==
    /\ op \in Sends[c]
    /\ req[c].at = "idle"
    /\ IF op \in {"api", "api_download"} THEN Authenticated(c) ELSE c \in session
    /\ req' = [req EXCEPT ![c] =
                 [NoReq EXCEPT !.op = op, !.at = "admit", !.pod = p,
                               !.access = AccessOn(p, c), !.preset = preset,
                               !.env = env, !.choice = choice,
                               !.worlds = {World(p)}]]
    /\ UNCHANGED <<registryVars, saved, applied, session, dumps>>

\* wizardStep0Handler: the two actions, nothing read.
WizardStep0(c) ==
    /\ "step1" \in Sends[c] /\ c \in session /\ req[c].at = "idle"
    /\ form' = [form EXCEPT ![c] = [NoForm EXCEPT !.page = "action"]]
    /\ UNCHANGED <<registryVars, saved, applied, session, dumps, req>>

\* Next on the first page, or Back on the page of environments.
AskPresets(c, p) ==
    \E action \in {"restore", "fix_owner"} :
        /\ \/ form[c].page = "action"
           \/ form[c].page = "environments" /\ action = form[c].action
        /\ Send(c, p, "step1", None, None, {})
        /\ form' = [form EXCEPT ![c].action = action]

\* Next on the page of presets, or Back on the page of dumps.
AskEnvironments(c, p) ==
    \E preset \in Presets :
        /\ \/ form[c].page = "presets" /\ preset \in form[c].shown
           \/ form[c].page = "dumps" /\ preset = form[c].preset
        /\ Send(c, p, "step2", preset, None, {})
        /\ UNCHANGED form

\* The button of the page of environments, for those who may execute.
PickEnvironment(c, p, action, op) ==
    /\ form[c].page = "environments" /\ form[c].can
    /\ form[c].action = action
    /\ \E env \in form[c].shown : Send(c, p, op, form[c].preset, env, {})
    /\ UNCHANGED form

AskDumps(c, p) == PickEnvironment(c, p, "restore", "step3")
AskFixOwner(c, p) == PickEnvironment(c, p, "fix_owner", "fix_owner")

\* Launch Restore, with the preset and the environment of hidden fields.
AskRun(c, p) ==
    /\ form[c].page = "dumps" /\ form[c].can
    /\ \E d \in form[c].shown :
           Send(c, p, "run", form[c].preset, form[c].env, {d})
    /\ UNCHANGED form

\* bindRestoreParams: one execution, those of one day, or neither.
BindRestoreParams ==
    {Dumps} \cup {{d} : d \in Dumps} \cup {{e \in Dumps : DayOf[e] = DayOf[d]} : d \in Dumps}

AskApi(c, p) ==
    /\ \E preset \in Presets, env \in Envs, choice \in BindRestoreParams :
           Send(c, p, "api", preset, env, choice)
    /\ UNCHANGED form

AskApiDownload(c, p) ==
    /\ \E preset \in Presets, d \in Dumps : Send(c, p, "api_download", preset, None, {d})
    /\ UNCHANGED form

\* Buttons of the pages of backups and jobs; the database is the backup's.
AskOfBackup(c, p, op) ==
    /\ \E d \in Dumps : Send(c, p, op, None, None, {d})
    /\ UNCHANGED form

-----------------------------------------------------------------------------
(* The steps of a request.  Each goes on only if all that it needs is      *)
(* there; a request that does not is refused, as is one whose statement    *)
(* fails, and the page it came from stays as it is.                        *)

\* One more step of the request, which its client still waits for.
Goes(c, at) == req[c].at = at /\ ~req[c].left

Unchanged == UNCHANGED <<registryVars, saved, applied, session, dumps>>

Then(c, r) ==
    /\ req' = [req EXCEPT ![c] = r]
    /\ UNCHANGED form
    /\ Unchanged

Refuse(c) ==
    /\ req[c].at \notin {"idle", "log", "reply"}
    /\ Then(c, NoReq)

\* Mutant: whoever may see a preset may restore it.
MutAdmitted(c) ==
    LET r == req[c]
        now == applied[r.pod]
    IN /\ r.op \in Wizard => RequireRestoreAccess(now, GroupsOf[c], Full(c))
       /\ r.op # "step1" /\ Enabled(now) => CanViewPreset(r.access, r.preset)

\* RequireRestoreAccess and the checks at the head of the handlers.
Admitted(c) ==
    LET r == req[c]
        now == applied[r.pod]
    IN /\ r.op \in Wizard => RequireRestoreAccess(now, GroupsOf[c], Full(c))
       /\ r.op # "step1" /\ Enabled(now) => CanViewPreset(r.access, r.preset)
       /\ r.op \in Restores \cup {"fix_owner"} /\ Enabled(now) =>
              CanExecutePreset(r.access, r.preset)

Admit(c) ==
    /\ Goes(c, "admit")
    /\ req[c].op \in Wizard \cup {"api", "api_download"}
    /\ Admitted(c)
    /\ Then(c, [req[c] EXCEPT !.at = "find"])

\* A page of the wizard, and what it offers; without anything to offer it is
\* a message.
Show(c, page, preset, env, shown, can) ==
    /\ form' = [form EXCEPT ![c] =
                  IF shown = {} THEN NoForm
                  ELSE [NoForm EXCEPT !.page = page, !.action = form[c].action,
                                      !.preset = preset, !.env = env,
                                      !.shown = shown, !.can = can]]
    /\ req' = [req EXCEPT ![c] = NoReq]
    /\ Unchanged

CanExecute(c) ==
    Enabled(applied[req[c].pod]) => CanExecutePreset(req[c].access, req[c].preset)

\* wizardStep1Handler, ListRestoreCatalog
WizardStep1(c) ==
    LET now == applied[req[c].pod] IN
    /\ Goes(c, "find") /\ req[c].op = "step1"
    /\ Show(c, "presets", None, None,
            {p \in PresetsOf(now) : Enabled(now) => CanViewPreset(req[c].access, p)},
            FALSE)

\* GetRestoreTargets; to fix an owner, the environments that have one.
EnvironmentsOf(preset, action) ==
    {e \in Envs : /\ preset.targets[e] # None
                  /\ action = "fix_owner" => preset.targets[e].owner # None}

WizardStep2(c) ==
    LET r == req[c]
        preset == FindRestorePreset(applied[r.pod], r.preset)
    IN /\ Goes(c, "find") /\ r.op = "step2"
       /\ preset # None
       /\ Show(c, "environments", r.preset, None,
               EnvironmentsOf(preset, form[c].action), CanExecute(c))

\* wizardStep3Handler, ListRestoreBackups
WizardStep3(c) ==
    LET r == req[c]
        preset == FindRestorePreset(applied[r.pod], r.preset)
    IN /\ Goes(c, "find") /\ r.op = "step3"
       /\ preset # None
       /\ Show(c, "dumps", r.preset, r.env, SuccessesOf(preset.source), CanExecute(c))

\* The head of StartRestore and of FixOwner: the preset and its target.
FindTarget(c) ==
    LET r == req[c]
        preset == FindRestorePreset(applied[r.pod], r.preset)
    IN /\ Goes(c, "find") /\ r.op \in Restores \cup {"fix_owner"}
       /\ preset # None
       /\ LET target == FindRestoreTargetByEnvironment(preset, r.env) IN
          /\ target # None
          /\ r.op = "fix_owner" => target.owner # None
          /\ Then(c, [r EXCEPT !.source = preset.source, !.target = target,
                               !.at = "registered"])

LoadRegisteredDatabaseIDs(c) ==
    /\ Goes(c, "registered")
    /\ Then(c, [req[c] EXCEPT !.registered = Registered(Databases), !.at = "ready"])

\* The newest success of the source; without one the target is not ready.
LoadPresetBuildContext(c) ==
    LET some == SuccessesOf(req[c].source) IN
    /\ Goes(c, "ready")
    /\ some # {}
    /\ Then(c, [req[c] EXCEPT !.dump = Newest(some), !.at = "connect"])

\* The target's own registration, if there was one, else its endpoint with
\* the credentials of the source.  Either may be gone by now.
ResolveRestoreTargetConnection(c) ==
    LET r == req[c]
        database == IF r.target.name \in r.registered THEN r.target.name ELSE r.source
    IN /\ Goes(c, "connect")
       /\ database \in r.registered
       /\ conn[database] # None
       /\ Then(c, [r EXCEPT !.conn = conn[database],
                            !.database = IF database = r.target.name THEN database ELSE None,
                            !.at = IF r.op = "fix_owner" THEN "enqueue" ELSE "choose"])

ResolveRestoreExecution(c) ==
    LET some == req[c].choice \cap SuccessesOf(req[c].source) IN
    /\ Goes(c, "choose")
    /\ some # {}
    /\ Then(c, [req[c] EXCEPT !.dump = Newest(some), !.at = "preflight"])

PreflightTarget(c) ==
    /\ Goes(c, "preflight")
    /\ req[c].conn \in up
    /\ Then(c, [req[c] EXCEPT !.at = "enqueue"])

JobOf(r) ==
    [op |-> r.op, source |-> r.source, target |-> r.target,
     database |-> r.database, conn |-> r.conn, dump |-> r.dump]

\* The databases that the rows a queued job refers to belong to.
Referred(r) == {r.source, r.database} \ {None}

\* Mutant: one of the handlers forgets the audit log.
MutEnqueue(c) ==
    LET r == req[c] IN
    /\ r.at = "enqueue"
    /\ \A name \in Referred(r) : conn[name] # None
    /\ Then(c, [r EXCEPT !.job = JobOf(r),
                         !.at = IF r.op = "fix_owner" THEN "reply" ELSE "log"])

\* One INSERT, which may be done although its client has just left; the
\* queue may refuse it, and does when a row it refers to is gone.
Enqueue(c) ==
    LET r == req[c] IN
    /\ r.at = "enqueue"
    /\ \A name \in Referred(r) : conn[name] # None
    /\ Then(c, [r EXCEPT !.job = JobOf(r), !.at = "log"])

\* manualRunHandler, retryExecutionHandler: a backup that is registered.
AdmitRun(c) ==
    LET r == req[c]
        source == DumpOf[Newest(r.choice)]
    IN /\ Goes(c, "admit") /\ r.op \in {"run_backup", "retry"}
       /\ r.op = "retry" => r.choice \cap dumps = {}
       /\ conn[source] # None
       /\ CanExecutePbwName(r.access, source)
       /\ Then(c, [r EXCEPT !.source = source, !.at = "enqueue"])

\* downloadExecutionHandler
AdmitDownload(c) ==
    LET r == req[c]
        source == DumpOf[Newest(r.choice)]
    IN /\ Goes(c, "admit") /\ r.op = "download"
       /\ conn[source] # None
       /\ CanViewPbwName(r.access, source)
       /\ Then(c, [r EXCEPT !.source = source, !.at = "link"])

\* getRestoreBackupDownloadHandler: a success of the preset's source.
FindBackup(c) ==
    LET r == req[c]
        preset == FindRestorePreset(applied[r.pod], r.preset)
    IN /\ Goes(c, "find") /\ r.op = "api_download"
       /\ preset # None
       /\ r.choice \cap SuccessesOf(preset.source) # {}
       /\ Then(c, [r EXCEPT !.source = preset.source, !.at = "link"])

\* GetExecutionDownloadLinkOrPath: where the dump is now.
Link(c) ==
    LET r == [req[c] EXCEPT !.dump = Newest(req[c].choice)] IN
    /\ Goes(c, "link")
    /\ r.dump \in dumps
    /\ Then(c, [r EXCEPT !.job = JobOf(r), !.at = "log"])

ActionOf(op) == IF op \in Restores THEN "run_restore"
                ELSE IF op = "fix_owner" THEN op
                ELSE IF op \in {"download", "api_download"} THEN "download_dump"
                ELSE "run_backup"

EntryOf(c, r) ==
    [user |-> UserOf[c], action |-> ActionOf(r.op),
     preset |-> IF r.preset = None THEN r.source ELSE r.preset, env |-> r.env]

\* auditlogs.Log, with the context of the request and no look at the error:
\* nothing is written once the client has left, or when the INSERT fails.
Log(c) ==
    LET r == req[c] IN
    /\ r.at = "log"
    /\ \/ ~r.left /\ Then(c, [r EXCEPT !.entry = EntryOf(c, r), !.at = "reply"])
       \/ Then(c, [r EXCEPT !.left = TRUE, !.at = "reply"])

\* The answer closes the wizard that was waiting for it.
Reply(c) ==
    /\ req[c].at = "reply"
    /\ form' = [form EXCEPT ![c] = IF req[c].op \in Wizard THEN NoForm ELSE @]
    /\ req' = [req EXCEPT ![c] = NoReq]
    /\ Unchanged

\* The browser closes the connection, which cancels the request's context.
ClientLeaves(c) ==
    /\ req[c].at # "idle" /\ ~req[c].left
    /\ req' = [req EXCEPT ![c].left = TRUE]
    /\ UNCHANGED form
    /\ Unchanged

Proceed(c) ==
    \/ Admit(c) \/ WizardStep1(c) \/ WizardStep2(c) \/ WizardStep3(c)
    \/ FindTarget(c) \/ LoadRegisteredDatabaseIDs(c) \/ LoadPresetBuildContext(c)
    \/ ResolveRestoreTargetConnection(c) \/ ResolveRestoreExecution(c)
    \/ PreflightTarget(c) \/ AdmitRun(c) \/ AdmitDownload(c) \/ FindBackup(c)
    \/ Link(c) \/ Enqueue(c) \/ Log(c) \/ Reply(c) \/ Refuse(c)

-----------------------------------------------------------------------------
(* What changes around a request.                                          *)

NewWorld(p) == [config |-> applied'[p], conn |-> conn', dumps |-> dumps']

\* Every request that is under way on one of the pods meets a new world.
Seen(ps) ==
    req' = [c \in Clients |->
              IF req[c].pod \in ps
              THEN [req[c] EXCEPT !.worlds = @ \cup {NewWorld(req[c].pod)}]
              ELSE req[c]]

\* handleSaveConfig, applied at once by the pod that was asked.
SaveConfig(c, p) ==
    /\ c \in session /\ CanManageApp(AccessOn(p, c))
    /\ MayChange
    /\ \E config \in Configs \ {saved} :
           saved' = config /\ applied' = [applied EXCEPT ![p] = config]
    /\ UNCHANGED <<rows, up, edit, test, session, dumps, form>>
    /\ Seen({p})

\* Watch, which every other pod runs.
Follow(p) ==
    /\ applied[p] # saved
    /\ applied' = [applied EXCEPT ![p] = saved]
    /\ UNCHANGED <<registryVars, saved, session, dumps, form>>
    /\ Seen({p})

\* The requests of a pod end with it; it comes back with what is saved.
PodRestarts(p) ==
    /\ MayChange
    /\ applied' = [applied EXCEPT ![p] = saved]
    /\ req' = [c \in Clients |-> IF req[c].pod = p THEN NoReq ELSE req[c]]
    /\ UNCHANGED <<rows, up, edit, test, saved, session, dumps, form>>

\* A worker reports a success; an execution is deleted or has expired.
DumpsBecome(some) ==
    /\ MayChange
    /\ dumps' = some
    /\ UNCHANGED <<rows, up, edit, test, saved, applied, session, form>>
    /\ Seen(Pods)

DumpStored(d) ==
    /\ \A e \in dumps : e < d
    /\ conn[DumpOf[d]] # None
    /\ DumpsBecome(dumps \cup {d})

DumpDeleted(d) == d \in dumps /\ DumpsBecome(dumps \ {d})

Managing(c) ==
    /\ c \in session /\ req[c].at = "idle"
    /\ \E p \in Pods : CanManageApp(AccessOn(p, c))

\* Tests of rows without an edit are left to Registry: they write nothing
\* that a request reads.
ManageRow(c, r) ==
    /\ Managing(c)
    /\ \E op \in {"create", "update"}, new \in Conns : SubmitForm(c, op, r, new)
    /\ UNCHANGED console

WriteRow(c) ==
    /\ EditStep(c)
    /\ UNCHANGED <<saved, applied, session, dumps, form>>
    /\ Seen(Pods)

\* The backups of a database go with it, and so do their executions.
ManagerDeletes(c, r) ==
    /\ Managing(c)
    /\ DeleteRow(c, r)
    /\ dumps' = {d \in dumps : DumpOf[d] # r}
    /\ UNCHANGED <<saved, applied, session, form>>
    /\ Seen(Pods)

Around ==
    \/ \E c \in Clients : Login(c) \/ LoginWithOidc(c) \/ Logout(c) \/ LogoutAll(c) \/ DeleteOldSessions(c)
    \/ \E c \in Managers :
           \/ WriteRow(c)
           \/ (EditAborts(c) \/ TestStep(c)) /\ UNCHANGED console
           \/ \E p \in Pods : SaveConfig(c, p)
           \/ \E r \in Rows : ManageRow(c, r) \/ ManagerDeletes(c, r)
    \/ \E p \in Pods : Follow(p) \/ PodRestarts(p)
    \/ \E d \in Dumps : DumpStored(d) \/ DumpDeleted(d)
    \/ (\E v \in Conns : Outage(v)) /\ UNCHANGED console

Asking(c) ==
    \/ WizardStep0(c)
    \/ \E p \in Pods :
           \/ AskPresets(c, p) \/ AskEnvironments(c, p) \/ AskDumps(c, p)
           \/ AskFixOwner(c, p) \/ AskRun(c, p) \/ AskApi(c, p) \/ AskApiDownload(c, p)
           \/ \E op \in {"run_backup", "retry", "download"} : AskOfBackup(c, p, op)

Requesting(c) == Asking(c) \/ Proceed(c) \/ ClientLeaves(c)

Next == (\E c \in Clients : Requesting(c)) \/ Around

Spec == Init /\ [][Next]_vars

-----------------------------------------------------------------------------
AccessIn(w, c) == AccessOf(w.config, GroupsOf[c], Full(c))
SuccessesIn(w, name) == {d \in w.dumps : DumpOf[d] = name}

\* The user might do what the request asks for, by the presets of w.
AllowedIn(w, c) ==
    LET r == req[c] IN
    CASE r.op \in {"run_backup", "retry"} -> CanExecutePbwName(AccessIn(w, c), r.job.source)
      [] r.op = "download"      -> CanViewPbwName(AccessIn(w, c), r.job.source)
      [] r.op = "api_download"  -> CanViewPreset(AccessIn(w, c), r.preset)
      [] OTHER                  -> CanExecutePreset(AccessIn(w, c), r.preset)

\* In w the job's source and target are those of the preset and environment.
PlannedIn(w, c) ==
    LET r == req[c]
        preset == w.config.presets[r.preset]
    IN /\ preset # None
       /\ preset.source = r.job.source
       /\ r.op # "api_download" => preset.targets[r.env] = r.job.target

\* In w the connection is that of the target, or of the source.
ConnectedIn(w, job) ==
    job.conn \in {w.conn[job.source]} \cup
                 (IF job.target.name \in Databases THEN {w.conn[job.target.name]} ELSE {})

(* However presets, databases and dumps change while a request is under    *)
(* way: a job it starts, or a dump it hands out, is one its user was       *)
(* allowed by presets in force on the pod during the request; it has the   *)
(* source and target that the preset and the environment asked for had at  *)
(* some moment of it, a connection registered for them at some moment, and *)
(* the newest successful dump of the choice at some moment.                *)
StartedAsAllowed ==
    \A c \in Clients :
        LET r == req[c] IN
        r.job # None =>
            /\ \E w \in r.worlds : AllowedIn(w, c)
            /\ r.preset # None => \E w \in r.worlds : PlannedIn(w, c)
            /\ r.op \in Restores \cup {"fix_owner"} =>
                   \E w \in r.worlds : ConnectedIn(w, r.job)
            /\ r.op \in Restores \cup {"fix_owner"} =>
                   \E w \in r.worlds :
                       LET choice == IF r.op = "fix_owner" THEN Dumps ELSE r.choice
                           some == choice \cap SuccessesIn(w, r.job.source)
                       IN some # {} /\ r.job.dump = Newest(some)
            /\ r.op \in {"download", "api_download"} =>
                   \E w \in r.worlds : r.job.dump \in SuccessesIn(w, r.job.source)

(* The audit log tells the truth: an entry is written only for what has    *)
(* been started or handed out, and names its user, preset and environment; *)
(* and a request that ends with its client still there and its INSERT done *)
(* has left one for what it started.                                       *)
AuditTrail ==
    \A c \in Clients :
        LET r == req[c] IN
        /\ r.entry # None =>
               /\ r.job # None
               /\ r.entry.user = UserOf[c]
               /\ r.entry.action = ActionOf(r.job.op)
               /\ r.op \in Restores \cup {"fix_owner"} =>
                      \E w \in r.worlds :
                          w.config.presets[r.entry.preset].targets[r.entry.env] = r.job.target
        /\ r.at = "reply" /\ r.job # None /\ ~r.left => r.entry # None
=============================================================================
