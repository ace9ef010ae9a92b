--------------------------- MODULE ConsoleProofs ----------------------------
(***************************************************************************)
(* What a web pod starts for a request is allowed and on record: the       *)
(* safety invariants of Console for any set of clients, pods, presets,     *)
(* databases and dumps.                                                    *)
(*                                                                         *)
(* A request meets a new world with every change around it, and never      *)
(* forgets one.  So each thing it has read, and each check it has passed,  *)
(* is a fact of some world it has met, and such a fact is not lost by any  *)
(* later step, of its own or of others.  Kept says which of these facts a  *)
(* request holds at each of its stages; it speaks of nothing but the       *)
(* request, so that the steps around a request only add to its worlds.     *)
(***************************************************************************)
EXTENDS Console, TLAPS

OfTarget == Restores \cup {"fix_owner"}
Downloads == {"download", "api_download"}
Runs == {"run_backup", "retry"}

Worlds == [config : Configs, conn : [Rows -> Conns \cup {None}], dumps : SUBSET Dumps]

Accesses ==
    {Unrestricted} \cup
    {AccessOf(config, GroupsOf[c], Full(c)) : config \in Configs, c \in Clients}

Stages == {"idle", "admit", "find", "registered", "ready", "connect", "choose",
           "preflight", "enqueue", "link", "log", "reply"}

Requests ==
    [op : Ops \cup {"none"}, at : Stages, pod : Pods \cup {None}, access : Accesses,
     preset : Presets \cup {None}, env : Envs \cup {None}, choice : SUBSET Dumps,
     source : Sources \cup Databases \cup {None}, target : Targets \cup {None},
     registered : SUBSET Databases, database : Databases \cup {None},
     conn : Conns \cup {None},
     dump : {0} \cup NewestOnes,
     job : JobType \cup {None}, entry : EntryType \cup {None}, left : BOOLEAN,
     worlds : SUBSET Worlds]

Pages == {"none", "action", "presets", "environments", "dumps"}

\* What the wizard shows is of the kind of its page.
FormType ==
    {f \in [page : Pages, action : {"restore", "fix_owner"}, preset : Presets \cup {None},
            env : Envs \cup {None}, shown : SUBSET (Presets \cup Envs \cup Dumps),
            can : BOOLEAN] :
        /\ f.page = "presets" => f.shown \subseteq Presets
        /\ f.page = "environments" => f.preset \in Presets /\ f.shown \subseteq Envs
        /\ f.page = "dumps" =>
               f.preset \in Presets /\ f.env \in Envs /\ f.shown \subseteq Dumps}

TypeOK ==
    /\ RegistryTypeOK
    /\ saved \in Configs
    /\ applied \in [Pods -> Configs]
    /\ session \subseteq Clients
    /\ dumps \subseteq Dumps
    /\ form \in [Clients -> FormType]
    /\ req \in [Clients -> Requests]

StagesOf(op) ==
    IF op = "none" THEN {"idle"}
    ELSE IF op \in WizardPages THEN {"admit", "find"}
    ELSE IF op \in Restores THEN Stages \ {"idle", "link"}
    ELSE IF op = "fix_owner" THEN Stages \ {"idle", "link", "choose", "preflight"}
    ELSE IF op = "api_download" THEN {"admit", "find", "link", "log", "reply"}
    ELSE IF op = "download" THEN {"admit", "link", "log", "reply"}
    ELSE {"admit", "enqueue", "log", "reply"}

\* What the client has asked for.
AskedFor(r) ==
    /\ r.at \in StagesOf(r.op)
    /\ r.op \in OfTarget \cup {"step2", "step3", "api_download"} => r.preset \in Presets
    /\ r.op \in OfTarget \cup {"step3"} => r.env \in Envs
    /\ r.op \in Runs \cup {"download"} => r.preset = None
    /\ r.op \in Runs \cup Downloads => \E d \in Dumps : r.choice = {d}

\* In w the user may do what is asked for, with the source that was found.
MayIn(w, c, r) ==
    /\ r.op \in Runs => CanExecutePbwName(AccessIn(w, c), r.source)
    /\ r.op = "download" => CanViewPbwName(AccessIn(w, c), r.source)
    /\ r.op = "api_download" => CanViewPreset(AccessIn(w, c), r.preset)
    /\ r.op \in OfTarget => CanExecutePreset(AccessIn(w, c), r.preset)

FoundIn(w, r) ==
    LET preset == w.config.presets[r.preset]
    IN /\ preset # None
       /\ preset.source = r.source
       /\ r.op \in OfTarget => preset.targets[r.env] = r.target

NewestIn(w, r) ==
    LET choice == IF r.op = "fix_owner" THEN Dumps ELSE r.choice
        some == choice \cap SuccessesIn(w, r.source)
    IN some # {} /\ r.dump = Newest(some)

\* The checks it has passed.
Passed(c, r) ==
    /\ r.at # "idle" => \E w \in r.worlds : r.access = AccessIn(w, c)
    /\ r.at \notin {"idle", "admit"} => \E w \in r.worlds : MayIn(w, c, r)

Chosen(r) ==
    \/ r.op = "fix_owner" /\ r.at \in {"connect", "enqueue", "log", "reply"}
    \/ r.op \in Restores /\ r.at \in {"preflight", "enqueue", "log", "reply"}

\* What it has read.
Found(r) ==
    /\ r.at \notin {"idle", "admit", "find"} => r.source \in Sources \cup Databases
    /\ r.op \in OfTarget \cup {"api_download"} /\ r.at \notin {"admit", "find"} =>
           \E w \in r.worlds : FoundIn(w, r)
    /\ r.op \in OfTarget /\ r.at \in {"choose", "preflight", "enqueue", "log", "reply"} =>
           \E w \in r.worlds : ConnectedIn(w, JobOf(r))
    /\ Chosen(r) => \E w \in r.worlds : NewestIn(w, r)
    /\ r.at = "link" => DumpOf[Newest(r.choice)] = r.source
    /\ r.op \in Downloads /\ r.at \in {"log", "reply"} =>
           \E w \in r.worlds : r.dump \in SuccessesIn(w, r.source)

\* What it has written.
Written(c, r) ==
    /\ r.job = IF r.at \in {"log", "reply"} THEN JobOf(r) ELSE None
    /\ r.entry \in {None, EntryOf(c, r)}
    /\ r.at # "reply" => r.entry = None
    /\ r.at = "reply" /\ ~r.left => r.entry = EntryOf(c, r)

Kept(c, r) == AskedFor(r) /\ Passed(c, r) /\ Found(r) /\ Written(c, r)

\* A request under way knows the world its pod works in.
UpToDate(r) == r.at # "idle" => r.pod \in Pods /\ World(r.pod) \in r.worlds

\* A form that is on its way, and a test that begins, is of a row.
OfARow ==
    /\ \A c \in Managers : edit[c].at # "idle" => edit[c].row \in Rows
    /\ \A t \in Testers : test[t].at = "get" => test[t].row \in Rows

RegistryInv == RegistryTypeOK /\ OfARow

IInv ==
    /\ TypeOK
    /\ OfARow
    /\ \A c \in Clients : Kept(c, req[c]) /\ UpToDate(req[c])

-----------------------------------------------------------------------------
(* Registered databases and destinations.                                  *)

\* Registry's types are kept by its edits, tests, checks and outages.
LEMMA RegistryStep ==
    ASSUME RegistryInv, [RegistryNext]_registryVars
    PROVE  RegistryInv'
<1> USE RegistryAssumption DEF RegistryInv, OfARow
<1> DEFINE EditType == [op : {"none", "create", "update", "delete", "test"},
                        row : Rows \cup {None}, new : Conns \cup {None},
                        at : {"idle", "probe", "write", "test"}]
           TestType == [row : Rows \cup {None}, at : {"idle", "get", "test", "store"},
                        held : Conns \cup {None}, ok : {"none", "ok", "failed"}]
<1>a. /\ conn \in [Rows -> Conns \cup {None}]
      /\ health \in [Rows -> {"none", "ok", "failed"}]
      /\ known \subseteq Rows /\ up \subseteq Conns
      /\ edit \in [Managers -> EditType] /\ test \in [Testers -> TestType]
      /\ changes \in 0..MaxChanges
      /\ \A c \in Managers : edit[c].at # "idle" => edit[c].row \in Rows
      /\ \A t \in Testers : test[t].at = "get" => test[t].row \in Rows
  BY DEF RegistryTypeOK
<1>b. /\ NoEdit \in EditType /\ NoTest \in TestType
      /\ NoEdit.at = "idle" /\ NoTest.at = "idle"
  BY DEF NoEdit, NoTest
<1>c. \A r \in Rows : TestOf(r) \in TestType /\ TestOf(r).row = r
  BY DEF TestOf, NoTest
<1>d. ASSUME MayChange PROVE changes' \in 0..MaxChanges
  BY <1>a, <1>d DEF MayChange
<1>e. ASSUME NEW c \in Managers, EditStep(c) PROVE RegistryInv'
  <2>1. c \in Testers /\ edit[c] \in EditType
    BY <1>a DEF Testers
  <2>2. CASE ProbeForm(c)
    <3>1. /\ [edit[c] EXCEPT !.at = "write"] \in EditType
          /\ [edit[c] EXCEPT !.at = "write"].row = edit[c].row
          /\ edit[c].row \in Rows
      BY <1>a, <2>1, <2>2 DEF ProbeForm
    <3>2. edit' \in [Managers -> EditType]
      BY <1>a, <1>b, <2>2, <3>1 DEF ProbeForm
    <3>3. OfARow'
      BY <1>a, <1>b, <2>2, <3>1 DEF ProbeForm
    <3>4. QED
      BY <1>a, <2>2, <3>2, <3>3 DEF ProbeForm, rows, RegistryTypeOK
  <2>3. ASSUME ThenTest(c), edit[c].row \in Rows
        PROVE  edit' \in [Managers -> EditType] /\ test' \in [Testers -> TestType] /\ OfARow'
    <3>1. /\ [edit[c] EXCEPT !.at = "test"] \in EditType
          /\ [edit[c] EXCEPT !.at = "test"].row = edit[c].row
      BY <2>1
    <3>2. edit' = [edit EXCEPT ![c] = [edit[c] EXCEPT !.at = "test"]]
      BY <2>3 DEF ThenTest
    <3>3. QED
      BY <1>a, <1>c, <2>1, <2>3, <3>1, <3>2 DEF ThenTest
  <2>4. CASE InsertRow(c)
    <3>1. CASE edit[c].row \in known
      <4>1. edit' = [edit EXCEPT ![c] = NoEdit]
            /\ UNCHANGED <<conn, health, known, up, changes, test>>
        BY <2>4, <3>1 DEF InsertRow, rows
      <4>2. QED
        BY <1>a, <1>b, <4>1 DEF RegistryTypeOK
    <3>2. CASE edit[c].row \notin known
      <4>1. edit[c].row \in Rows /\ edit[c].new \in Conns \cup {None}
        BY <1>a, <2>1, <2>4 DEF InsertRow
      <4>2. ThenTest(c) /\ UNCHANGED <<health, up, changes>>
            /\ conn' = [conn EXCEPT ![edit[c].row] = edit[c].new]
            /\ known' = known \cup {edit[c].row}
        BY <2>4, <3>2 DEF InsertRow
      <4>3. QED
        BY <1>a, <2>3, <4>1, <4>2 DEF RegistryTypeOK
    <3>3. QED
      BY <3>1, <3>2
  <2>5. CASE UpdateRow(c)
    <3>1. CASE conn[edit[c].row] = None
      <4>1. edit' = [edit EXCEPT ![c] = NoEdit]
            /\ UNCHANGED <<conn, health, known, up, changes, test>>
        BY <2>5, <3>1 DEF UpdateRow
      <4>2. QED
        BY <1>a, <1>b, <4>1 DEF RegistryTypeOK
    <3>2. CASE conn[edit[c].row] # None
      <4>1. edit[c].row \in Rows /\ edit[c].new \in Conns \cup {None}
        BY <1>a, <2>1, <2>5 DEF UpdateRow
      <4>2. ThenTest(c) /\ UNCHANGED <<health, known, up, changes>>
            /\ conn' = [conn EXCEPT ![edit[c].row] = edit[c].new]
        BY <2>5, <3>2 DEF UpdateRow
      <4>3. QED
        BY <1>a, <2>3, <4>1, <4>2 DEF RegistryTypeOK
    <3>3. QED
      BY <3>1, <3>2
  <2>6. QED
    BY <1>e, <2>2, <2>4, <2>5 DEF EditStep
<1>1. ASSUME NEW c \in Managers, EditAborts(c) PROVE RegistryInv'
  BY <1>a, <1>b, <1>1 DEF EditAborts, Testers, rows, RegistryTypeOK
<1>2. ASSUME NEW c \in Managers, NEW r \in Rows, DeleteRow(c, r) PROVE RegistryInv'
  BY <1>a, <1>d, <1>2 DEF DeleteRow, RegistryTypeOK
<1>3. ASSUME NEW c \in Managers, NEW r \in Rows, TestExisting(c, r) PROVE RegistryInv'
  <2>1. [NoEdit EXCEPT !.op = "test", !.row = r, !.at = "test"] \in EditType
    BY DEF NoEdit
  <2>2. QED
    BY <1>a, <1>c, <1>3, <2>1 DEF TestExisting, Testers, rows, RegistryTypeOK
<1>4. ASSUME NEW c \in Managers, NEW r \in Rows, NEW op \in {"create", "update"},
             NEW new \in Conns, SubmitForm(c, op, r, new)
      PROVE  RegistryInv'
  <2>1. [op |-> op, row |-> r, new |-> new, at |-> "probe"] \in EditType
    OBVIOUS
  <2>2. edit' \in [Managers -> EditType]
    BY <1>a, <1>4, <2>1 DEF SubmitForm
  <2>3. QED
    BY <1>a, <1>d, <1>4, <2>2 DEF SubmitForm, rows, RegistryTypeOK
<1>5. ASSUME NEW w \in Workers, NEW some, NEW all, some \subseteq Rows,
             StartChecks(w, some, all)
      PROVE  RegistryInv'
  <2>1. \A t \in Testers : (\E r \in some : t = <<w, r>>) => t[2] \in Rows
    BY <1>5
  <2>2. /\ test' \in [Testers -> TestType]
        /\ \A t \in Testers : test'[t].at = "get" => test'[t].row \in Rows
    BY <1>a, <1>c, <1>5, <2>1 DEF StartChecks
  <2>3. QED
    BY <1>a, <1>5, <2>2 DEF StartChecks, rows, RegistryTypeOK
<1>6. ASSUME NEW w \in Workers, Checking(w) PROVE RegistryInv'
  <2>1. /\ FilterByTags(w, Registered(Databases)) \subseteq Rows
        /\ Registered(Destinations) \subseteq Rows
    BY DEF FilterByTags, Registered, Rows
  <2>2. QED
    BY <1>5, <1>6, <2>1 DEF Checking, TestAllDatabases, TestAllDestinations
<1>7. ASSUME NEW w \in Workers, WorkerRestarts(w) PROVE RegistryInv'
  <2>1. /\ test' \in [Testers -> TestType]
        /\ \A t \in Testers : test'[t].at = "get" => test'[t].row \in Rows
    BY <1>a, <1>b, <1>7 DEF WorkerRestarts
  <2>2. QED
    BY <1>a, <1>d, <1>7, <2>1 DEF WorkerRestarts, rows, RegistryTypeOK
<1>8. ASSUME NEW t \in Testers, TestStep(t) PROVE RegistryInv'
  <2>1. test[t] \in TestType
    BY <1>a
  <2>2. CASE GetRow(t)
    <3>1. test[t].row \in Rows /\ conn[test[t].row] \in Conns \cup {None}
      BY <1>a, <2>2 DEF GetRow
    <3>2. /\ [test[t] EXCEPT !.at = "store", !.ok = "failed"] \in TestType
          /\ conn[test[t].row] # None =>
                 [test[t] EXCEPT !.at = "test", !.held = conn[test[t].row]] \in TestType
      BY <2>1, <3>1
    <3>3. QED
      BY <1>a, <2>1, <2>2, <3>1, <3>2 DEF GetRow, rows, RegistryTypeOK
  <2>3. CASE TestConnection(t)
    BY <1>a, <2>1, <2>3 DEF TestConnection, rows, RegistryTypeOK
  <2>4. CASE StoreResult(t)
    BY <1>a, <1>b, <2>1, <2>4 DEF StoreResult, RegistryTypeOK
  <2>5. QED
    BY <1>8, <2>2, <2>3, <2>4 DEF TestStep
<1>9. ASSUME NEW v \in Conns, Outage(v) PROVE RegistryInv'
  BY <1>a, <1>d, <1>9 DEF Outage, rows, RegistryTypeOK
<1>10. CASE UNCHANGED registryVars
  BY <1>10 DEF registryVars, rows, RegistryTypeOK
<1>11. QED
  BY <1>e, <1>1, <1>2, <1>3, <1>4, <1>6, <1>7, <1>8, <1>9, <1>10 DEF RegistryNext

-----------------------------------------------------------------------------
(* What a request has been given, has read and has written.                *)

\* More worlds take nothing away.
LEMMA MeetsWorlds ==
    ASSUME NEW c \in Clients, NEW r \in Requests, Kept(c, r),
           NEW ws \in SUBSET Worlds, r.worlds \subseteq ws
    PROVE  /\ [r EXCEPT !.worlds = ws] \in Requests
           /\ Kept(c, [r EXCEPT !.worlds = ws])
<1> DEFINE s == [r EXCEPT !.worlds = ws]
<1>1. s \in Requests
  BY DEF Requests
<1>2. /\ s.op = r.op /\ s.at = r.at /\ s.access = r.access /\ s.preset = r.preset
      /\ s.env = r.env /\ s.choice = r.choice /\ s.source = r.source
      /\ s.target = r.target /\ s.registered = r.registered /\ s.database = r.database
      /\ s.conn = r.conn /\ s.dump = r.dump /\ s.job = r.job /\ s.entry = r.entry
      /\ s.left = r.left /\ s.worlds = ws
  BY DEF Requests
<1> HIDE DEF s
<1>3. /\ JobOf(s) = JobOf(r) /\ EntryOf(c, s) = EntryOf(c, r)
      /\ \A w : MayIn(w, c, s) <=> MayIn(w, c, r)
      /\ \A w : FoundIn(w, s) <=> FoundIn(w, r)
      /\ \A w : NewestIn(w, s) <=> NewestIn(w, r)
      /\ Chosen(s) <=> Chosen(r)
  BY <1>2 DEF JobOf, EntryOf, MayIn, FoundIn, NewestIn, Chosen
<1>4. AskedFor(s) /\ Written(c, s)
  BY <1>2, <1>3 DEF Kept, AskedFor, Written
<1>5. Passed(c, s)
  BY <1>2, <1>3 DEF Kept, Passed
<1>6. Found(s)
  BY <1>2, <1>3 DEF Kept, Found
<1>7. QED
  BY <1>1, <1>4, <1>5, <1>6 DEF s, Kept

-----------------------------------------------------------------------------
(* The steps of a request.                                                 *)

\* A request with another value of the right kind in a field is a request.
LEMMA FieldTypes ==
    ASSUME NEW r \in Requests
    PROVE  /\ \A x \in Stages : [r EXCEPT !.at = x] \in Requests
           /\ \A x \in Sources \cup Databases : [r EXCEPT !.source = x] \in Requests
           /\ \A x \in Targets : [r EXCEPT !.target = x] \in Requests
           /\ \A x \in SUBSET Databases : [r EXCEPT !.registered = x] \in Requests
           /\ \A x \in Databases \cup {None} : [r EXCEPT !.database = x] \in Requests
           /\ \A x \in Conns \cup {None} : [r EXCEPT !.conn = x] \in Requests
           /\ \A x \in NewestOnes : [r EXCEPT !.dump = x] \in Requests
           /\ \A x \in JobType : [r EXCEPT !.job = x] \in Requests
           /\ \A x \in EntryType : [r EXCEPT !.entry = x] \in Requests
           /\ \A x \in BOOLEAN : [r EXCEPT !.left = x] \in Requests
           /\ \A x \in Ops : [r EXCEPT !.op = x] \in Requests
           /\ \A x \in Pods : [r EXCEPT !.pod = x] \in Requests
           /\ \A x \in Accesses : [r EXCEPT !.access = x] \in Requests
           /\ \A x \in Presets \cup {None} : [r EXCEPT !.preset = x] \in Requests
           /\ \A x \in Envs \cup {None} : [r EXCEPT !.env = x] \in Requests
           /\ \A x \in SUBSET Dumps : [r EXCEPT !.choice = x] \in Requests
           /\ \A x \in SUBSET Worlds : [r EXCEPT !.worlds = x] \in Requests
<1>1. \A x \in Stages : [r EXCEPT !.at = x] \in Requests
  BY DEF Requests
<1>2. \A x \in Sources \cup Databases : [r EXCEPT !.source = x] \in Requests
  BY DEF Requests
<1>3. \A x \in Targets : [r EXCEPT !.target = x] \in Requests
  BY DEF Requests
<1>4. \A x \in SUBSET Databases : [r EXCEPT !.registered = x] \in Requests
  BY DEF Requests
<1>5. \A x \in Databases \cup {None} : [r EXCEPT !.database = x] \in Requests
  BY DEF Requests
<1>6. \A x \in Conns \cup {None} : [r EXCEPT !.conn = x] \in Requests
  BY DEF Requests
<1>7. \A x \in NewestOnes : [r EXCEPT !.dump = x] \in Requests
  BY DEF Requests
<1>8. \A x \in JobType : [r EXCEPT !.job = x] \in Requests
  BY DEF Requests
<1>9. \A x \in EntryType : [r EXCEPT !.entry = x] \in Requests
  BY DEF Requests
<1>10. \A x \in BOOLEAN : [r EXCEPT !.left = x] \in Requests
  BY DEF Requests
<1>11. \A x \in Ops : [r EXCEPT !.op = x] \in Requests
  BY DEF Requests
<1>12. \A x \in Pods : [r EXCEPT !.pod = x] \in Requests
  BY DEF Requests
<1>13. \A x \in Accesses : [r EXCEPT !.access = x] \in Requests
  BY DEF Requests
<1>14. \A x \in Presets \cup {None} : [r EXCEPT !.preset = x] \in Requests
  BY DEF Requests
<1>15. \A x \in Envs \cup {None} : [r EXCEPT !.env = x] \in Requests
  BY DEF Requests
<1>16. \A x \in SUBSET Dumps : [r EXCEPT !.choice = x] \in Requests
  BY DEF Requests
<1>17. \A x \in SUBSET Worlds : [r EXCEPT !.worlds = x] \in Requests
  BY DEF Requests
<1>18. QED
  BY <1>1, <1>2, <1>3, <1>4, <1>5, <1>6, <1>7, <1>8, <1>9, <1>10, <1>11, <1>12,
     <1>13, <1>14, <1>15, <1>16, <1>17

\* The present world is one a request under way has met.
LEMMA AtWork ==
    ASSUME IInv, NEW c \in Clients, req[c].at # "idle"
    PROVE  /\ req[c] \in Requests /\ Kept(c, req[c])
           /\ req[c].pod \in Pods /\ applied[req[c].pod] \in Configs
           /\ World(req[c].pod) \in Worlds
           /\ World(req[c].pod) \in req[c].worlds
           /\ World(req[c].pod).config = applied[req[c].pod]
           /\ World(req[c].pod).conn = conn
           /\ World(req[c].pod).dumps = dumps
BY DEF IInv, TypeOK, RegistryTypeOK, UpToDate, World, Worlds

\* A step of one request, after which it holds what its stage asks for.
LEMMA ThenKeeps ==
    ASSUME IInv, NEW c \in Clients, NEW s \in Requests, Kept(c, s), Then(c, s),
           s.at # "idle" =>
               req[c].at # "idle" /\ s.pod = req[c].pod /\ s.worlds = req[c].worlds
    PROVE  IInv'
<1>1. /\ req' = [req EXCEPT ![c] = s] /\ UNCHANGED form /\ Unchanged
  BY DEF Then
<1>2. TypeOK' /\ OfARow'
  BY <1>1 DEF IInv, TypeOK, Unchanged, registryVars, rows, RegistryTypeOK, OfARow
<1>3. \A p \in Pods : World(p)' = World(p)
  BY <1>1 DEF World, Unchanged, registryVars, rows
<1>4. ASSUME NEW d \in Clients PROVE Kept(d, req'[d]) /\ UpToDate(req[d])'
  <2>1. CASE d = c
    <3>1. req'[d] = s
      BY <1>1, <2>1 DEF IInv, TypeOK
    <3>2. QED
      BY <1>3, <2>1, <3>1 DEF IInv, UpToDate
  <2>2. CASE d # c
    <3>1. req'[d] = req[d]
      BY <1>1, <2>2 DEF IInv, TypeOK
    <3>2. QED
      BY <1>3, <3>1 DEF IInv, UpToDate
  <2>3. QED
    BY <2>1, <2>2
<1>5. QED
  BY <1>2, <1>4 DEF IInv

LEMMA AdmitKeeps ==
    ASSUME IInv, NEW c \in Clients, Admit(c)
    PROVE  IInv'
<1> DEFINE r == req[c]
           w == World(r.pod)
           s == [r EXCEPT !.at = "find"]
<1>1. r.at = "admit" /\ r.op \in Wizard \cup {"api", "api_download"} /\ Admitted(c) /\ Then(c, s)
  BY DEF Admit, Goes
<1>2. r \in Requests /\ Kept(c, r) /\ w \in r.worlds /\ w.config = applied[r.pod]
  BY <1>1, AtWork
<1>3. s \in Requests
  BY <1>2 DEF Requests, Stages
<1>4. /\ s.op = r.op /\ s.at = "find" /\ s.access = r.access /\ s.preset = r.preset
      /\ s.env = r.env /\ s.choice = r.choice /\ s.job = r.job /\ s.entry = r.entry
      /\ s.worlds = r.worlds /\ s.pod = r.pod
  BY <1>2 DEF Requests
<1>5. PICK v \in r.worlds : r.access = AccessIn(v, c)
  BY <1>1, <1>2 DEF Kept, Passed
<1>6. \E u \in s.worlds : MayIn(u, c, s)
  <2>1. CASE Enabled(applied[r.pod])
    <3>1. /\ r.op = "api_download" => CanViewPreset(r.access, r.preset)
          /\ r.op \in OfTarget => CanExecutePreset(r.access, r.preset)
      BY <1>1, <2>1 DEF Admitted, OfTarget, Restores
    <3>2. MayIn(v, c, s)
      BY <1>1, <1>4, <1>5, <3>1 DEF MayIn, Runs, Wizard, WizardPages
    <3>3. QED
      BY <1>4, <3>2
  <2>2. CASE ~Enabled(applied[r.pod])
    <3>1. AccessIn(w, c) = Unrestricted /\ Unrestricted.all
      BY <1>2, <2>2 DEF AccessIn, AccessOf, Unrestricted
    <3>2. MayIn(w, c, s)
      BY <3>1, <1>1, <1>4 DEF MayIn, CanViewPreset, CanExecutePreset, Runs, Wizard, WizardPages
    <3>3. QED
      BY <1>2, <1>4, <3>2
  <2>3. QED
    BY <2>1, <2>2
<1> HIDE DEF s
<1>7. AskedFor(s) /\ Found(s) /\ Written(c, s)
  BY <1>1, <1>2, <1>4 DEF Kept, AskedFor, Found, Chosen, Written, StagesOf, Wizard,
     WizardPages, Restores, Stages, Runs, OfTarget, EntryOf
<1>8. Passed(c, s)
  BY <1>4, <1>5, <1>6 DEF Passed
<1>9. QED
  BY <1>1, <1>2, <1>3, <1>4, <1>7, <1>8, ThenKeeps DEF Kept

\* What a preset names is among what presets name.
LEMMA NamedByPresets ==
    ASSUME NEW config \in Configs, NEW preset \in PresetsIn(config)
    PROVE  preset.source \in Sources /\ \A e \in Envs : preset.targets[e] \in Targets
<1>1. preset.source \in Sources
  BY DEF Sources
<1>2. ASSUME NEW e \in Envs PROVE preset.targets[e] \in Targets
  <2> DEFINE named == {other.targets[f] : other \in PresetsIn(config), f \in Envs}
  <2>1. preset.targets[e] \in named
    OBVIOUS
  <2>2. named \subseteq Targets
    BY DEF Targets
  <2>3. QED
    BY <2>1, <2>2
<1>3. QED
  BY <1>1, <1>2

LEMMA FindTargetKeeps ==
    ASSUME IInv, NEW c \in Clients, FindTarget(c)
    PROVE  IInv'
<1> USE ConsoleAssumption
<1> DEFINE r == req[c]
           w == World(r.pod)
           preset == applied[r.pod].presets[r.preset]
           target == preset.targets[r.env]
           s == [r EXCEPT !.source = preset.source, !.target = target, !.at = "registered"]
<1>1. /\ r.at = "find" /\ r.op \in OfTarget
      /\ preset # None /\ Then(c, s)
  BY DEF FindTarget, Goes, OfTarget, FindRestorePreset, FindRestoreTargetByEnvironment
<1>2. /\ r \in Requests /\ Kept(c, r) /\ w \in r.worlds /\ w.config = applied[r.pod]
      /\ applied[r.pod] \in Configs
  BY <1>1, AtWork
<1>3. r.preset \in Presets /\ r.env \in Envs
  BY <1>1, <1>2 DEF Kept, AskedFor
<1>4. preset \in PresetsIn(applied[r.pod])
  BY <1>1, <1>3 DEF PresetsIn, PresetsOf
<1>5. preset.source \in Sources /\ target \in Targets
  BY <1>2, <1>3, <1>4, NamedByPresets
<1>6. s \in Requests
  <2> DEFINE s1 == [r EXCEPT !.source = preset.source]
             s2 == [s1 EXCEPT !.target = target]
  <2>1. s1 \in Requests
    BY <1>2, <1>5, FieldTypes
  <2>2. s2 \in Requests
    BY <1>5, <2>1, FieldTypes
  <2>3. s = [s2 EXCEPT !.at = "registered"]
    OBVIOUS
  <2>4. QED
    BY <2>2, <2>3, FieldTypes DEF Stages
<1>7. /\ s.op = r.op /\ s.at = "registered" /\ s.access = r.access /\ s.preset = r.preset
      /\ s.env = r.env /\ s.choice = r.choice /\ s.job = r.job /\ s.entry = r.entry
      /\ s.source = preset.source /\ s.target = target
      /\ s.worlds = r.worlds /\ s.pod = r.pod
  BY <1>2 DEF Requests
<1> HIDE DEF s
<1>8. FoundIn(w, s)
  BY <1>1, <1>2, <1>7 DEF FoundIn
<1>9. AskedFor(s) /\ Written(c, s)
  BY <1>1, <1>2, <1>7 DEF Kept, AskedFor, Written, StagesOf, WizardPages, Restores,
     Stages, Runs, OfTarget, Downloads
<1>10. \A v : MayIn(v, c, s) <=> MayIn(v, c, r)
  BY <1>1, <1>7 DEF MayIn, OfTarget, Restores, Runs
<1>11. Passed(c, s)
  BY <1>1, <1>2, <1>7, <1>10 DEF Kept, Passed
<1>12. Found(s)
  BY <1>1, <1>2, <1>5, <1>7, <1>8 DEF Found, Chosen
<1>13. QED
  BY <1>1, <1>2, <1>6, <1>7, <1>9, <1>11, <1>12, ThenKeeps DEF Kept

LEMMA LoadRegisteredKeeps ==
    ASSUME IInv, NEW c \in Clients, LoadRegisteredDatabaseIDs(c)
    PROVE  IInv'
<1> DEFINE r == req[c]
           s == [r EXCEPT !.registered = Registered(Databases), !.at = "ready"]
<1>1. r.at = "registered" /\ Then(c, s)
  BY DEF LoadRegisteredDatabaseIDs, Goes
<1>2. r \in Requests /\ Kept(c, r)
  BY <1>1, AtWork
<1>3. Registered(Databases) \subseteq Databases
  BY DEF Registered
<1>4. s \in Requests
  <2> DEFINE s1 == [r EXCEPT !.registered = Registered(Databases)]
  <2>1. s1 \in Requests
    BY <1>2, <1>3, FieldTypes
  <2>2. s = [s1 EXCEPT !.at = "ready"]
    OBVIOUS
  <2>3. QED
    BY <2>1, <2>2, FieldTypes DEF Stages
<1>5. /\ s.op = r.op /\ s.at = "ready" /\ s.access = r.access /\ s.preset = r.preset
      /\ s.env = r.env /\ s.choice = r.choice /\ s.job = r.job /\ s.entry = r.entry
      /\ s.source = r.source /\ s.target = r.target /\ s.registered = Registered(Databases)
      /\ s.worlds = r.worlds /\ s.pod = r.pod
  BY <1>2 DEF Requests
<1> HIDE DEF s
<1>6. r.op \in OfTarget
  BY <1>1, <1>2 DEF Kept, AskedFor, StagesOf, OfTarget, Stages
<1>7. /\ \A v : MayIn(v, c, s) <=> MayIn(v, c, r)
      /\ \A v : FoundIn(v, s) <=> FoundIn(v, r)
  BY <1>5 DEF MayIn, FoundIn
<1>8. AskedFor(s) /\ Written(c, s)
  BY <1>1, <1>2, <1>5, <1>6 DEF Kept, AskedFor, Written, StagesOf, WizardPages, Restores,
     Stages, Runs, OfTarget, Downloads
<1>9. Passed(c, s)
  BY <1>1, <1>2, <1>5, <1>7 DEF Kept, Passed
<1>10. Found(s)
  BY <1>1, <1>2, <1>3, <1>5, <1>7 DEF Kept, Found, Chosen
<1>11. QED
  BY <1>1, <1>2, <1>4, <1>5, <1>8, <1>9, <1>10, ThenKeeps DEF Kept

\* The newest dump of some is one of the values a request can hold.
LEMMA DumpNumber ==
    ASSUME NEW some \in SUBSET Dumps, some # {}
    PROVE  Newest(some) \in NewestOnes
BY DEF NewestOnes

LEMMA LoadContextKeeps ==
    ASSUME IInv, NEW c \in Clients, LoadPresetBuildContext(c)
    PROVE  IInv'
<1> DEFINE r == req[c]
           w == World(r.pod)
           some == SuccessesOf(r.source)
           s == [r EXCEPT !.dump = Newest(some), !.at = "connect"]
<1>1. r.at = "ready" /\ some # {} /\ Then(c, s)
  BY DEF LoadPresetBuildContext, Goes
<1>2. /\ r \in Requests /\ Kept(c, r) /\ w \in r.worlds /\ w.dumps = dumps
      /\ dumps \subseteq Dumps
  BY <1>1, AtWork DEF IInv, TypeOK
<1>3. some \subseteq Dumps /\ some = Dumps \cap SuccessesIn(w, r.source)
  BY <1>2 DEF SuccessesOf, SuccessesIn
<1>4. s \in Requests
  <2>1. Newest(some) \in NewestOnes
    BY <1>1, <1>3, DumpNumber
  <2> DEFINE s1 == [r EXCEPT !.dump = Newest(some)]
  <2>2. s1 \in Requests
    BY <1>2, <2>1, FieldTypes
  <2>3. s = [s1 EXCEPT !.at = "connect"]
    OBVIOUS
  <2>4. QED
    BY <2>2, <2>3, FieldTypes DEF Stages
<1>5. /\ s.op = r.op /\ s.at = "connect" /\ s.access = r.access /\ s.preset = r.preset
      /\ s.env = r.env /\ s.choice = r.choice /\ s.job = r.job /\ s.entry = r.entry
      /\ s.source = r.source /\ s.target = r.target /\ s.registered = r.registered
      /\ s.dump = Newest(some) /\ s.worlds = r.worlds /\ s.pod = r.pod
  BY <1>2 DEF Requests
<1> HIDE DEF s
<1>6. r.op \in OfTarget
  BY <1>1, <1>2 DEF Kept, AskedFor, StagesOf, OfTarget, Stages
<1>7. /\ \A v : MayIn(v, c, s) <=> MayIn(v, c, r)
      /\ \A v : FoundIn(v, s) <=> FoundIn(v, r)
  BY <1>5 DEF MayIn, FoundIn
<1>8. r.op = "fix_owner" => NewestIn(w, s)
  BY <1>1, <1>3, <1>5 DEF NewestIn
<1>9. AskedFor(s) /\ Written(c, s)
  BY <1>1, <1>2, <1>5, <1>6 DEF Kept, AskedFor, Written, StagesOf, WizardPages, Restores,
     Stages, Runs, OfTarget, Downloads
<1>10. Passed(c, s)
  BY <1>1, <1>2, <1>5, <1>7 DEF Kept, Passed
<1>11. Found(s)
  BY <1>1, <1>2, <1>5, <1>6, <1>7, <1>8 DEF Kept, Found, Chosen
<1>12. QED
  BY <1>1, <1>2, <1>4, <1>5, <1>9, <1>10, <1>11, ThenKeeps DEF Kept

LEMMA ConnectionKeeps ==
    ASSUME IInv, NEW c \in Clients, ResolveRestoreTargetConnection(c)
    PROVE  IInv'
<1> DEFINE r == req[c]
           w == World(r.pod)
           database == IF r.target.name \in r.registered THEN r.target.name ELSE r.source
           next == IF r.op = "fix_owner" THEN "enqueue" ELSE "choose"
           own == IF database = r.target.name THEN database ELSE None
           s == [r EXCEPT !.conn = conn[database], !.database = own, !.at = next]
<1>1. r.at = "connect" /\ database \in r.registered /\ Then(c, s)
  BY DEF ResolveRestoreTargetConnection, Goes
<1>2. /\ r \in Requests /\ Kept(c, r) /\ w \in r.worlds /\ w.conn = conn
      /\ conn \in [Rows -> Conns \cup {None}]
  BY <1>1, AtWork DEF IInv, TypeOK, RegistryTypeOK
<1>3. r.op \in OfTarget
  BY <1>1, <1>2 DEF Kept, AskedFor, StagesOf, OfTarget, Stages
<1>4. database \in Databases /\ conn[database] \in Conns \cup {None}
  <2>1. r.registered \subseteq Databases
    BY <1>2 DEF Requests
  <2>2. database \in Databases /\ database \in Rows
    BY <1>1, <2>1 DEF Rows
  <2>3. QED
    BY <1>2, <2>2
<1>5. s \in Requests
  <2>1. own \in Databases \cup {None} /\ next \in Stages
    BY <1>4 DEF Stages
  <2> DEFINE s1 == [r EXCEPT !.conn = conn[database]]
             s2 == [s1 EXCEPT !.database = own]
  <2>2. s1 \in Requests
    BY <1>2, <1>4, FieldTypes
  <2>3. s2 \in Requests
    BY <2>1, <2>2, FieldTypes
  <2>4. s = [s2 EXCEPT !.at = next]
    OBVIOUS
  <2>5. QED
    BY <2>1, <2>3, <2>4, FieldTypes
<1>6. /\ s.op = r.op /\ s.at = next /\ s.access = r.access /\ s.preset = r.preset
      /\ s.env = r.env /\ s.choice = r.choice /\ s.job = r.job /\ s.entry = r.entry
      /\ s.source = r.source /\ s.target = r.target /\ s.conn = conn[database]
      /\ s.dump = r.dump /\ s.worlds = r.worlds /\ s.pod = r.pod
  BY <1>2 DEF Requests
<1> HIDE DEF s
<1>7. /\ \A v : MayIn(v, c, s) <=> MayIn(v, c, r)
      /\ \A v : FoundIn(v, s) <=> FoundIn(v, r)
      /\ \A v : NewestIn(v, s) <=> NewestIn(v, r)
  BY <1>6 DEF MayIn, FoundIn, NewestIn
<1>8. ConnectedIn(w, JobOf(s))
  BY <1>2, <1>4, <1>6 DEF ConnectedIn, JobOf
<1>9. AskedFor(s) /\ Written(c, s)
  BY <1>1, <1>2, <1>3, <1>6 DEF Kept, AskedFor, Written, StagesOf, WizardPages, Restores,
     Stages, Runs, OfTarget, Downloads
<1>10. Passed(c, s)
  BY <1>1, <1>2, <1>6, <1>7 DEF Kept, Passed
<1>11. Found(s)
  BY <1>1, <1>2, <1>3, <1>6, <1>7, <1>8 DEF Kept, Found, Chosen, Restores
<1>12. QED
  BY <1>1, <1>2, <1>5, <1>6, <1>9, <1>10, <1>11, ThenKeeps DEF Kept

LEMMA ExecutionKeeps ==
    ASSUME IInv, NEW c \in Clients, ResolveRestoreExecution(c)
    PROVE  IInv'
<1> DEFINE r == req[c]
           w == World(r.pod)
           some == r.choice \cap SuccessesOf(r.source)
           s == [r EXCEPT !.dump = Newest(some), !.at = "preflight"]
<1>1. r.at = "choose" /\ some # {} /\ Then(c, s)
  BY DEF ResolveRestoreExecution, Goes
<1>2. /\ r \in Requests /\ Kept(c, r) /\ w \in r.worlds /\ w.dumps = dumps
      /\ dumps \subseteq Dumps
  BY <1>1, AtWork DEF IInv, TypeOK
<1>3. some \subseteq Dumps /\ some = r.choice \cap SuccessesIn(w, r.source)
  BY <1>2 DEF SuccessesOf, SuccessesIn
<1>4. s \in Requests
  <2> DEFINE s1 == [r EXCEPT !.dump = Newest(some)]
  <2>1. Newest(some) \in NewestOnes
    BY <1>1, <1>3, DumpNumber
  <2>2. s1 \in Requests
    BY <1>2, <2>1, FieldTypes
  <2>3. s = [s1 EXCEPT !.at = "preflight"]
    OBVIOUS
  <2>4. QED
    BY <2>2, <2>3, FieldTypes DEF Stages
<1>5. /\ s.op = r.op /\ s.at = "preflight" /\ s.access = r.access /\ s.preset = r.preset
      /\ s.env = r.env /\ s.choice = r.choice /\ s.job = r.job /\ s.entry = r.entry
      /\ s.source = r.source /\ s.target = r.target /\ s.database = r.database
      /\ s.conn = r.conn /\ s.dump = Newest(some) /\ s.worlds = r.worlds /\ s.pod = r.pod
  BY <1>2 DEF Requests
<1> HIDE DEF s
<1>6. r.op \in Restores
  BY <1>1, <1>2 DEF Kept, AskedFor, StagesOf, OfTarget, Stages
<1>7. /\ \A v : MayIn(v, c, s) <=> MayIn(v, c, r)
      /\ \A v : FoundIn(v, s) <=> FoundIn(v, r)
  BY <1>5 DEF MayIn, FoundIn
<1>8. \A v : ConnectedIn(v, JobOf(s)) <=> ConnectedIn(v, JobOf(r))
  BY <1>5 DEF ConnectedIn, JobOf
<1>9. NewestIn(w, s)
  BY <1>1, <1>3, <1>5, <1>6 DEF NewestIn, Restores
<1>10. AskedFor(s) /\ Written(c, s)
  BY <1>1, <1>2, <1>5, <1>6 DEF Kept, AskedFor, Written, StagesOf, WizardPages, Restores,
     Stages, Runs, OfTarget, Downloads
<1>11. Passed(c, s)
  BY <1>1, <1>2, <1>5, <1>7 DEF Kept, Passed
<1>12. Found(s)
  BY <1>1, <1>2, <1>5, <1>6, <1>7, <1>8, <1>9 DEF Kept, Found, Chosen, OfTarget
<1>13. QED
  BY <1>1, <1>2, <1>4, <1>5, <1>10, <1>11, <1>12, ThenKeeps DEF Kept

\* A stage that is left with nothing new in hand.
LEMMA PreflightKeeps ==
    ASSUME IInv, NEW c \in Clients, PreflightTarget(c)
    PROVE  IInv'
<1> DEFINE r == req[c]
           s == [r EXCEPT !.at = "enqueue"]
<1>1. r.at = "preflight" /\ Then(c, s)
  BY DEF PreflightTarget, Goes
<1>2. r \in Requests /\ Kept(c, r)
  BY <1>1, AtWork
<1>3. s \in Requests
  BY <1>2, FieldTypes DEF Stages
<1>4. /\ s.op = r.op /\ s.at = "enqueue" /\ s.access = r.access /\ s.preset = r.preset
      /\ s.env = r.env /\ s.choice = r.choice /\ s.job = r.job /\ s.entry = r.entry
      /\ s.source = r.source /\ s.target = r.target /\ s.database = r.database
      /\ s.conn = r.conn /\ s.dump = r.dump /\ s.worlds = r.worlds /\ s.pod = r.pod
  BY <1>2 DEF Requests
<1> HIDE DEF s
<1>5. r.op \in Restores
  BY <1>1, <1>2 DEF Kept, AskedFor, StagesOf, OfTarget, Stages
<1>6. /\ \A v : MayIn(v, c, s) <=> MayIn(v, c, r)
      /\ \A v : FoundIn(v, s) <=> FoundIn(v, r)
      /\ \A v : NewestIn(v, s) <=> NewestIn(v, r)
      /\ JobOf(s) = JobOf(r)
  BY <1>4 DEF MayIn, FoundIn, NewestIn, JobOf
<1>7. AskedFor(s) /\ Written(c, s)
  BY <1>1, <1>2, <1>4, <1>5 DEF Kept, AskedFor, Written, StagesOf, WizardPages, Restores,
     Stages, Runs, OfTarget, Downloads
<1>8. Passed(c, s)
  BY <1>1, <1>2, <1>4, <1>6 DEF Kept, Passed
<1>9. Found(s)
  BY <1>1, <1>2, <1>4, <1>5, <1>6 DEF Kept, Found, Chosen, OfTarget
<1>10. QED
  BY <1>1, <1>2, <1>3, <1>4, <1>7, <1>8, <1>9, ThenKeeps DEF Kept

\* The one dump that a page or a link names, and the database it is of.
LEMMA OneDump ==
    ASSUME NEW d \in Dumps
    PROVE  Newest({d}) = d /\ {d} \in (SUBSET Dumps) \ {{}} /\ DumpOf[d] \in Databases
<1>1. d \in Nat /\ d <= d /\ DumpOf[d] \in Databases
  BY ConsoleAssumption
<1>2. QED
  BY <1>1 DEF Newest

\* A backup that is run by hand, or a dump to be downloaded.
LEMMA AdmitOfBackupKeeps ==
    ASSUME IInv, NEW c \in Clients, AdmitRun(c) \/ AdmitDownload(c)
    PROVE  IInv'
<1> DEFINE r == req[c]
           source == DumpOf[Newest(r.choice)]
           next == IF r.op = "download" THEN "link" ELSE "enqueue"
           s == [r EXCEPT !.source = source, !.at = next]
<1>1. /\ r.at = "admit" /\ r.op \in Runs \cup {"download"} /\ Then(c, s)
      /\ r.op \in Runs => CanExecutePbwName(r.access, source)
      /\ r.op = "download" => CanViewPbwName(r.access, source)
  BY DEF AdmitRun, AdmitDownload, Goes, Runs
<1>2. r \in Requests /\ Kept(c, r)
  BY <1>1, AtWork
<1>3. source \in Databases
  <2>1. PICK d \in Dumps : r.choice = {d}
    BY <1>1, <1>2 DEF Kept, AskedFor, Downloads
  <2>2. QED
    BY <2>1, OneDump
<1>4. s \in Requests
  <2> DEFINE s1 == [r EXCEPT !.source = source]
  <2>1. s1 \in Requests
    BY <1>2, <1>3, FieldTypes
  <2>2. s = [s1 EXCEPT !.at = next]
    OBVIOUS
  <2>3. QED
    BY <2>1, <2>2, FieldTypes DEF Stages
<1>5. /\ s.op = r.op /\ s.at = next /\ s.access = r.access /\ s.preset = r.preset
      /\ s.env = r.env /\ s.choice = r.choice /\ s.job = r.job /\ s.entry = r.entry
      /\ s.source = source /\ s.worlds = r.worlds /\ s.pod = r.pod
  BY <1>2 DEF Requests
<1> HIDE DEF s
<1>6. PICK v \in r.worlds : r.access = AccessIn(v, c)
  BY <1>1, <1>2 DEF Kept, Passed
<1>7. MayIn(v, c, s)
  BY <1>1, <1>5, <1>6 DEF MayIn, Runs, OfTarget, Restores
<1>8. AskedFor(s) /\ Written(c, s)
  BY <1>1, <1>2, <1>5 DEF Kept, AskedFor, Written, StagesOf, WizardPages, Restores,
     Stages, Runs, OfTarget, Downloads
<1>9. Passed(c, s)
  BY <1>1, <1>5, <1>6, <1>7 DEF Passed
<1>10. Found(s)
  BY <1>1, <1>3, <1>5 DEF Found, Chosen, OfTarget, Restores, Runs
<1>11. QED
  BY <1>1, <1>2, <1>4, <1>5, <1>8, <1>9, <1>10, ThenKeeps DEF Kept

LEMMA FindBackupKeeps ==
    ASSUME IInv, NEW c \in Clients, FindBackup(c)
    PROVE  IInv'
<1> DEFINE r == req[c]
           w == World(r.pod)
           preset == applied[r.pod].presets[r.preset]
           s == [r EXCEPT !.source = preset.source, !.at = "link"]
<1>1. /\ r.at = "find" /\ r.op = "api_download" /\ preset # None
      /\ r.choice \cap SuccessesOf(preset.source) # {} /\ Then(c, s)
  BY DEF FindBackup, Goes, FindRestorePreset
<1>2. /\ r \in Requests /\ Kept(c, r) /\ w \in r.worlds /\ w.config = applied[r.pod]
      /\ applied[r.pod] \in Configs
  BY <1>1, AtWork
<1>3. r.preset \in Presets
  BY <1>1, <1>2 DEF Kept, AskedFor
<1>4. preset.source \in Sources
  <2>1. preset \in PresetsIn(applied[r.pod])
    BY <1>1, <1>3 DEF PresetsIn, PresetsOf
  <2>2. QED
    BY <1>2, <2>1, NamedByPresets
<1>5. s \in Requests
  <2> DEFINE s1 == [r EXCEPT !.source = preset.source]
  <2>1. s1 \in Requests
    BY <1>2, <1>4, FieldTypes
  <2>2. s = [s1 EXCEPT !.at = "link"]
    OBVIOUS
  <2>3. QED
    BY <2>1, <2>2, FieldTypes DEF Stages
<1>6. /\ s.op = r.op /\ s.at = "link" /\ s.access = r.access /\ s.preset = r.preset
      /\ s.env = r.env /\ s.choice = r.choice /\ s.job = r.job /\ s.entry = r.entry
      /\ s.source = preset.source /\ s.worlds = r.worlds /\ s.pod = r.pod
  BY <1>2 DEF Requests
<1> HIDE DEF s
<1>7. DumpOf[Newest(s.choice)] = s.source
  <2>1. PICK d \in Dumps : r.choice = {d}
    BY <1>1, <1>2 DEF Kept, AskedFor, Downloads
  <2>2. DumpOf[d] = preset.source
    BY <1>1, <2>1 DEF SuccessesOf
  <2>3. QED
    BY <1>6, <2>1, <2>2, OneDump
<1>8. FoundIn(w, s)
  BY <1>1, <1>2, <1>6 DEF FoundIn, OfTarget, Restores
<1>9. \A v : MayIn(v, c, s) <=> MayIn(v, c, r)
  BY <1>1, <1>6 DEF MayIn, Runs
<1>10. AskedFor(s) /\ Written(c, s)
  BY <1>1, <1>2, <1>6 DEF Kept, AskedFor, Written, StagesOf, WizardPages, Restores,
     Stages, Runs, OfTarget, Downloads
<1>11. Passed(c, s)
  BY <1>1, <1>2, <1>6, <1>9 DEF Kept, Passed
<1>12. Found(s)
  BY <1>1, <1>2, <1>4, <1>6, <1>7, <1>8 DEF Found, Chosen, OfTarget, Restores
<1>13. QED
  BY <1>1, <1>2, <1>5, <1>6, <1>10, <1>11, <1>12, ThenKeeps DEF Kept

\* The job of a request that has a source is a job, and its entry an entry.
LEMMA Typed ==
    ASSUME NEW c \in Clients, NEW r \in Requests, r.op # "none",
           r.source \in Sources \cup Databases
    PROVE  /\ JobOf(r) \in JobType /\ EntryOf(c, r) \in EntryType
           /\ JobOf(r) # None /\ EntryOf(c, r) # None
<1>1. JobOf(r) \in JobType
  BY DEF JobOf, JobType, Requests
<1>2. EntryOf(c, r) \in EntryType
  <2>1. /\ UserOf[c] \in STRING /\ r.preset \in Presets \cup {None}
        /\ r.env \in Envs \cup {None}
    BY ConsoleAssumption DEF Requests
  <2>2. ActionOf(r.op) \in {"run_restore", "fix_owner", "download_dump", "run_backup"}
    BY DEF ActionOf
  <2>3. QED
    BY <2>1, <2>2 DEF EntryOf, EntryType
<1>3. QED
  BY <1>1, <1>2, ConsoleAssumption

LEMMA LinkKeeps ==
    ASSUME IInv, NEW c \in Clients, Link(c)
    PROVE  IInv'
<1> DEFINE r == req[c]
           w == World(r.pod)
           s1 == [r EXCEPT !.dump = Newest(r.choice)]
           s2 == [s1 EXCEPT !.job = JobOf(s1)]
           s == [s2 EXCEPT !.at = "log"]
<1>1. r.at = "link" /\ s1.dump \in dumps /\ Then(c, s)
  <2>1. s = [s1 EXCEPT !.job = JobOf(s1), !.at = "log"]
    OBVIOUS
  <2>2. QED
    BY <2>1 DEF Link, Goes
<1>2. /\ r \in Requests /\ Kept(c, r) /\ w \in r.worlds /\ w.dumps = dumps
  BY <1>1, AtWork
<1>3. r.op \in Downloads
  BY <1>1, <1>2 DEF Kept, AskedFor, StagesOf, Stages, Downloads, WizardPages, Restores
<1>4. r.source \in Sources \cup Databases /\ DumpOf[Newest(r.choice)] = r.source
  BY <1>1, <1>2 DEF Kept, Found
<1>5. s1 \in Requests /\ s1.source = r.source /\ s1.op = r.op /\ s1.dump = Newest(r.choice)
  <2>1. PICK d \in Dumps : r.choice = {d}
    BY <1>2, <1>3 DEF Kept, AskedFor
  <2>2. Newest(r.choice) \in NewestOnes
    BY <2>1, OneDump, DumpNumber
  <2>3. s1 \in Requests
    BY <1>2, <2>2, FieldTypes
  <2>4. QED
    BY <1>2, <2>3 DEF Requests
<1>6. JobOf(s1) \in JobType
  BY <1>3, <1>4, <1>5, Typed DEF Downloads
<1>7. s \in Requests
  <2>1. s2 \in Requests
    BY <1>5, <1>6, FieldTypes
  <2>2. QED
    BY <2>1, FieldTypes DEF Stages
<1>8. /\ s.op = r.op /\ s.at = "log" /\ s.access = r.access /\ s.preset = r.preset
      /\ s.env = r.env /\ s.choice = r.choice /\ s.job = JobOf(s1) /\ s.entry = r.entry
      /\ s.source = r.source /\ s.target = r.target /\ s.database = r.database
      /\ s.conn = r.conn /\ s.dump = Newest(r.choice)
      /\ s.worlds = r.worlds /\ s.pod = r.pod
  BY <1>2 DEF Requests
<1>9. JobOf(s) = JobOf(s1)
  BY <1>2 DEF Requests, JobOf
<1>10. s.dump \in SuccessesIn(w, s.source)
  BY <1>1, <1>2, <1>4, <1>5, <1>8 DEF SuccessesIn
<1> HIDE DEF s, s1
<1>11. /\ \A v : MayIn(v, c, s) <=> MayIn(v, c, r)
       /\ \A v : FoundIn(v, s) <=> FoundIn(v, r)
  BY <1>8 DEF MayIn, FoundIn
<1>12. AskedFor(s) /\ Written(c, s)
  BY <1>1, <1>2, <1>3, <1>8, <1>9 DEF Kept, AskedFor, Written, StagesOf, WizardPages,
     Restores, Stages, Runs, OfTarget, Downloads
<1>13. Passed(c, s)
  BY <1>1, <1>2, <1>8, <1>11 DEF Kept, Passed
<1>14. Found(s)
  BY <1>1, <1>2, <1>3, <1>4, <1>8, <1>10, <1>11 DEF Kept, Found, Chosen, OfTarget,
     Restores, Downloads
<1>15. QED
  BY <1>1, <1>2, <1>7, <1>8, <1>12, <1>13, <1>14, ThenKeeps DEF Kept

LEMMA EnqueueKeeps ==
    ASSUME IInv, NEW c \in Clients, Enqueue(c)
    PROVE  IInv'
<1> DEFINE r == req[c]
           s1 == [r EXCEPT !.job = JobOf(r)]
           s == [s1 EXCEPT !.at = "log"]
<1>1. r.at = "enqueue" /\ Then(c, s)
  <2>1. s = [r EXCEPT !.job = JobOf(r), !.at = "log"]
    OBVIOUS
  <2>2. QED
    BY <2>1 DEF Enqueue
<1>2. r \in Requests /\ Kept(c, r)
  BY <1>1, AtWork
<1>3. r.op \in OfTarget \cup Runs
  BY <1>1, <1>2 DEF Kept, AskedFor, StagesOf, Stages, OfTarget, Runs, WizardPages,
     Restores, Requests, Ops, Wizard
<1>4. r.source \in Sources \cup Databases
  BY <1>1, <1>2 DEF Kept, Found
<1>5. s \in Requests
  <2>1. JobOf(r) \in JobType
    BY <1>2, <1>3, <1>4, Typed DEF OfTarget, Restores, Runs
  <2>2. s1 \in Requests
    BY <1>2, <2>1, FieldTypes
  <2>3. QED
    BY <2>2, FieldTypes DEF Stages
<1>6. /\ s.op = r.op /\ s.at = "log" /\ s.access = r.access /\ s.preset = r.preset
      /\ s.env = r.env /\ s.choice = r.choice /\ s.job = JobOf(r) /\ s.entry = r.entry
      /\ s.source = r.source /\ s.target = r.target /\ s.database = r.database
      /\ s.conn = r.conn /\ s.dump = r.dump /\ s.worlds = r.worlds /\ s.pod = r.pod
  BY <1>2 DEF Requests
<1> HIDE DEF s
<1>7. /\ \A v : MayIn(v, c, s) <=> MayIn(v, c, r)
      /\ \A v : FoundIn(v, s) <=> FoundIn(v, r)
      /\ \A v : NewestIn(v, s) <=> NewestIn(v, r)
      /\ JobOf(s) = JobOf(r)
  BY <1>6 DEF MayIn, FoundIn, NewestIn, JobOf
<1>8. AskedFor(s) /\ Written(c, s)
  BY <1>1, <1>2, <1>3, <1>6, <1>7 DEF Kept, AskedFor, Written, StagesOf, WizardPages,
     Restores, Stages, Runs, OfTarget, Downloads
<1>9. Passed(c, s)
  BY <1>1, <1>2, <1>6, <1>7 DEF Kept, Passed
<1>10. Found(s)
  BY <1>1, <1>2, <1>3, <1>6, <1>7 DEF Kept, Found, Chosen, OfTarget, Restores,
     Downloads, Runs
<1>11. QED
  BY <1>1, <1>2, <1>5, <1>6, <1>8, <1>9, <1>10, ThenKeeps DEF Kept

\* The line of the audit log is written, or is not and the client is gone.
LEMMA LogKeeps ==
    ASSUME IInv, NEW c \in Clients, Log(c)
    PROVE  IInv'
<1> DEFINE r == req[c]
           logged == [r EXCEPT !.entry = EntryOf(c, r)]
           lost == [r EXCEPT !.left = TRUE]
<1>1. r.at = "log"
  BY DEF Log
<1>2. r \in Requests /\ Kept(c, r)
  BY <1>1, AtWork
<1>3. r.op \notin {"none"} \cup WizardPages /\ r.source \in Sources \cup Databases
  BY <1>1, <1>2 DEF Kept, AskedFor, StagesOf, Found
<1>4. logged \in Requests /\ lost \in Requests
  BY <1>2, <1>3, Typed, FieldTypes
<1>5. ASSUME NEW t \in {logged, lost}, Then(c, [t EXCEPT !.at = "reply"])
      PROVE  IInv'
  <2> DEFINE s == [t EXCEPT !.at = "reply"]
  <2>1. s \in Requests
    BY <1>4, FieldTypes DEF Stages
  <2>2. /\ s.op = r.op /\ s.at = "reply" /\ s.access = r.access /\ s.preset = r.preset
        /\ s.env = r.env /\ s.choice = r.choice /\ s.job = r.job
        /\ s.source = r.source /\ s.target = r.target /\ s.database = r.database
        /\ s.conn = r.conn /\ s.dump = r.dump /\ s.worlds = r.worlds /\ s.pod = r.pod
    BY <1>2, <1>5 DEF Requests
  <2>3. s.entry = EntryOf(c, r) \/ (s.entry = r.entry /\ s.left = TRUE)
    <3>1. logged.entry = EntryOf(c, r) /\ lost.entry = r.entry /\ lost.left = TRUE
      BY <1>2 DEF Requests
    <3>2. s.entry = t.entry /\ s.left = t.left
      BY <1>4 DEF Requests
    <3> HIDE DEF s, logged, lost
    <3>3. QED
      BY <1>5, <3>1, <3>2
  <2> HIDE DEF s
  <2>4. /\ \A v : MayIn(v, c, s) <=> MayIn(v, c, r)
        /\ \A v : FoundIn(v, s) <=> FoundIn(v, r)
        /\ \A v : NewestIn(v, s) <=> NewestIn(v, r)
        /\ JobOf(s) = JobOf(r) /\ EntryOf(c, s) = EntryOf(c, r)
    BY <2>2 DEF MayIn, FoundIn, NewestIn, JobOf, EntryOf
  <2>5. AskedFor(s)
    BY <1>1, <1>2, <1>3, <2>2 DEF Kept, AskedFor, StagesOf, Stages
  <2>6. Written(c, s)
    BY <1>1, <1>2, <2>2, <2>3, <2>4 DEF Kept, Written
  <2>7. Passed(c, s)
    BY <1>1, <1>2, <2>2, <2>4 DEF Kept, Passed
  <2>8. Found(s)
    BY <1>1, <1>2, <2>2, <2>4 DEF Kept, Found, Chosen
  <2>9. QED
    BY <1>1, <1>2, <1>5, <2>1, <2>2, <2>5, <2>6, <2>7, <2>8, ThenKeeps DEF Kept, s
<1>6. \/ Then(c, [logged EXCEPT !.at = "reply"])
      \/ Then(c, [lost EXCEPT !.at = "reply"])
  <2>1. /\ [logged EXCEPT !.at = "reply"] = [r EXCEPT !.entry = EntryOf(c, r), !.at = "reply"]
        /\ [lost EXCEPT !.at = "reply"] = [r EXCEPT !.left = TRUE, !.at = "reply"]
    OBVIOUS
  <2>2. QED
    BY <2>1 DEF Log
<1>7. QED
  BY <1>5, <1>6

LEMMA LeaveKeeps ==
    ASSUME IInv, NEW c \in Clients, ClientLeaves(c)
    PROVE  IInv'
<1> DEFINE r == req[c]
           s == [r EXCEPT !.left = TRUE]
<1>1. r.at # "idle" /\ Then(c, s)
  BY DEF ClientLeaves, Then
<1>2. r \in Requests /\ Kept(c, r)
  BY <1>1, AtWork
<1>3. s \in Requests
  BY <1>2, FieldTypes
<1>4. /\ s.op = r.op /\ s.at = r.at /\ s.access = r.access /\ s.preset = r.preset
      /\ s.env = r.env /\ s.choice = r.choice /\ s.job = r.job /\ s.entry = r.entry
      /\ s.source = r.source /\ s.target = r.target /\ s.database = r.database
      /\ s.conn = r.conn /\ s.dump = r.dump /\ s.worlds = r.worlds /\ s.pod = r.pod
      /\ s.left
  BY <1>2 DEF Requests
<1> HIDE DEF s
<1>5. /\ \A v : MayIn(v, c, s) <=> MayIn(v, c, r)
      /\ \A v : FoundIn(v, s) <=> FoundIn(v, r)
      /\ \A v : NewestIn(v, s) <=> NewestIn(v, r)
      /\ JobOf(s) = JobOf(r) /\ EntryOf(c, s) = EntryOf(c, r)
  BY <1>4 DEF MayIn, FoundIn, NewestIn, JobOf, EntryOf
<1>6. AskedFor(s) /\ Written(c, s) /\ Passed(c, s)
  BY <1>2, <1>4, <1>5 DEF Kept, AskedFor, Written, Passed
<1>7. Found(s)
  BY <1>2, <1>4, <1>5 DEF Kept, Found, Chosen
<1>8. QED
  BY <1>1, <1>2, <1>3, <1>4, <1>6, <1>7, ThenKeeps DEF Kept

\* A client without a request holds nothing.
LEMMA NothingHeld ==
    NoReq \in Requests /\ \A c \in Clients : Kept(c, NoReq)
<1>1. NoReq \in Requests
  BY DEF NoReq, Requests, Accesses, Stages
<1>2. /\ NoReq.op = "none" /\ NoReq.at = "idle" /\ NoReq.job = None /\ NoReq.entry = None
  BY DEF NoReq
<1> HIDE DEF NoReq
<1>3. ASSUME NEW c \in Clients PROVE Kept(c, NoReq)
  BY <1>2 DEF Kept, AskedFor, Passed, Found, Chosen, Written, StagesOf, WizardPages,
     Restores, OfTarget, Runs, Downloads
<1>4. QED
  BY <1>1, <1>3

\* The answer: the request is over, and the page is replaced or stays.
LEMMA AnswerKeeps ==
    ASSUME IInv, NEW c \in Clients, req' = [req EXCEPT ![c] = NoReq],
           form' \in [Clients -> FormType], Unchanged
    PROVE  IInv'
<1>1. TypeOK' /\ OfARow'
  BY NothingHeld DEF IInv, TypeOK, Unchanged, registryVars, rows, RegistryTypeOK, OfARow
<1>2. \A p \in Pods : World(p)' = World(p)
  BY DEF World, Unchanged, registryVars, rows
<1>3. ASSUME NEW d \in Clients PROVE Kept(d, req'[d]) /\ UpToDate(req[d])'
  <2>1. CASE d = c
    <3>1. req'[d] = NoReq
      BY <2>1 DEF IInv, TypeOK
    <3>2. NoReq.at = "idle"
      BY DEF NoReq
    <3>3. QED
      BY <3>1, <3>2, NothingHeld DEF UpToDate
  <2>2. CASE d # c
    <3>1. req'[d] = req[d]
      BY <2>2 DEF IInv, TypeOK
    <3>2. QED
      BY <1>2, <3>1 DEF IInv, UpToDate
  <2>3. QED
    BY <2>1, <2>2
<1>4. QED
  BY <1>1, <1>3 DEF IInv

LEMMA NoFormTyped ==
    NoForm \in FormType
BY DEF NoForm, FormType, Pages

LEMMA RefuseKeeps ==
    ASSUME IInv, NEW c \in Clients, Refuse(c)
    PROVE  IInv'
<1>1. req' = [req EXCEPT ![c] = NoReq] /\ form' = form /\ Unchanged
  BY DEF Refuse, Then
<1>2. form' \in [Clients -> FormType]
  BY <1>1 DEF IInv, TypeOK
<1>3. QED
  BY <1>1, <1>2, AnswerKeeps

LEMMA ReplyKeeps ==
    ASSUME IInv, NEW c \in Clients, Reply(c)
    PROVE  IInv'
<1>1. req' = [req EXCEPT ![c] = NoReq] /\ Unchanged
  BY DEF Reply
<1>2. form' \in [Clients -> FormType]
  BY NoFormTyped DEF Reply, IInv, TypeOK
<1>3. QED
  BY <1>1, <1>2, AnswerKeeps

\* A page that fits what it shows.
LEMMA ShowKeeps ==
    ASSUME IInv, NEW c \in Clients, NEW page \in Pages, NEW preset \in Presets \cup {None},
           NEW env \in Envs \cup {None}, NEW shown, NEW can \in BOOLEAN,
           Show(c, page, preset, env, shown, can),
           \/ page = "presets" /\ shown \subseteq Presets
           \/ page = "environments" /\ preset \in Presets /\ shown \subseteq Envs
           \/ page = "dumps" /\ preset \in Presets /\ env \in Envs /\ shown \subseteq Dumps
    PROVE  IInv'
<1> DEFINE new == [NoForm EXCEPT !.page = page, !.action = form[c].action,
                                 !.preset = preset, !.env = env, !.shown = shown,
                                 !.can = can]
<1>1. form[c].action \in {"restore", "fix_owner"}
  BY DEF IInv, TypeOK, FormType
<1>2. shown \in SUBSET (Presets \cup Envs \cup Dumps)
  OBVIOUS
<1>3. new \in FormType
  <2>1. new \in [page : Pages, action : {"restore", "fix_owner"}, preset : Presets \cup {None},
                 env : Envs \cup {None}, shown : SUBSET (Presets \cup Envs \cup Dumps),
                 can : BOOLEAN]
    BY <1>1, <1>2 DEF NoForm
  <2>2. new.page = page /\ new.preset = preset /\ new.env = env /\ new.shown = shown
    BY DEF NoForm
  <2> HIDE DEF new
  <2>3. QED
    BY <2>1, <2>2 DEF FormType
<1>4. form' = [form EXCEPT ![c] = IF shown = {} THEN NoForm ELSE new]
  BY DEF Show
<1> HIDE DEF new
<1>5. form' \in [Clients -> FormType]
  BY <1>3, <1>4, NoFormTyped DEF IInv, TypeOK
<1>6. req' = [req EXCEPT ![c] = NoReq] /\ Unchanged
  BY DEF Show
<1>7. QED
  BY <1>5, <1>6, AnswerKeeps

LEMMA PagesKeep ==
    ASSUME IInv, NEW c \in Clients, WizardStep1(c) \/ WizardStep2(c) \/ WizardStep3(c)
    PROVE  IInv'
<1> DEFINE r == req[c]
           now == applied[r.pod]
           preset == now.presets[r.preset]
<1>1. r.at # "idle"
  BY DEF WizardStep1, WizardStep2, WizardStep3, Goes
<1>2. r \in Requests /\ Kept(c, r)
  BY <1>1, AtWork
<1>3. CASE WizardStep1(c)
  <2> DEFINE shown == {p \in PresetsOf(now) : Enabled(now) => CanViewPreset(r.access, p)}
  <2>1. shown \subseteq Presets
    BY DEF PresetsOf
  <2>2. Show(c, "presets", None, None, shown, FALSE)
    BY <1>3 DEF WizardStep1
  <2> HIDE DEF shown
  <2>3. QED
    BY <2>1, <2>2, ShowKeeps DEF Pages
<1>4. CASE WizardStep2(c)
  <2> DEFINE shown == EnvironmentsOf(preset, form[c].action)
  <2>1. shown \subseteq Envs
    BY DEF EnvironmentsOf
  <2>2. Show(c, "environments", r.preset, None, shown, CanExecute(c)) /\ r.op = "step2"
    BY <1>4 DEF WizardStep2, FindRestorePreset
  <2>3. r.preset \in Presets
    BY <1>2, <2>2 DEF Kept, AskedFor
  <2>4. CanExecute(c) \in BOOLEAN
    BY DEF CanExecute
  <2> HIDE DEF shown
  <2>5. QED
    BY <2>1, <2>2, <2>3, <2>4, ShowKeeps DEF Pages
<1>5. CASE WizardStep3(c)
  <2> DEFINE shown == SuccessesOf(preset.source)
  <2>1. shown \subseteq Dumps
    BY DEF SuccessesOf, IInv, TypeOK
  <2>2. Show(c, "dumps", r.preset, r.env, shown, CanExecute(c)) /\ r.op = "step3"
    BY <1>5 DEF WizardStep3, FindRestorePreset
  <2>3. r.preset \in Presets /\ r.env \in Envs
    BY <1>2, <2>2 DEF Kept, AskedFor
  <2>4. CanExecute(c) \in BOOLEAN
    BY DEF CanExecute
  <2> HIDE DEF shown
  <2>5. QED
    BY <2>1, <2>2, <2>3, <2>4, ShowKeeps DEF Pages
<1>6. QED
  BY <1>3, <1>4, <1>5

-----------------------------------------------------------------------------
(* What a client asks for.                                                 *)

LEMMA SendKeeps ==
    ASSUME IInv, NEW c \in Clients, NEW p \in Pods, NEW op, NEW preset \in Presets \cup {None},
           NEW env \in Envs \cup {None}, NEW choice \in SUBSET Dumps,
           Send(c, p, op, preset, env, choice), form' \in [Clients -> FormType],
           op \in OfTarget \cup {"step2", "step3", "api_download"} => preset \in Presets,
           op \in OfTarget \cup {"step3"} => env \in Envs,
           op \in Runs \cup {"download"} => preset = None,
           op \in Runs \cup Downloads => \E d \in Dumps : choice = {d}
    PROVE  IInv'
<1> USE ConsoleAssumption
<1> DEFINE s1 == [NoReq EXCEPT !.op = op]
           s2 == [s1 EXCEPT !.at = "admit"]
           s3 == [s2 EXCEPT !.pod = p]
           s4 == [s3 EXCEPT !.access = AccessOn(p, c)]
           s5 == [s4 EXCEPT !.preset = preset]
           s6 == [s5 EXCEPT !.env = env]
           s7 == [s6 EXCEPT !.choice = choice]
           s == [s7 EXCEPT !.worlds = {World(p)}]
<1>1. op \in Ops
  BY DEF Send
<1>2. req' = [req EXCEPT ![c] = s] /\ Unchanged
  BY DEF Send, Unchanged
<1>3. World(p) \in Worlds /\ applied[p] \in Configs
  BY DEF IInv, TypeOK, RegistryTypeOK, World, Worlds
<1>4. AccessOn(p, c) = AccessIn(World(p), c) /\ AccessOn(p, c) \in Accesses
  BY <1>3 DEF AccessOn, AccessIn, World, Accesses
<1>5. s \in Requests
  <2>1. s1 \in Requests
    BY <1>1, NothingHeld, FieldTypes
  <2> HIDE DEF s1
  <2>2. s2 \in Requests
    BY <2>1, FieldTypes DEF Stages
  <2> HIDE DEF s2
  <2>3. s3 \in Requests
    BY <2>2, FieldTypes
  <2> HIDE DEF s3
  <2>4. s4 \in Requests
    BY <1>4, <2>3, FieldTypes
  <2> HIDE DEF s4
  <2>5. s5 \in Requests
    BY <2>4, FieldTypes
  <2> HIDE DEF s5
  <2>6. s6 \in Requests
    BY <2>5, FieldTypes
  <2> HIDE DEF s6
  <2>7. s7 \in Requests
    BY <2>6, FieldTypes
  <2> HIDE DEF s7
  <2>8. QED
    BY <1>3, <2>7, FieldTypes
<1>6. /\ s.op = op /\ s.at = "admit" /\ s.preset = preset /\ s.env = env
      /\ s.choice = choice /\ s.access = AccessOn(p, c) /\ s.worlds = {World(p)}
      /\ s.job = None /\ s.entry = None /\ s.pod = p
  BY DEF NoReq
<1> HIDE DEF s
<1>7. AskedFor(s)
  BY <1>1, <1>6 DEF AskedFor, StagesOf, Stages, Ops, Wizard, WizardPages
<1>8. Passed(c, s) /\ Written(c, s)
  BY <1>4, <1>6 DEF Passed, Written
<1>9. Found(s)
  BY <1>6 DEF Found, Chosen
<1>10. TypeOK' /\ OfARow'
  BY <1>2, <1>5 DEF IInv, TypeOK, Unchanged, registryVars, rows, RegistryTypeOK, OfARow
<1>11. \A q \in Pods : World(q)' = World(q)
  BY <1>2 DEF World, Unchanged, registryVars, rows
<1>12. ASSUME NEW d \in Clients PROVE Kept(d, req'[d]) /\ UpToDate(req[d])'
  <2>1. CASE d = c
    <3>1. req'[d] = s
      BY <1>2, <2>1 DEF IInv, TypeOK
    <3>2. QED
      BY <1>6, <1>7, <1>8, <1>9, <1>11, <2>1, <3>1 DEF Kept, UpToDate
  <2>2. CASE d # c
    <3>1. req'[d] = req[d]
      BY <1>2, <2>2 DEF IInv, TypeOK
    <3>2. QED
      BY <1>11, <3>1 DEF IInv, UpToDate
  <2>3. QED
    BY <2>1, <2>2
<1>13. QED
  BY <1>10, <1>12 DEF IInv

\* A page's form is well formed, and holds what it names.
LEMMA FormHolds ==
    ASSUME IInv, NEW c \in Clients
    PROVE  /\ form[c] \in FormType
           /\ form[c].shown \subseteq Presets \cup Envs \cup Dumps
           /\ form[c].preset \in Presets \cup {None} /\ form[c].env \in Envs \cup {None}
           /\ form[c].page = "presets" => form[c].shown \subseteq Presets
           /\ form[c].page = "environments" =>
                  form[c].preset \in Presets /\ form[c].shown \subseteq Envs
           /\ form[c].page = "dumps" => /\ form[c].preset \in Presets /\ form[c].env \in Envs
                                        /\ form[c].shown \subseteq Dumps
BY DEF IInv, TypeOK, FormType

LEMMA AskingKeeps ==
    ASSUME IInv, NEW c \in Clients, Asking(c)
    PROVE  IInv'
<1> USE DEF OfTarget, Restores, Runs, Downloads
<1>1. form \in [Clients -> FormType]
  BY DEF IInv, TypeOK
<1>2. CASE WizardStep0(c)
  <2>1. [NoForm EXCEPT !.page = "action"] \in FormType
    BY DEF NoForm, FormType, Pages
  <2>2. form' \in [Clients -> FormType]
    BY <1>1, <1>2, <2>1 DEF WizardStep0
  <2>3. QED
    BY <1>2, <2>2 DEF WizardStep0, IInv, TypeOK, OfARow, registryVars, rows,
       RegistryTypeOK, UpToDate, World
<1>3. ASSUME NEW p \in Pods, AskPresets(c, p) PROVE IInv'
  <2>1. PICK action \in {"restore", "fix_owner"} :
           /\ Send(c, p, "step1", None, None, {})
           /\ form' = [form EXCEPT ![c].action = action]
    BY <1>3 DEF AskPresets
  <2>2. [form[c] EXCEPT !.action = action] \in FormType
    BY <1>1 DEF FormType
  <2>3. form' \in [Clients -> FormType]
    BY <1>1, <2>1, <2>2
  <2>4. QED
    BY <2>1, <2>3, SendKeeps
<1>4. ASSUME NEW p \in Pods, AskEnvironments(c, p) PROVE IInv'
  <2>1. PICK preset \in Presets :
           Send(c, p, "step2", preset, None, {}) /\ form' = form
    BY <1>4 DEF AskEnvironments
  <2>2. QED
    BY <1>1, <2>1, SendKeeps
<1>5. ASSUME NEW p \in Pods, NEW action, NEW op \in {"step3", "fix_owner"},
             PickEnvironment(c, p, action, op)
      PROVE  IInv'
  <2>1. /\ form[c].page = "environments" /\ form' = form
        /\ \E env \in form[c].shown : Send(c, p, op, form[c].preset, env, {})
    BY <1>5 DEF PickEnvironment
  <2>2. PICK env \in form[c].shown : Send(c, p, op, form[c].preset, env, {})
    BY <2>1
  <2>3. env \in Envs /\ form[c].preset \in Presets
    BY <2>1, <2>2, FormHolds
  <2>4. QED
    BY <1>1, <2>1, <2>2, <2>3, SendKeeps
<1>6. ASSUME NEW p \in Pods, AskRun(c, p) PROVE IInv'
  <2>1. /\ form[c].page = "dumps" /\ form' = form
        /\ \E d \in form[c].shown : Send(c, p, "run", form[c].preset, form[c].env, {d})
    BY <1>6 DEF AskRun
  <2>2. PICK d \in form[c].shown : Send(c, p, "run", form[c].preset, form[c].env, {d})
    BY <2>1
  <2>3. d \in Dumps /\ form[c].preset \in Presets /\ form[c].env \in Envs
    BY <2>1, <2>2, FormHolds
  <2>4. QED
    BY <1>1, <2>1, <2>2, <2>3, SendKeeps
<1>7. ASSUME NEW p \in Pods, AskApi(c, p) PROVE IInv'
  <2>1. PICK preset \in Presets, env \in Envs, choice \in BindRestoreParams :
           Send(c, p, "api", preset, env, choice) /\ form' = form
    BY <1>7 DEF AskApi
  <2>2. choice \subseteq Dumps
    BY DEF BindRestoreParams
  <2>3. QED
    BY <1>1, <2>1, <2>2, SendKeeps
<1>8. ASSUME NEW p \in Pods, AskApiDownload(c, p) PROVE IInv'
  <2>1. PICK preset \in Presets, d \in Dumps :
           Send(c, p, "api_download", preset, None, {d}) /\ form' = form
    BY <1>8 DEF AskApiDownload
  <2>2. QED
    BY <1>1, <2>1, SendKeeps
<1>9. ASSUME NEW p \in Pods, NEW op \in {"run_backup", "retry", "download"},
             AskOfBackup(c, p, op)
      PROVE  IInv'
  <2>1. PICK d \in Dumps : Send(c, p, op, None, None, {d}) /\ form' = form
    BY <1>9 DEF AskOfBackup
  <2>2. QED
    BY <1>1, <2>1, SendKeeps
<1>10. QED
  BY <1>2, <1>3, <1>4, <1>5, <1>6, <1>7, <1>8, <1>9 DEF Asking, AskDumps, AskFixOwner

LEMMA RequestingKeeps ==
    ASSUME IInv, NEW c \in Clients, Requesting(c)
    PROVE  IInv'
<1>1. CASE Proceed(c)
  BY <1>1, AdmitKeeps, PagesKeep, FindTargetKeeps, LoadRegisteredKeeps, LoadContextKeeps,
     ConnectionKeeps, ExecutionKeeps, PreflightKeeps, AdmitOfBackupKeeps, FindBackupKeeps,
     LinkKeeps, EnqueueKeeps, LogKeeps, ReplyKeeps, RefuseKeeps DEF Proceed
<1>2. QED
  BY <1>1, AskingKeeps, LeaveKeeps DEF Requesting

-----------------------------------------------------------------------------
(* What changes around a request.                                          *)

\* Requests on the pods that have changed meet a new world; for all others
\* the world is as it was.
LEMMA SeenKeeps ==
    ASSUME IInv, NEW ps \in SUBSET Pods, Seen(ps), RegistryInv',
           saved' \in Configs, applied' \in [Pods -> Configs], session' \subseteq Clients,
           dumps' \subseteq Dumps, form' = form,
           \A p \in Pods \ ps : World(p)' = World(p)
    PROVE  IInv'
<1>1. \A p \in Pods : NewWorld(p) = World(p)' /\ NewWorld(p) \in Worlds
  BY DEF NewWorld, World, Worlds, RegistryInv, RegistryTypeOK
<1>2. ASSUME NEW c \in Clients
      PROVE  /\ req'[c] \in Requests /\ Kept(c, req'[c])
             /\ req'[c].at = req[c].at /\ req'[c].pod = req[c].pod
             /\ req[c].at # "idle" =>
                    req[c].pod \in Pods /\ NewWorld(req[c].pod) \in req'[c].worlds
  <2> DEFINE r == req[c]
             ws == r.worlds \cup {NewWorld(r.pod)}
             s == [r EXCEPT !.worlds = ws]
  <2>1. r \in Requests /\ Kept(c, r) /\ UpToDate(r)
    BY DEF IInv, TypeOK
  <2>2. CASE r.pod \in ps
    <3>1. req'[c] = s
      BY <2>2 DEF Seen
    <3>2. r.worlds \subseteq Worlds /\ ws \in SUBSET Worlds
      BY <1>1, <2>1, <2>2 DEF Requests
    <3>3. s \in Requests /\ Kept(c, s)
      BY <2>1, <3>2, MeetsWorlds
    <3>4. s.at = r.at /\ s.pod = r.pod /\ s.worlds = ws
      BY <2>1 DEF Requests
    <3> HIDE DEF s
    <3>5. QED
      BY <2>2, <3>1, <3>3, <3>4
  <2>3. CASE r.pod \notin ps
    <3>1. req'[c] = r
      BY <2>3 DEF Seen
    <3>2. r.at # "idle" => NewWorld(r.pod) = World(r.pod) /\ NewWorld(r.pod) \in r.worlds
      BY <1>1, <2>1, <2>3 DEF UpToDate
    <3>3. QED
      BY <2>1, <2>3, <3>1, <3>2 DEF UpToDate
  <2>4. QED
    BY <2>2, <2>3
<1>3. TypeOK' /\ OfARow'
  <2>1. req' \in [Clients -> Requests]
    BY <1>2 DEF Seen
  <2>2. QED
    BY <2>1 DEF TypeOK, IInv, RegistryInv
<1>4. ASSUME NEW c \in Clients PROVE Kept(c, req'[c]) /\ UpToDate(req[c])'
  <2>1. req[c].at # "idle" => World(req[c].pod)' = NewWorld(req[c].pod)
    BY <1>2 DEF World, NewWorld
  <2>2. QED
    BY <1>2, <2>1 DEF UpToDate
<1>5. QED
  BY <1>3, <1>4 DEF IInv

\* A change of something else is counted, and leaves the registry as it is.
LEMMA CountedKeeps ==
    ASSUME RegistryInv, MayChange, UNCHANGED <<rows, up, edit, test>>
    PROVE  RegistryInv'
<1>1. changes' \in 0..MaxChanges
  BY RegistryAssumption DEF RegistryInv, RegistryTypeOK, MayChange
<1>2. QED
  BY <1>1 DEF RegistryInv, RegistryTypeOK, OfARow, rows

\* What no request can see.
LEMMA UnseenKeeps ==
    ASSUME IInv, RegistryInv', conn' = conn, applied' = applied, dumps' = dumps,
           req' = req, form' = form, saved' = saved, session' \subseteq Clients
    PROVE  IInv'
BY DEF IInv, TypeOK, RegistryInv, UpToDate, World

LEMMA AroundKeeps ==
    ASSUME IInv, Around
    PROVE  IInv'
<1> USE ConsoleAssumption
<1>0. /\ RegistryInv /\ saved \in Configs /\ applied \in [Pods -> Configs]
      /\ session \subseteq Clients /\ dumps \subseteq Dumps
  BY DEF IInv, TypeOK, RegistryInv
<1>1. ASSUME NEW c \in Clients, CreateSession(c) PROVE IInv'
  <2>1. RegistryInv'
    BY <1>0, <1>1 DEF CreateSession, registryVars, rows, RegistryInv, RegistryTypeOK, OfARow
  <2>2. QED
    BY <1>0, <1>1, <2>1, UnseenKeeps DEF CreateSession, registryVars, rows
<1>2. ASSUME NEW some, SessionsEnd(some) PROVE IInv'
  <2>1. RegistryInv'
    BY <1>0, <1>2, CountedKeeps DEF SessionsEnd, rows
  <2>2. QED
    BY <1>0, <1>2, <2>1, UnseenKeeps DEF SessionsEnd, rows
<1>3. ASSUME NEW c \in Managers, WriteRow(c) PROVE IInv'
  <2>1. RegistryInv'
    BY <1>0, <1>3, RegistryStep DEF WriteRow, RegistryNext
  <2>2. QED
    BY <1>0, <1>3, <2>1, SeenKeeps DEF WriteRow
<1>4. ASSUME NEW c \in Managers, EditAborts(c) \/ TestStep(c), UNCHANGED console
      PROVE  IInv'
  <2>1. RegistryInv'
    BY <1>0, <1>4, RegistryStep DEF RegistryNext, Testers
  <2>2. conn' = conn
    BY <1>4 DEF EditAborts, TestStep, GetRow, TestConnection, StoreResult, rows
  <2>3. QED
    BY <1>0, <1>4, <2>1, <2>2, UnseenKeeps DEF console
<1>5. ASSUME NEW c \in Clients, NEW p \in Pods, SaveConfig(c, p) PROVE IInv'
  <2>1. PICK config \in Configs :
           saved' = config /\ applied' = [applied EXCEPT ![p] = config]
    BY <1>5 DEF SaveConfig
  <2>2. RegistryInv'
    BY <1>0, <1>5, CountedKeeps DEF SaveConfig, rows
  <2>3. \A q \in Pods \ {p} : World(q)' = World(q)
    BY <1>0, <1>5, <2>1 DEF SaveConfig, World, rows
  <2>4. applied' \in [Pods -> Configs] /\ Seen({p}) /\ UNCHANGED <<session, dumps, form>>
    BY <1>0, <1>5, <2>1 DEF SaveConfig
  <2>5. QED
    BY <1>0, <2>1, <2>2, <2>3, <2>4, SeenKeeps
<1>6. ASSUME NEW p \in Pods, Follow(p) PROVE IInv'
  <2>1. RegistryInv'
    BY <1>0, <1>6 DEF Follow, registryVars, rows, RegistryInv, RegistryTypeOK, OfARow
  <2>2. \A q \in Pods \ {p} : World(q)' = World(q)
    BY <1>0, <1>6 DEF Follow, World, registryVars, rows
  <2>3. /\ applied' \in [Pods -> Configs] /\ Seen({p})
        /\ UNCHANGED <<saved, session, dumps, form>>
    BY <1>0, <1>6 DEF Follow
  <2>4. QED
    BY <1>0, <2>1, <2>2, <2>3, SeenKeeps
<1>7. ASSUME NEW p \in Pods, PodRestarts(p) PROVE IInv'
  <2>1. RegistryInv'
    BY <1>0, <1>7, CountedKeeps DEF PodRestarts, rows
  <2>2. applied' \in [Pods -> Configs]
    BY <1>0, <1>7 DEF PodRestarts
  <2>3. req' \in [Clients -> Requests]
    BY <1>7, NothingHeld DEF PodRestarts, IInv, TypeOK
  <2>4. TypeOK' /\ OfARow'
    BY <1>7, <2>1, <2>2, <2>3 DEF PodRestarts, IInv, TypeOK, RegistryInv
  <2>5. \A q \in Pods \ {p} : World(q)' = World(q)
    BY <1>0, <1>7 DEF PodRestarts, World, rows
  <2>6. ASSUME NEW c \in Clients PROVE Kept(c, req'[c]) /\ UpToDate(req[c])'
    <3>1. CASE req[c].pod = p
      <4>1. req'[c] = NoReq /\ NoReq.at = "idle"
        BY <1>7, <3>1 DEF PodRestarts, NoReq
      <4>2. QED
        BY <4>1, NothingHeld DEF UpToDate
    <3>2. CASE req[c].pod # p
      <4>1. req'[c] = req[c]
        BY <1>7, <3>2 DEF PodRestarts
      <4>2. QED
        BY <2>5, <3>2, <4>1 DEF UpToDate, IInv
    <3>3. QED
      BY <3>1, <3>2
  <2>7. QED
    BY <2>4, <2>6 DEF IInv
<1>8. ASSUME NEW some \in SUBSET Dumps, DumpsBecome(some) PROVE IInv'
  <2>1. RegistryInv'
    BY <1>0, <1>8, CountedKeeps DEF DumpsBecome, rows
  <2>2. QED
    BY <1>0, <1>8, <2>1, SeenKeeps DEF DumpsBecome
<1>9. ASSUME NEW c \in Managers, NEW r \in Rows, ManageRow(c, r) PROVE IInv'
  <2>1. PICK op \in {"create", "update"}, new \in Conns : SubmitForm(c, op, r, new)
    BY <1>9 DEF ManageRow
  <2>2. RegistryInv'
    BY <1>0, <2>1, RegistryStep DEF RegistryNext
  <2>3. QED
    BY <1>0, <1>9, <2>1, <2>2, UnseenKeeps DEF ManageRow, SubmitForm, rows, console
<1>10. ASSUME NEW c \in Managers, NEW r \in Rows, ManagerDeletes(c, r) PROVE IInv'
  <2>1. RegistryInv'
    BY <1>0, <1>10, RegistryStep DEF ManagerDeletes, RegistryNext
  <2>2. dumps' \subseteq Dumps
    BY <1>0, <1>10 DEF ManagerDeletes
  <2>3. QED
    BY <1>0, <1>10, <2>1, <2>2, SeenKeeps DEF ManagerDeletes
<1>11. ASSUME NEW v \in Conns, Outage(v), UNCHANGED console PROVE IInv'
  <2>1. RegistryInv'
    BY <1>0, <1>11, RegistryStep DEF RegistryNext
  <2>2. QED
    BY <1>0, <1>11, <2>1, UnseenKeeps DEF Outage, rows, console
<1>12. ASSUME NEW c \in Clients,
              Login(c) \/ LoginWithOidc(c) \/ Logout(c) \/ LogoutAll(c) \/ DeleteOldSessions(c)
       PROVE  IInv'
  BY <1>1, <1>2, <1>12 DEF Login, LoginWithOidc, Logout, LogoutAll, DeleteOldSessions
<1>13. ASSUME NEW d \in Dumps, DumpStored(d) \/ DumpDeleted(d) PROVE IInv'
  <2>1. dumps \cup {d} \in SUBSET Dumps /\ dumps \ {d} \in SUBSET Dumps
    BY <1>0
  <2>2. QED
    BY <1>8, <1>13, <2>1 DEF DumpStored, DumpDeleted
<1>14. QED
  BY <1>3, <1>4, <1>5, <1>6, <1>7, <1>9, <1>10, <1>11, <1>12, <1>13 DEF Around

-----------------------------------------------------------------------------
(* The theorems.                                                           *)

LEMMA Inductive ==
    Spec => []IInv
<1>1. Init => IInv
  <2> SUFFICES ASSUME Init PROVE IInv
    OBVIOUS
  <2>1. RegistryInv
    <3>1. /\ conn \in [Rows -> Conns \cup {None}] /\ health \in [Rows -> {"none", "ok", "failed"}]
          /\ known \subseteq Rows /\ up \subseteq Conns /\ changes \in 0..MaxChanges
      BY DEF Init, RegistryInit, Registered
    <3>2. \A c \in Managers : edit[c] = NoEdit
      BY DEF Init, RegistryInit
    <3>3. \A t \in Testers : test[t] = NoTest
      BY DEF Init, RegistryInit
    <3>4. OfARow
      BY <3>2, <3>3 DEF OfARow, NoEdit, NoTest
    <3>5. edit = [c \in Managers |-> NoEdit] /\ test = [t \in Testers |-> NoTest]
      BY DEF Init, RegistryInit
    <3>6. QED
      BY <3>1, <3>4, <3>5 DEF RegistryInv, RegistryTypeOK, NoEdit, NoTest
  <2>2. form \in [Clients -> FormType] /\ req \in [Clients -> Requests]
    BY NoFormTyped, NothingHeld DEF Init
  <2>3. TypeOK /\ OfARow
    BY <2>1, <2>2 DEF Init, TypeOK, RegistryInv
  <2>4. \A c \in Clients : Kept(c, req[c]) /\ UpToDate(req[c])
    <3>1. \A c \in Clients : req[c] = NoReq
      BY DEF Init
    <3>2. NoReq.at = "idle"
      BY DEF NoReq
    <3>3. QED
      BY <3>1, <3>2, NothingHeld DEF UpToDate
  <2>5. QED
    BY <2>3, <2>4 DEF IInv
<1>2. IInv /\ [Next]_vars => IInv'
  <2> SUFFICES ASSUME IInv, [Next]_vars PROVE IInv'
    OBVIOUS
  <2>1. CASE Next
    BY <2>1, RequestingKeeps, AroundKeeps DEF Next
  <2>2. CASE UNCHANGED vars
    BY <2>2 DEF vars, IInv, TypeOK, OfARow, registryVars, rows, RegistryTypeOK, UpToDate, World
  <2>3. QED
    BY <2>1, <2>2
<1>3. QED
  BY <1>1, <1>2, PTL DEF Spec

\* Every variable keeps its kind: a form holds the preset and the environment
\* that its page needs, and a request, a job or an entry what it may hold.
THEOREM ConsoleTypes == Spec => []TypeOK
<1>1. IInv => TypeOK
  BY DEF IInv
<1>2. QED
  BY <1>1, Inductive, PTL

\* Whatever presets, databases and dumps become while a request is under way,
\* and whoever acts in between: what it starts or hands out is what its user
\* was allowed, with a source, target, connection and dump that were right at
\* some moment of it.
THEOREM StartsAsAllowed == Spec => []StartedAsAllowed
<1>1. IInv => StartedAsAllowed
  <2> SUFFICES ASSUME IInv, NEW c \in Clients, req[c].job # None
               PROVE  LET r == req[c] IN
                      /\ \E w \in r.worlds : AllowedIn(w, c)
                      /\ r.preset # None => \E w \in r.worlds : PlannedIn(w, c)
                      /\ r.op \in Restores \cup {"fix_owner"} =>
                             \E w \in r.worlds : ConnectedIn(w, r.job)
                      /\ r.op \in Restores \cup {"fix_owner"} =>
                             \E w \in r.worlds :
                                 LET choice == IF r.op = "fix_owner" THEN Dumps ELSE r.choice
                                     some == choice \cap SuccessesIn(w, r.job.source)
                                 IN some # {} /\ r.job.dump = Newest(some)
                      /\ r.op \in {"download", "api_download"} =>
                             \E w \in r.worlds : r.job.dump \in SuccessesIn(w, r.job.source)
    BY DEF StartedAsAllowed
  <2> DEFINE r == req[c]
  <2>1. r \in Requests /\ AskedFor(r) /\ Passed(c, r) /\ Found(r) /\ Written(c, r)
    BY DEF IInv, TypeOK, Kept
  <2>2. r.at \in {"log", "reply"} /\ r.job = JobOf(r)
    BY <2>1 DEF Written
  <2>3. /\ r.job.source = r.source /\ r.job.target = r.target /\ r.job.dump = r.dump
    BY <2>2 DEF JobOf
  <2>4. r.op \in OfTarget \cup Runs \cup Downloads
    BY <2>1, <2>2 DEF AskedFor, StagesOf, Requests, Ops, Wizard, OfTarget, Runs,
       Downloads, Restores, WizardPages
  <2>5. \A w : MayIn(w, c, r) => AllowedIn(w, c)
    BY <2>3, <2>4 DEF MayIn, AllowedIn, OfTarget, Runs, Downloads, Restores
  <2>6. \E w \in r.worlds : AllowedIn(w, c)
    BY <2>1, <2>2, <2>5 DEF Passed
  <2>7. r.op \in OfTarget \cup {"api_download"} => \E w \in r.worlds : PlannedIn(w, c)
    <3>1. \A w : r.op \in OfTarget \cup {"api_download"} /\ FoundIn(w, r) => PlannedIn(w, c)
      BY <2>3 DEF FoundIn, PlannedIn, OfTarget, Restores
    <3>2. QED
      BY <2>1, <2>2, <3>1 DEF Found
  <2>8. r.preset # None => r.op \in OfTarget \cup {"api_download"}
    BY <2>1, <2>4 DEF AskedFor, Downloads
  <2>9. r.op \in OfTarget => \E w \in r.worlds : ConnectedIn(w, r.job)
    BY <2>1, <2>2 DEF Found
  <2>10. r.op \in OfTarget =>
             \E w \in r.worlds :
                 LET choice == IF r.op = "fix_owner" THEN Dumps ELSE r.choice
                     some == choice \cap SuccessesIn(w, r.job.source)
                 IN some # {} /\ r.job.dump = Newest(some)
    BY <2>1, <2>2, <2>3 DEF Found, Chosen, NewestIn, OfTarget
  <2>11. r.op \in Downloads => \E w \in r.worlds : r.job.dump \in SuccessesIn(w, r.job.source)
    BY <2>1, <2>2, <2>3 DEF Found
  <2>12. QED
    BY <2>6, <2>7, <2>8, <2>9, <2>10, <2>11 DEF OfTarget, Downloads
<1>2. QED
  BY <1>1, Inductive, PTL

\* An entry of the audit log is of something that has been started or handed
\* out, and names its user and what it was; and what has been started is on
\* record by the time of the answer, if the client is there and the INSERT done.
THEOREM AuditTells == Spec => []AuditTrail
<1>1. IInv => AuditTrail
  <2> SUFFICES ASSUME IInv, NEW c \in Clients
               PROVE  LET r == req[c] IN
                      /\ r.entry # None =>
                             /\ r.job # None
                             /\ r.entry.user = UserOf[c]
                             /\ r.entry.action = ActionOf(r.job.op)
                             /\ r.op \in Restores \cup {"fix_owner"} =>
                                    \E w \in r.worlds :
                                        w.config.presets[r.entry.preset].targets[r.entry.env]
                                            = r.job.target
                      /\ r.at = "reply" /\ r.job # None /\ ~r.left => r.entry # None
    BY DEF AuditTrail
  <2> DEFINE r == req[c]
  <2>1. r \in Requests /\ AskedFor(r) /\ Found(r) /\ Written(c, r)
    BY DEF IInv, TypeOK, Kept
  <2>2. CASE r.at # "reply"
    BY <2>1, <2>2 DEF Written
  <2>3. CASE r.at = "reply"
    <3>1. r.job = JobOf(r) /\ r.entry \in {None, EntryOf(c, r)}
          /\ (~r.left => r.entry = EntryOf(c, r))
      BY <2>1, <2>3 DEF Written
    <3>2. r.op # "none" /\ r.source \in Sources \cup Databases
      BY <2>1, <2>3 DEF AskedFor, StagesOf, Found
    <3>3. JobOf(r) # None /\ EntryOf(c, r) # None
      BY <2>1, <3>2, Typed
    <3>4. /\ EntryOf(c, r).user = UserOf[c]
          /\ EntryOf(c, r).action = ActionOf(r.op) /\ JobOf(r).op = r.op
          /\ EntryOf(c, r).env = r.env /\ JobOf(r).target = r.target
          /\ r.preset # None => EntryOf(c, r).preset = r.preset
      BY DEF EntryOf, JobOf
    <3>5. ASSUME r.op \in OfTarget
          PROVE  \E w \in r.worlds : w.config.presets[r.preset].targets[r.env] = r.target
      BY <2>1, <2>3, <3>5 DEF Found, FoundIn
    <3>6. r.op \in OfTarget => r.preset # None
      BY <2>1, ConsoleAssumption DEF AskedFor
    <3> HIDE DEF r
    <3>7. QED
      BY <3>1, <3>3, <3>4, <3>5, <3>6 DEF OfTarget, r
  <2>4. QED
    BY <2>2, <2>3
<1>2. QED
  BY <1>1, Inductive, PTL
=============================================================================
