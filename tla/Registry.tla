------------------------------ MODULE Registry ------------------------------
(***************************************************************************)
(* service/databases and service/destinations: the registered databases    *)
(* and destinations, their connections, and the result of the last test of *)
(* each, which requests and the scheduled checks of the worker pods store. *)
(*                                                                         *)
(* A row is known by its name; what a form can change of it (connection    *)
(* string or keys, version) is one value, its connection.  A test and the  *)
(* storing of its result are steps of their own, as other requests and     *)
(* checks run in between.                                                  *)
(***************************************************************************)
EXTENDS Naturals

CONSTANTS
    Databases, Destinations,  \* names of the rows of the two tables
    TagOf,       \* the worker tag of each database
    Workers,     \* pods that run the scheduled checks
    Serves,      \* the tags each of them serves, {} for all
    Managers,    \* clients that may manage the application
    Conns,       \* connections a row can have
    Edited,      \* bound: the rows that are created, edited and deleted
    Present,     \* rows that may be registered when the behaviour starts
    MaxChanges,  \* bound on the edits and outages
    None

Rows == Databases \cup Destinations

ASSUME RegistryAssumption ==
    /\ TagOf \in [Databases -> STRING]
    /\ Edited \subseteq Rows
    /\ Rows \ Edited \subseteq Present /\ Present \subseteq Rows
    /\ None \notin Conns \cup Rows
    /\ MaxChanges \in Nat

VARIABLES
    conn,    \* the connection of each row, None without a row
    health,  \* test_ok: "none", "ok" or "failed"
    known,   \* rows that exist or have existed
    up,      \* connections that work at present
    edit,    \* each client's request to a row: [op, row, new, at]
    test,    \* each TestAndStoreResult: [row, at, held, ok]
    changes  \* edits and outages so far

rows == <<conn, health, known>>
registryVars == <<rows, up, edit, test, changes>>

\* One goroutine per row and worker, and the one of each request.
Checks == Workers \X Rows
Testers == Managers \cup Checks

Registered(some) == {r \in some : conn[r] # None}

NoEdit == [op |-> "none", row |-> None, new |-> None, at |-> "idle"]
NoTest == [row |-> None, at |-> "idle", held |-> None, ok |-> "none"]
TestOf(r) == [NoTest EXCEPT !.row = r, !.at = "get"]

RegistryTypeOK ==
    /\ conn \in [Rows -> Conns \cup {None}]
    /\ health \in [Rows -> {"none", "ok", "failed"}]
    /\ known \subseteq Rows
    /\ up \subseteq Conns
    /\ edit \in [Managers -> [op : {"none", "create", "update", "delete", "test"},
                             row : Rows \cup {None}, new : Conns \cup {None},
                             at : {"idle", "probe", "write", "test"}]]
    /\ test \in [Testers -> [row : Rows \cup {None},
                             at : {"idle", "get", "test", "store"},
                             held : Conns \cup {None},
                             ok : {"none", "ok", "failed"}]]
    /\ changes \in 0..MaxChanges

\* Rows may be registered already, and are not tested yet; a behaviour may
\* have fewer changes than the bound.
RegistryInit ==
    /\ conn \in {f \in [Rows -> Conns \cup {None}] :
                    \A r \in Rows : /\ r \notin Present => f[r] = None
                                    /\ r \notin Edited => f[r] # None}
    /\ known = Registered(Rows)
    /\ health = [r \in Rows |-> "none"]
    /\ up = Conns
    /\ edit = [c \in Managers |-> NoEdit]
    /\ test = [t \in Testers |-> NoTest]
    /\ changes \in 0..MaxChanges

MayChange == changes < MaxChanges /\ changes' = changes + 1

-----------------------------------------------------------------------------
(* TestDatabaseAndStoreResult, TestDestinationAndStoreResult.              *)

\* The row as it is now; without one the result is stored for no row.
GetRow(t) ==
    /\ test[t].at = "get"
    /\ LET now == conn[test[t].row] IN
       test' = [test EXCEPT ![t] = IF now = None
                                   THEN [@ EXCEPT !.at = "store", !.ok = "failed"]
                                   ELSE [@ EXCEPT !.at = "test", !.held = now]]
    /\ UNCHANGED <<rows, up, edit, changes>>

\* TestDatabase, TestDestination: connects with what was read.
TestConnection(t) ==
    /\ test[t].at = "test"
    /\ test' = [test EXCEPT ![t].at = "store",
                            ![t].ok = IF test[t].held \in up THEN "ok" ELSE "failed"]
    /\ UNCHANGED <<rows, up, edit, changes>>

\* Mutant: a test that fails returns before its result is stored.
MutStoreResult(t) ==
    LET r == test[t].row IN
    /\ test[t].at = "store"
    /\ health' = IF conn[r] = None \/ test[t].ok = "failed" THEN health
                 ELSE [health EXCEPT ![r] = test[t].ok]
    /\ test' = [test EXCEPT ![t] = NoTest]
    /\ edit' = IF t \in Managers THEN [edit EXCEPT ![t] = NoEdit] ELSE edit
    /\ UNCHANGED <<conn, known, up, changes>>

\* storeRes: UPDATE ... SET test_ok WHERE id, whatever the row holds by now.
StoreResult(t) ==
    LET r == test[t].row IN
    /\ test[t].at = "store"
    /\ health' = IF conn[r] = None THEN health
                 ELSE [health EXCEPT ![r] = test[t].ok]
    /\ test' = [test EXCEPT ![t] = NoTest]
    /\ edit' = IF t \in Managers THEN [edit EXCEPT ![t] = NoEdit] ELSE edit
    /\ UNCHANGED <<conn, known, up, changes>>

-----------------------------------------------------------------------------
(* Scheduled checks, every 10 minutes and when a worker pod starts.        *)

\* filterByTags: a worker without tags checks all databases.
FilterByTags(w, dbs) ==
    {d \in dbs : Serves[w] = {} \/ TagOf[d] \in Serves[w]}

StartChecks(w, some, all) ==
    /\ \A r \in all : test[<<w, r>>].at = "idle"
    /\ test' = [t \in Testers |-> IF \E r \in some : t = <<w, r>>
                                  THEN TestOf(t[2]) ELSE test[t]]
    /\ UNCHANGED <<rows, up, edit, changes>>

TestAllDatabases(w) ==
    StartChecks(w, FilterByTags(w, Registered(Databases)), Databases)

TestAllDestinations(w) ==
    StartChecks(w, Registered(Destinations), Destinations)

\* The pod goes away with its checks; they start anew with the next one.
WorkerRestarts(w) ==
    /\ MayChange
    /\ test' = [t \in Testers |-> IF t \in {w} \X Rows THEN NoTest ELSE test[t]]
    /\ UNCHANGED <<rows, up, edit>>

-----------------------------------------------------------------------------
(* Requests of clients that may manage the application.                    *)

\* createDatabaseHandler, editDatabaseHandler and those of destinations: what
\* the form holds, with every field as the list showed it or as typed now.
SubmitForm(c, op, r, new) ==
    /\ edit[c].at = "idle" /\ test[c].at = "idle"
    /\ r \in Edited
    /\ (op = "create") = (r \notin known)
    /\ MayChange
    /\ edit' = [edit EXCEPT ![c] = [op |-> op, row |-> r, new |-> new, at |-> "probe"]]
    /\ UNCHANGED <<rows, up, test>>

\* The form's values are tested first; nothing is written if that fails.
ProbeForm(c) ==
    /\ edit[c].at = "probe"
    /\ edit' = [edit EXCEPT ![c] = IF @.new \in up THEN [@ EXCEPT !.at = "write"]
                                   ELSE NoEdit]
    /\ UNCHANGED <<rows, up, test, changes>>

ThenTest(c) ==
    /\ edit' = [edit EXCEPT ![c].at = "test"]
    /\ test' = [test EXCEPT ![c] = TestOf(edit[c].row)]

\* INSERT: a name that is taken is refused.
InsertRow(c) ==
    LET e == edit[c] IN
    /\ e.at = "write" /\ e.op = "create"
    /\ IF e.row \in known
       THEN edit' = [edit EXCEPT ![c] = NoEdit] /\ UNCHANGED <<rows, test>>
       ELSE /\ conn' = [conn EXCEPT ![e.row] = e.new]
            /\ known' = known \cup {e.row}
            /\ ThenTest(c)
            /\ UNCHANGED health
    /\ UNCHANGED <<up, changes>>

\* UPDATE ... RETURNING: the result of the last test stays as it is.
UpdateRow(c) ==
    LET e == edit[c] IN
    /\ e.at = "write" /\ e.op = "update"
    /\ IF conn[e.row] = None
       THEN edit' = [edit EXCEPT ![c] = NoEdit] /\ UNCHANGED <<conn, test>>
       ELSE conn' = [conn EXCEPT ![e.row] = e.new] /\ ThenTest(c)
    /\ UNCHANGED <<health, known, up, changes>>

DeleteRow(c, r) ==
    /\ edit[c].at = "idle"
    /\ r \in Edited
    /\ MayChange
    /\ conn' = [conn EXCEPT ![r] = None]
    /\ health' = [health EXCEPT ![r] = "none"]
    /\ UNCHANGED <<known, up, edit, test>>

\* testExistingDatabaseHandler, testExistingDestinationHandler
TestExisting(c, r) ==
    /\ edit[c].at = "idle"
    /\ conn[r] # None
    /\ edit' = [edit EXCEPT ![c] = [NoEdit EXCEPT !.op = "test", !.row = r, !.at = "test"]]
    /\ test' = [test EXCEPT ![c] = TestOf(r)]
    /\ UNCHANGED <<rows, up, changes>>

\* The client leaves, a statement fails or the pod goes away, at any step.
EditAborts(c) ==
    /\ edit[c].at # "idle"
    /\ edit' = [edit EXCEPT ![c] = NoEdit]
    /\ test' = [test EXCEPT ![c] = NoTest]
    /\ UNCHANGED <<rows, up, changes>>

\* A server goes down, or is back.
Outage(v) ==
    /\ MayChange
    /\ up' = IF v \in up THEN up \ {v} ELSE up \cup {v}
    /\ UNCHANGED <<rows, edit, test>>

EditStep(c) == ProbeForm(c) \/ InsertRow(c) \/ UpdateRow(c)

TestStep(t) == GetRow(t) \/ TestConnection(t) \/ StoreResult(t)

Checking(w) == TestAllDatabases(w) \/ TestAllDestinations(w)

RegistryNext ==
    \/ \E c \in Managers :
           \/ EditStep(c) \/ EditAborts(c)
           \/ \E r \in Rows :
                  \/ DeleteRow(c, r) \/ TestExisting(c, r)
                  \/ \E op \in {"create", "update"}, new \in Conns : SubmitForm(c, op, r, new)
    \/ \E w \in Workers : Checking(w) \/ WorkerRestarts(w)
    \/ \E t \in Testers : TestStep(t)
    \/ \E v \in Conns : Outage(v)

\* The checks are scheduled every 10 minutes, and each of them ends.
RegistryFairness ==
    /\ \A t \in Checks : WF_registryVars(TestStep(t))
    /\ \A w \in Workers : /\ WF_registryVars(TestAllDatabases(w))
                           /\ WF_registryVars(TestAllDestinations(w))

-----------------------------------------------------------------------------
\* Some pod runs the checks of the row.
Checked(r) ==
    r \in Destinations \/ \E w \in Workers : r \in FilterByTags(w, Databases)

\* /api/health and the health button: what is not tested yet does not count.
Healthy(some) == \A r \in Registered(some) : health[r] # "failed"

(* Whatever edits, tests and checks overlapped, once the edits and outages *)
(* are over every row that some pod checks shows for good whether its      *)
(* present connection works: a result stored late, of a connection that    *)
(* has been replaced, does not stay.  The health of the destinations, all  *)
(* of which are checked, is then what it is reported to be.                *)
HealthSettles ==
    /\ \A r \in Rows : Checked(r) =>
           <>[](conn[r] # None =>
                   health[r] = IF conn[r] \in up THEN "ok" ELSE "failed")
    /\ <>[](Healthy(Destinations) <=>
               \A r \in Registered(Destinations) : conn[r] \in up)
=============================================================================
