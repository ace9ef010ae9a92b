SPECIFICATION FairSpec
CONSTANTS
    p1 = p1
    p2 = p2
    r1 = r1
    r2 = r2
    r3 = r3
    k = k
    x = x
    y = y
    None = None
    Pods = {p1, p2}
    Runs = {r1, r2}
    Clusters = {k}
    Dbs = {x}
    ClusterOf <- OneCluster
    Window = 2
    Faults = {"log", "query", "step"}
    MaxMishaps = 1
INVARIANTS FlagHasRun OneBackupEach
PROPERTIES AdmittedAlone RunsEnd OverIsForgotten
