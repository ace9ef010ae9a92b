SPECIFICATION Spec
CONSTANTS
    b1 = b1
    b2 = b2
    e1 = e1
    e2 = e2
    w1 = w1
    w2 = w2
    c1 = c1
    c2 = c2
    d1 = d1
    d2 = d2
    None = None
    Backups = {b1, b2}
    Execs = {e1, e2}
    BackupOf <- OneBackupOf
    Workers = {w1, w2}
    Callers = {c1}
    Cleaners = {d1, d2}
    Serves <- AllTags
    LocalBackups = {b1}
    Deletable = {b1}
    AllRole = {}
    StaleAfter = 1
    Faults = {"beat", "report"}
    MaxMishaps = 2
SYMMETRY WorkerCleanerSymmetry
INVARIANTS OneRunnerPerExecution SuccessHasDump NoOrphanDump
