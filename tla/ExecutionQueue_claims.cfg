SPECIFICATION FairSpec
CONSTANTS
    b1 = b1
    b2 = b2
    e1 = e1
    e2 = e2
    w1 = w1
    w2 = w2
    c1 = c1
    c2 = c2
    d1 = d1
    d2 = d2
    None = None
    Backups = {b1, b2}
    Execs = {e1, e2}
    BackupOf <- OneBackupOf
    Workers = {w1, w2}
    Callers = {c1, c2}
    Cleaners = {}
    Serves <- AllTags
    LocalBackups = {}
    Deletable = {}
    AllRole = {}
    StaleAfter = 2
    Faults = {"report"}
    MaxMishaps = 2
INVARIANTS OneActivePerBackup OneDumpPerBackup
PROPERTIES NeverReactivated ReapsOnlyTheDead SlotsSpec JobsSettle
