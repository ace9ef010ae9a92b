SPECIFICATION FairSpec
CONSTANTS
    t1 = t1
    t2 = t2
    r1 = r1
    r2 = r2
    r3 = r3
    e1 = e1
    e2 = e2
    w1 = w1
    w2 = w2
    c1 = c1
    c2 = c2
    default = default
    west = west
    None = None
    Restores = {r1, r2}
    Targets = {t1}
    TargetOf <- OneTargetOf
    OwnerFixes = {}
    Owned = {t1}
    Dumps = {e1}
    LocalDumps = {}
    Expiring = {e1}
    Cascading = {}
    Backlog = {default}
    Workers = {w1, w2}
    Callers = {c1, c2}
    PresetTag <- WestTag
    DefaultTag = default
    Serves <- EveryTag
    AllRole = {}
    StaleAfter = 1
    Faults = {"report"}
    Purging = FALSE
    MaxCrashes = 1
INVARIANTS OneRestorerPerTarget RestoredStays
PROPERTIES SuccessMeansRestored SlotsSpec QueuedIsServed
