SPECIFICATION Spec
CONSTANTS
    t1 = t1
    t2 = t2
    r1 = r1
    r2 = r2
    r3 = r3
    e1 = e1
    e2 = e2
    w1 = w1
    w2 = w2
    c1 = c1
    c2 = c2
    default = default
    west = west
    None = None
    Restores = {r1, r2, r3}
    Targets = {t1, t2}
    TargetOf <- TwoTargetsOf
    OwnerFixes = {r2, r3}
    Owned = {}
    Dumps = {e1}
    LocalDumps = {e1}
    Expiring = {e1}
    Cascading = {e1}
    Backlog = {default}
    Workers = {w1}
    Callers = {c1, c2}
    PresetTag <- NoPresetTag
    DefaultTag = default
    Serves <- EveryTag
    AllRole = {}
    StaleAfter = 1
    Faults = {"beat", "claim"}
    Purging = TRUE
    MaxCrashes = 0
INVARIANTS OneActivePerTarget
