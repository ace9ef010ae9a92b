SPECIFICATION FairSpec
CONSTANTS
    p1 = p1
    p2 = p2
    s1 = s1
    s2 = s2
    file = file
    a = a
    None = None
    File = file
    Pods = {p1, p2}
    Savers = {s1, s2}
    PodOf <- OnFirst
    Contents = {file, a}
    Kept = 2
    MaxSaves = 2
    MaxFaults = 1
INVARIANTS AppliedIsSaved ReplacedIsKept
PROPERTIES PodsConverge
