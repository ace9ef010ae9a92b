SPECIFICATION FairTailSpec
CONSTANTS
    c1 = c1
    c2 = c2
    None = None
    Callers = {c1, c2}
    FlushFails = FALSE
    MaxLinesRead = 3
    MaxFlushes = 4
PROPERTIES NeverOlder FlushNowDurable FlushNowReturns
CHECK_DEADLOCK FALSE
