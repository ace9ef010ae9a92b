SPECIFICATION Spec
CONSTANTS
    e1 = e1
    r1 = r1
    p1 = p1
    Jobs = {e1, r1, p1}
    Restores = {r1}
    Elsewhere = {e1}
    Earlier <- Listed2
    Over = {p1}
    Removable = {r1}
    Watched = {r1}
    PageSize = 1
    PollMax = 3
    ServiceMax = 2
    MaxMishaps = 1
CHECK_DEADLOCK FALSE
INVARIANT NoGap
PROPERTY CardsSettle
PROPERTY DialogsSettle
