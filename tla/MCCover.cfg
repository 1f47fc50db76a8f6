SPECIFICATION FairSpec
CONSTANTS
    Callers = {c1, c2}
    TaskIds = {t1, t2}
    NoTask = NoTask
    NoOwner = NoOwner
    MaxPos = 1
    Threshold = 2
    Delay = 3
    ObserversRaise = TRUE
    c1 = c1
    c2 = c2
    t1 = t1
    t2 = t2
INVARIANTS
    TypeOK
    OneIdleTask
    KeptUntilRaised
PROPERTIES
    NotIdleEarly
    NotifierReturns
    SettlesIdle
