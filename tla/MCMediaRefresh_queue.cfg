SPECIFICATION FairSpec
CONSTANTS
    w1 = w1
    w2 = w2
    g1 = g1
    g2 = g2
    p1 = p1
    p2 = p2
    t1 = t1
    t2 = t2
    None = None
    Workers = {w1, w2}
    Groups = {g1, g2}
    Paths = {p1, p2}
    Targets = {t1, t2}
    TargetOf <- OneSharedItem
    Debounce = 1
    RecentTTL = 1
    RetryBase = 1
    BackoffCap = 1
    LeaseTime = 1
    ClaimLimit = 2
    GenWrap = 3
    MaxEnqueues = 2
    MaxFaults = 1
INVARIANT TypeOK
INVARIANT NoLostChange
INVARIANT ClaimsStayValid
PROPERTY KeepsIntent
PROPERTY QueueDrains
PROPERTY EveryChangeServed
CHECK_DEADLOCK FALSE
