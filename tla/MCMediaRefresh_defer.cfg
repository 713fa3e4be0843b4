SPECIFICATION FairSpec
CONSTANTS
    w1 = w1
    w2 = w2
    g1 = g1
    g2 = g2
    p1 = p1
    p2 = p2
    t1 = t1
    t2 = t2
    None = None
    Workers = {w1}
    Groups = {g1, g2}
    Paths = {p1, p2}
    Targets = {t1, t2}
    TargetOf <- SharedItems
    Debounce = 1
    RecentTTL = 2
    RetryBase = 1
    BackoffCap = 1
    LeaseTime = 2
    ClaimLimit = 2
    GenWrap = 3
    MaxEnqueues = 3
    MaxFaults = 0
PROPERTY DeferralEnds
CHECK_DEADLOCK FALSE
