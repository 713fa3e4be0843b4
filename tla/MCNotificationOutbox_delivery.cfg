SPECIFICATION FairSpec
CONSTANTS
    c1 = c1
    c2 = c2
    Threads = {t1}
    Events = {e1}
    Long = {e1}
    Parts <- TwoParts
    Writers = {w1, w2}
    MaxAttempts = 2
    MaxPublishes = 2
    MaxTroubles = 2
INVARIANTS TypeOK OneMessage SentIsShown InOrder
PROPERTIES FactsKept RowsSettle
CHECK_DEADLOCK FALSE
