SPECIFICATION Spec
CONSTANTS
    c1 = c1
    c2 = c2
    Threads = {t1}
    Events = {e1}
    Long = {e1}
    Parts <- NoParts
    Writers = {w1}
    MaxAttempts = 2
    MaxPublishes = 2
    MaxTroubles = 0
INVARIANT ShownOnce
CHECK_DEADLOCK FALSE
