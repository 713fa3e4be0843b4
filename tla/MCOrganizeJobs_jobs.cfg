SPECIFICATION MCFairSpec
CONSTANTS
    j1 = j1
    j2 = j2
    j3 = j3
    j4 = j4
    Jobs = {j1, j2, j3, j4}
    Plans <- MCPlans
    Gens = 3
    Together <- MCTogether
    Faulty = {j1, j2}
    MaxTroubles = 2
INVARIANTS JobsTypeOK SentOnce CancelledIsSettled CompletedIsTrue
PROPERTIES NoCopyAfterCancel JobsEnd
CHECK_DEADLOCK FALSE
