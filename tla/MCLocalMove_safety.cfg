SPECIFICATION Spec
CONSTANTS
    k1 = k1
    k2 = k2
    N = 2
    Shapes <- AllShapes
    Foreigners = {k1}
    MaxFaults = 2
    MaxDbFaults = 1
    MaxRemovals = 1
INVARIANTS TypeOK MediaPreserved OutcomeIsTrue StepRecordsTrue ForeignPreserved
CHECK_DEADLOCK FALSE
