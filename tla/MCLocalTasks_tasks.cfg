\* Two rows of one path, the scheduler and one request, a fault or a crash.
SPECIFICATION TasksSpec
CONSTANTS
    Rows <- MCRows
    Requests = {w1}
    Scheduler = sched
    MaxFaults = 1
    MaxCrashes = 1
CONSTRAINT Bounded
INVARIANTS QuietWhileMoving InterruptedWaits
PROPERTIES ResumedOnlyUntouched CompletedStays
