CONSTANTS
    Messages = {m1, m2}
    Callers = {c1}
    Worker = worker
    Nobody = nobody
    MaxPending = 2
    RetryInitial = 1
    RetryMax = 3
    MaxDoublings = 2
    ClockMayStepBack = FALSE
    MaxClock = 6
    MaxRetries = 4
SPECIFICATION Spec
INVARIANT WaitFollowsSchedule
INVARIANT WaitIsBounded
