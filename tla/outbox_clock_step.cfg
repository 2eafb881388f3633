CONSTANTS
    Messages = {m1}
    Callers = {c1}
    Worker = worker
    Nobody = nobody
    MaxPending = 1
    RetryInitial = 1
    RetryMax = 2
    MaxDoublings = 1
    ClockMayStepBack = TRUE
    MaxClock = 4
    MaxRetries = 2
SPECIFICATION Spec
INVARIANT WaitIsBounded
