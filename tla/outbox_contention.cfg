CONSTANTS
    Messages = {m1, m2, m3}
    Callers = {c1, c2}
    Worker = worker
    Nobody = nobody
    MaxPending = 2
    RetryInitial = 1
    RetryMax = 2
    MaxDoublings = 1
    ClockMayStepBack = TRUE
    MaxClock = 1
    MaxRetries = 2
SPECIFICATION Spec
INVARIANT TypeOK
INVARIANT Capacity
INVARIANT VerdictHolds
INVARIANT HeldRowIsStored
INVARIANT RetriesAccounted
INVARIANT LockHasOwner
