CONSTANTS
    Messages = {m1, m2}
    Callers = {c1, c2}
    Worker = worker
    Nobody = nobody
    MaxPending = 2
    RetryInitial = 1
    RetryMax = 2
    MaxDoublings = 1
    ClockMayStepBack = FALSE
    MaxClock = 2
    MaxRetries = 1
SPECIFICATION HistorySpec
INVARIANT QueueInvariants
INVARIANT RowsFormOneLine
PROPERTY ImplementsQueue
PROPERTY HandsOutOldest
