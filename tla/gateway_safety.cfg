CONSTANTS
    Modes = {"rsa", "mlkem"}
    Messages = {m1, m2}
    Callers = {c1, c2}
    NoMessage = none
    MaxPending = 1
    WarnAfter = 1
    Counted = {}
    MetricCap = 0
SPECIFICATION Spec
SYMMETRY MessageAndCallerSymmetry
INVARIANT TypeOK
INVARIANT NothingLost
INVARIANT NoLostWakeup
INVARIANT AlarmCanClear
INVARIANT RowIsHeld
PROPERTY OnlyStoredRowsLeave
PROPERTY KeepsPromise
