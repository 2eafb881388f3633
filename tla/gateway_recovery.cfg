CONSTANTS
    Modes = {"rsa", "mlkem"}
    Messages = {m1}
    Callers = {c1, c2}
    NoMessage = none
    MaxPending = 1
    WarnAfter = 1
    Counted = {"received", "accepted", "rejected"}
    MetricCap = 3
SPECIFICATION FairSpec
INVARIANT RequestsAccounted
PROPERTY ReadinessReturns
