CONSTANTS
    Modes = {"rsa", "mlkem"}
    Messages = {m1}
    Callers = {c1}
    NoMessage = none
    MaxPending = 2
    WarnAfter = 1
    Counted = {}
    MetricCap = 0
SPECIFICATION Spec
INVARIANT ReadyMeansForwarding
