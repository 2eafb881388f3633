CONSTANTS
    Modes = {"rsa", "mlkem"}
    Messages = {m1, m2}
    Callers = {c1}
    NoMessage = none
    NoEnvelope = noenvelope
    MaxPending = 1
    WarnAfter = 1
    CloudWarnAfter = 1
    SensorWarnAfter = 1
    Counted = {}
    MetricCap = 0
    CloudMetricCap = 0
    MaxStarts = 2
    MaxStrays = 1
    MaxFaults = 1
SPECIFICATION MCFairSpec
INVARIANT SystemTypeOK
INVARIANT NoneSkipped
INVARIANT SensorAccounted
PROPERTY EveryReadingArrives
PROPERTY KeepsPath
