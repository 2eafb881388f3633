CONSTANTS
    Modes = {"mlkem"}
    Messages = {m1, m2}
    Callers = {c1}
    NoMessage = none
    MaxPending = 2
    WarnAfter = 1
    Counted = {}
    MetricCap = 0
SPECIFICATION FairSpec
INVARIANT AlarmCanClear
PROPERTY QueueDrains
