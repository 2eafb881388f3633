CONSTANTS
    Messages = {m1, m2}
    CloudWarnAfter = 2
    MaxStarts = 2
    CloudMetricCap = 4
SPECIFICATION CloudSpec
INVARIANT CloudTypeOK
INVARIANT CountersAgree
PROPERTY RowsStay
CHECK_DEADLOCK FALSE
