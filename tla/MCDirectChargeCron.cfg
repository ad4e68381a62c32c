\* Three ticks, instances that stop, writes that fail.
SPECIFICATION CronSpec
CONSTANTS
    Calls = {c1, c2, c3}
    Ttl = 5
    MinTtl = 1
    Skew = 0
    MaxTime = 17
    Faults = {"crash", "write"}
    Period = 6
    Budget = 4
    ApiTimeout = 6
    Latency = 1
    MaxRows = 2
SYMMETRY CallSymmetry
INVARIANTS
    OneTickStartsRows
\* The clock ends at MaxTime and the model with it.
CHECK_DEADLOCK FALSE
