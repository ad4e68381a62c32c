\* Three calls, clocks one unit apart, instances that stop, writes that fail.
SPECIFICATION Spec
CONSTANTS
    Calls = {c1, c2, c3}
    Ttl = 2
    MinTtl = 1
    Skew = 1
    MaxTime = 5
    Faults = {"crash", "write"}
INVARIANTS
    Exclusive
PROPERTY
    StaleLockDisappears
\* The clock ends at MaxTime and the model with it.
CHECK_DEADLOCK FALSE
