\* Both providers, every fault, two faults per behaviour.
SPECIFICATION Spec
CONSTANTS
    Request = Request
    Background = Background
    Procs <- MCProcs
    Jobs <- MCJobs
    Providers = {"flutterwave", "mpesa"}
    Faults = {"crash", "lostAnswer", "write", "outage", "credit"}
    MaxFaults = 2
    MaxCallbacks = 2
INVARIANTS
    AtMostOneTransfer
    PaidAndRefundedNeedsMishap
    UnpaidIsRefunded
    SuccessIsPaid
PROPERTIES
    PayoutEnds
CHECK_DEADLOCK FALSE
