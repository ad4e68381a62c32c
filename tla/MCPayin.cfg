\* Every route and fault.
SPECIFICATION Spec
CONSTANTS
    Request = Request
    Background = Background
    Procs <- MCProcs
    Jobs <- MCJobs
    Routes = {"hosted", "direct", "mpesa", "paystack"}
    Kinds = {"plain", "invoice"}
    Faults = {"crash", "lost", "outage", "credit", "invoice", "share"}
    MaxFaults = 1
    MaxTries = 2
    MaxNotices = 2
    MaxAge = 2
INVARIANTS
    PaidBeforeCredited
    HandledOnce
    ClaimIsHandled
CHECK_DEADLOCK FALSE
