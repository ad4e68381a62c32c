\* What must happen in the end, with fewer jobs and one notice.
SPECIFICATION Spec
CONSTANTS
    Request = Request
    Background = Background
    Procs <- MCProcs
    Jobs <- MCLiveJobs
    Routes = {"hosted", "direct", "mpesa", "paystack"}
    Kinds = {"plain", "invoice"}
    Faults = {"crash", "lost"}
    MaxFaults = 1
    MaxTries = 1
    MaxNotices = 1
    MaxAge = 2
PROPERTIES
    SuccessIsCredited
    InvoiceIsPayed
    PayinEnds
    TxEnds
    InTimeIsCredited
CHECK_DEADLOCK FALSE
