\* A second attempt on the hosted page that succeeds.
SPECIFICATION Spec
CONSTANTS
    Request = Request
    Background = Background
    Procs <- MCProcs
    Jobs <- MCJobs
    Routes = {"hosted"}
    Kinds = {"plain"}
    Faults = {}
    MaxFaults = 0
    MaxTries = 2
    MaxNotices = 2
    MaxAge = 2
PROPERTY
    LaterAttemptCounts
CHECK_DEADLOCK FALSE
