\* No fault at all: four calls, some of them for the same pay-in.
SPECIFICATION Spec
CONSTANTS
    Ada = Ada
    PayinCredit = PayinCredit
    Reclaim = Reclaim
    NoKey = NoKey
    NoRequest = NoRequest
    Users <- MCUsers
    Keys <- MCKeys
    Requests <- MCRequests
    Calls = {c1, c2, c3, c4}
    Faults = {}
INVARIANTS
    NeverOverdrawn
CHECK_DEADLOCK FALSE
