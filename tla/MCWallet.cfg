\* Three calls, any of them for one posting, with crashes, failing writes and
\* writes whose answer is lost.
SPECIFICATION Spec
CONSTANTS
    Ada = Ada
    PayinCredit = PayinCredit
    Reclaim = Reclaim
    NoKey = NoKey
    NoRequest = NoRequest
    Users <- MCUsers
    Keys <- MCKeys
    Requests <- MCRequests
    Calls = {c1, c2, c3}
    Faults = {"crash", "write"}
INVARIANTS
    SettledBalance
PROPERTIES
    ImplementsLedger
    CreditIsNotDropped
\* Every call ends and none is made again: the model stops there.
CHECK_DEADLOCK FALSE
