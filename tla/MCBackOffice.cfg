SPECIFICATION OfficeSpec
CONSTANTS
    Parts = {"system balance", "spending", "reconcile", "invoice", "fulfilment", "money",
             "developer keys"}
    Procs = {p1, p2}
    Faults = {"crash", "write", "outage"}
    MaxFaults = 1
    Amount <- OfficeAmount

    Recharges = {"r1"}
    Withdrawals = {"w1"}
    HandCredits = {}
    HandDebits = {"d1"}
    Opening = 1

    Attempts = {"o1", "o2", "t", "w", "i"}
    Kind <- OfficeKind
    IdemKey <- OfficeKey
    NoKey = "none"
    Unauthorised = {"o2"}
    Purse = 3
    Lowest <- OfficeLowest
    Highest <- OfficeHighest

    Txs = {"in", "out"}
    Outgoing = {"out"}
    MaxRuns = 2
    Savings = 2

    MaxTxs = 3
    MaxOwner = 1

    Asked = {"q1"}
    Given = {"g1"}
    Sold = {"s1"}
    MaxOrders = 2
    Prices = {10, 50}
    Rates = {0, 4}
    Methods <- OfficeMethods
    MaxRateChanges = 1

    MaxUpdates = 1
    MaxKeys = 2
    BadUrl = "bad"
SYMMETRY OfficeSymmetry
INVARIANTS
    PostedOnce
    CompletedIsPosted
    UnfundedLostARace
    SpentIsCovered
    KeyRunsOnce
    FoundPayinCreditedOnce
    OneChargeAtATime
    PayedIsKept
    RequestFollowsTx
    PaidIsDeliveredOnce
    RefundGivesBack
    KeysObeyTheirOwner
CHECK_DEADLOCK FALSE
