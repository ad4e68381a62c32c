SPECIFICATION OfficeSpec
CONSTANTS
    Procs = {p1, p2}
    Faults = {"crash", "write", "outage"}
    MaxFaults = 1
    Amount <- OfficeAmount

    Payments = {"y1", "y2"}
    MaxTime = 2
    MaxByHand = 1

    ApiPayins = {"i1"}
    ApiPayouts = {"o3"}
    MaxChanges = 2

    MaxAttempts = 1
    TwoFactor = TRUE
    LastHour = 1
    MaxPasswords = 1
    MaxToggles = 1

    Recipients = {"m1"}
    MaxDeliveryAttempts = 1
    MaxWaveFailures = 1
    MaxSends = 2

    Orders <- OfficeOrders
    PayerMethods <- OfficePayerMethods
    ApiMethods <- OfficeApiMethods
    Gateways <- OfficeGateways
    TotalOf <- OfficeTotal
    MinCharge = 2
    MaxCharge = 4
    MaxDeposit = 4

    Events = {"e1", "e2"}
    KindsOf <- OfficeKindsOf
    Admins <- OfficeAdmins
    Alerted <- OfficeAlerted
    Numberless = {"sender", "a2"}
    Mailless = {"sender"}
    MaxFailNumber = 2
SYMMETRY OfficeSymmetry
INVARIANTS
    PaidPeriodsAddUp
    StatusWasHeard
    SessionsAreEnded
    MailedOnce
    OneRoute
    OwnerIsCharged
    ForeignAccountLostARace
    EachIsToldOnce
CHECK_DEADLOCK FALSE
