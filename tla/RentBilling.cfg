CONSTANTS
    Replicas = {r1, r2}
    Nobody = Nobody
    DeadSession = DeadSession
    Charges = {c1, c2}
    FeeCharges = {c1}
    HandBilled = {c2}
    LastMonth = 2
    Starts = {0, 1}
    Ends = {2}
    Closable = {2}
    Edited = {c2}
    Moved = {c2}
    Vacated = {c2}
    Paid = {2}
    Voided = {1}
    Grace = 0
    Clerk = clerk
    Overlap = FALSE
    MaxCrashes = 1
SPECIFICATION BillingSpec
INVARIANTS BillingTypeOK ChargedOnce NoMonthLeftOut
PROPERTIES EveryMonthBilled
CHECK_DEADLOCK FALSE
