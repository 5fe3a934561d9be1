SPECIFICATION Spec
CONSTANTS
    NoUser = noUser
    Users = {ann, bob}
    Vendors = {v1, v2}
    Requisitions = {q1}
    Orders = {o1, o2}
    Amounts = {1, 2}
    Threshold = 2
    BidThreshold = 2
    RequiredBids = 2
    Tolerance = 5
    Quantity = 2
    Bills = {b1}
    Payments = {p1, p2}
    NoOrder = noOrder
    Periods = {jan}
INVARIANTS TypeOK SignedOff BilledOrderStands BooksMatchBills
CHECK_DEADLOCK FALSE
