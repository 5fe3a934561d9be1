SPECIFICATION CardSpec
CONSTANTS
  Sessions = {s1, s2}
  CardKeys = {k1}
  LastMonth = 2
  Rent = 2
  Amounts = {1, 3}
  Resend = TRUE
CHECK_DEADLOCK FALSE
INVARIANTS
  ReceiptsWithinCharge
