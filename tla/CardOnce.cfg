SPECIFICATION CardSpec
CONSTANTS
  Sessions = {s1, s2}
  CardKeys = {k1, k2}
  LastMonth = 2
  Rent = 2
  Amounts = {1, 3}
  Resend = FALSE
CHECK_DEADLOCK FALSE
INVARIANTS
  CardTypeOK
  ReceiptsWithinCharge
