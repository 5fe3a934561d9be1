SPECIFICATION FairSpec
CONSTANTS
  Scheduler = autopay
  ClientKeys = {}
  Sessions = {}
  LastMonth = 2
  Rent = 2
  Amounts = {}
  Replies = {"processing"}
  LateEvents = {"charge.failed", "charge.refunded", "partial_refund"}
  LostAnswers = FALSE
  Voidable = {}
CHECK_DEADLOCK FALSE
INVARIANTS
  BooksFollowBank
  AutopayTakesRentOnce
PROPERTIES
  CollectsAsPromised
