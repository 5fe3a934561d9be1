SPECIFICATION Spec
CONSTANTS
  Scheduler = autopay
  ClientKeys = {}
  Sessions = {}
  LastMonth = 2
  Rent = 2
  Amounts = {}
  Replies = {"processing"}
  LateEvents = {}
  LostAnswers = TRUE
  Voidable = {}
CHECK_DEADLOCK FALSE
INVARIANTS
  AutopayTakesRentOnce
