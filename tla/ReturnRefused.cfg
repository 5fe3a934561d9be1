SPECIFICATION FairSpec
CONSTANTS
  Scheduler = autopay
  ClientKeys = {}
  Sessions = {}
  LastMonth = 1
  Rent = 2
  Amounts = {}
  Replies = {"processing"}
  LateEvents = {"charge.refunded"}
  LostAnswers = FALSE
  Voidable = {}
CHECK_DEADLOCK FALSE
PROPERTIES
  ReturnsReachBooks
