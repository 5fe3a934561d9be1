SPECIFICATION Spec
CONSTANTS
  Scheduler = autopay
  ClientKeys = {k1}
  Sessions = {s1}
  LastMonth = 1
  Rent = 2
  Amounts = {2}
  Replies = {"processing"}
  LateEvents = {"charge.refunded"}
  LostAnswers = FALSE
  Voidable = {}
CHECK_DEADLOCK FALSE
INVARIANTS
  ReturnedIsReversed
