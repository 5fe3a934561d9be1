SPECIFICATION Spec
CONSTANTS
  Scheduler = autopay
  ClientKeys = {k1}
  Sessions = {s1}
  LastMonth = 1
  Rent = 2
  Amounts = {1, 2}
  Replies = {"processing", "succeeded"}
  LateEvents = {"charge.failed", "charge.dispute.created"}
  LostAnswers = TRUE
  Voidable = {1}
CHECK_DEADLOCK FALSE
INVARIANTS
  TypeOK
  LiveOnce
