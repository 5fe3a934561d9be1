SPECIFICATION FairSpec
CONSTANTS
  Replicas = {r1, r2}
  Nobody = Nobody
  DeadSession = DeadSession
  Events = {e1}
  Hooks = {h1, h2}
  MaxLost = 2
CHECK_DEADLOCK FALSE
INVARIANTS
  AttemptsBounded
  GivenUpForCause
PROPERTIES
  TakenIsFinal
  FailuresSettle
