CONSTANTS
  Calls = {c1, c2}
  Parties = {p1, p2}
  MaxResidents = 2
  Nothing = Nothing
SPECIFICATION Spec
INVARIANTS
  CompletedMeansSigned
  StatusMatchesParties
  OneResident
PROPERTIES
  FinalStands
CHECK_DEADLOCK FALSE
