SPECIFICATION Spec
CONSTANTS
  NoUser = NoUser
  Keep = Keep
  Invoices = {i1}
  Periods = {jan, feb}
  Users = {ann, bob, cy}
  Receipts = {r1, r2}
  Amounts = {1, 2}
  Threshold = 2
  Overlap = FALSE
  Charts = {"lacking"}
SYMMETRY Symmetry
INVARIANTS
  FinalizedIsPosted
