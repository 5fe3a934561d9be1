SPECIFICATION Spec
CONSTANTS
  NoUser = NoUser
  Keep = Keep
  Invoices = {i1}
  Periods = {jan}
  Users = {ann, bob}
  Receipts = {r1}
  Amounts = {1, 2}
  Threshold = 2
  Overlap = TRUE
  Charts = {"complete", "lacking"}
SYMMETRY Symmetry
INVARIANTS
  ReceiptsMatchEntries
  OneEntryPerDocument
  FinalizedHasEntry
