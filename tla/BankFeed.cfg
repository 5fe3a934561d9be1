SPECIFICATION Spec
CONSTANTS
    Users = {ann}
    Recons = {r1, r2}
    NoRecon = noRecon
    FeedKeys = {f1, f2}
    FileKeys = {s1}
    ManualKeys = {m1}
    Amounts = {1, 2}
    MaxRows = 2
    Overlap = FALSE
    Syncs = {y1, y2}
    Unread = unread
    MaxEvents = 2
INVARIANTS TypeOK CompletedBalances ClearedIffReconciled CursorCovers
CHECK_DEADLOCK FALSE
SYMMETRY Symmetry
