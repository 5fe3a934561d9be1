SPECIFICATION Spec
CONSTANTS
    Users = {}
    Recons = {r1}
    NoRecon = noRecon
    FeedKeys = {f1, f2}
    FileKeys = {}
    ManualKeys = {}
    Amounts = {1, 2}
    MaxRows = 2
    Overlap = FALSE
    Syncs = {y1, y2}
    Unread = unread
    MaxEvents = 3
INVARIANTS CaughtUp
CHECK_DEADLOCK FALSE
