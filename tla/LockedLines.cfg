SPECIFICATION Spec
CONSTANTS
    Users = {ann}
    Recons = {r1}
    NoRecon = noRecon
    FeedKeys = {f1}
    FileKeys = {s1}
    ManualKeys = {m1}
    Amounts = {1, 2}
    MaxRows = 2
    Overlap = TRUE
    Syncs = {y1}
    Unread = unread
    MaxEvents = 3

PROPERTIES LockedLines
CHECK_DEADLOCK FALSE
