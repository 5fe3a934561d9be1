CONSTANTS
    Entries = {1, 2, 3, 4}
    Twins = {2, 3}
    InOrder = TRUE
    Mappable = {1}
    Companies = {company}
    Pushers = {u1}
    Limit = 2
    Retries = 0
    MaxFaults = 2
SPECIFICATION Spec
INVARIANTS PostedOnce SyncedIsThere CursorCovers
PROPERTIES EveryEntryArrives
CHECK_DEADLOCK FALSE
