CONSTANTS
    Entries = {1, 2, 3}
    Twins = {2, 3}
    InOrder = TRUE
    Mappable = {1}
    Companies = {company}
    Pushers = {u1}
    Limit = 2
    Retries = 1
    MaxFaults = 2
SPECIFICATION Spec
INVARIANTS PostedOnce
CHECK_DEADLOCK FALSE
