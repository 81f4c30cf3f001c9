SPECIFICATION ProgressSpec
CONSTANTS
    p1 = p1
    p2 = p2
    None = none
    NotCached = NotCached
    Torn = Torn
PROPERTIES Drains TransfersEnd CallsReturn PausesKept
CHECK_DEADLOCK FALSE
