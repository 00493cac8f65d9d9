CONSTANTS
    FirstYear = 2027
    LastYear = 2030
    DayRanges <- MCDayRanges
SPECIFICATION Spec
INVARIANT SameWindowLastMonth
CHECK_DEADLOCK FALSE
