CONSTANTS
    FirstYear = 2027
    LastYear = 2030
    DayRanges <- MCDayRanges
SPECIFICATION Spec
INVARIANTS
    SummaryWindows
    EmptyOnlyOnTheFirst
    MonthlyPoints
    DemoTilesWindow
CHECK_DEADLOCK FALSE
