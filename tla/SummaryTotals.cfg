CONSTANTS
    Services = {s1, s2, s3}
    RowAmounts <- MCAmounts
    MaxRows = 2
    MaxMovers = 2
SPECIFICATION TotalsSpec
INVARIANTS
    MoversExplainTheChange
    LargestChangesShown
CHECK_DEADLOCK FALSE
